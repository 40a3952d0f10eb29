------------------------- MODULE CommentModeration -------------------------
(***************************************************************************)
(* The comments of one video, from the request that inserts one to its     *)
(* deletion: submission to review, machine verdict, human decision,        *)
(* appeal, taking offline, the ban of a commenter, and the comment_count   *)
(* kept beside them in video_stat.  Database transactions are single       *)
(* steps; a request holds in req[c] the call it makes next.                *)
(***************************************************************************)
EXTENDS Naturals, FiniteSets

CONSTANTS
  Comments,   \* the comments, one for each user and Idempotency-Key
  Users,      \* the accounts that comment
  Author,     \* the account of each comment
  Clients,    \* the commenters' concurrently running requests
  NoComment   \* the request slot is free

ASSUME ConstantsAssumption ==
  /\ IsFiniteSet(Comments)
  /\ Author \in [Comments -> Users]
  /\ NoComment \notin Comments

VARIABLES
  open,     \* the video is published
  status,   \* interaction_comment.status
  review,   \* content_review.status of the comment, which has one review
  appeal,   \* content_appeal.status of that review
  count,    \* video_stat.comment_count
  active,   \* account.status is normal
  req       \* the requests in flight

vars == <<open, status, review, appeal, count, active, req>>
----------------------------------------------------------------------------
CommentStatus == {"absent", "pending_review", "normal", "rejected",
                  "appeal_pending", "offline", "deleted"}
ReviewStatus  == {"none", "pending", "human_review", "published", "rejected",
                  "canceled"}
AppealStatus  == {"none", "pending", "approved", "rejected"}

Appealing == {"appeal_check", "appeal_write"}
Request   == [step    : {"idle", "insert", "submit"} \cup Appealing,
              comment : Comments \cup {NoComment}]

Idle == [step |-> "idle", comment |-> NoComment]

\* Every variable has its type, and a request in flight is about a comment.
TypeOK ==
  /\ open     \in BOOLEAN
  /\ status   \in [Comments -> CommentStatus]
  /\ review   \in [Comments -> ReviewStatus]
  /\ appeal   \in [Comments -> AppealStatus]
  /\ count    \in Nat
  /\ active   \in [Users -> BOOLEAN]
  /\ req      \in [Clients -> Request]
  /\ \A c \in Clients : req[c].step # "idle" => req[c].comment \in Comments

Init ==
  /\ open     = TRUE
  /\ status   = [m \in Comments |-> "absent"]
  /\ review   = [m \in Comments |-> "none"]
  /\ appeal   = [m \in Comments |-> "none"]
  /\ count    = 0
  /\ active   = [u \in Users |-> TRUE]
  /\ req      = [c \in Clients |-> Idle]

target == <<status, review, appeal, count>>
----------------------------------------------------------------------------
(* Requests of the commenters.                                             *)

Admitted(c, m) == req[c].step = "idle" /\ active[Author[m]]

Call(c, step, m) == req' = [req EXCEPT ![c] = [step |-> step, comment |-> m]]

Return(c) == req' = [req EXCEPT ![c] = Idle]

\* The keyed lookup finds nothing: the request goes on to insert the row.
CreateComment(c, m) ==
  /\ Admitted(c, m)
  /\ status[m] = "absent"
  /\ Call(c, "insert", m)
  /\ UNCHANGED <<open, target, active>>

\* The lookup finds the row, and that is the answer.
RetryComment(c, m) ==
  /\ Admitted(c, m)
  /\ status[m] # "absent"
  /\ UNCHANGED <<open, target, active, req>>

\* The row is inserted while the video is locked as published; a request that
\* loses the race for the key goes on with the row of the other.
InsertComment(c) ==
  LET m == req[c].comment
  IN  /\ req[c].step = "insert"
      /\ IF open
         THEN /\ status' = [status EXCEPT ![m] =
                              IF @ = "absent" THEN "pending_review" ELSE @]
              /\ Call(c, "submit", m)
         ELSE /\ Return(c)
              /\ UNCHANGED status
      /\ UNCHANGED <<open, review, appeal, count, active>>

\* SubmitComment opens the review, in a transaction of its own and only once.
SubmitComment(c) ==
  LET m == req[c].comment
  IN  /\ req[c].step = "submit"
      /\ review' = [review EXCEPT ![m] = IF @ = "none" THEN "pending" ELSE @]
      /\ Return(c)
      /\ UNCHANGED <<open, status, appeal, count, active>>

\* The request is cut short by its deadline, an error or a crash of the API.
Abort(c) ==
  /\ req[c].step # "idle"
  /\ Return(c)
  /\ UNCHANGED <<open, target, active>>

Clamped(n) == IF n > 0 THEN n - 1 ELSE 0

\* Mutant: a comment that was not shown is subtracted as well.
DeleteAndSubtract(m) ==
  /\ status[m] # "absent"
  /\ status' = [status EXCEPT ![m] = "deleted"]
  /\ count' = IF status[m] # "deleted" THEN Clamped(count) ELSE count
  /\ UNCHANGED <<open, review, appeal, active, req>>

\* By the commenter, the author of the video or an administrator.
DeleteComment(m) ==
  /\ status[m] # "absent"
  /\ status' = [status EXCEPT ![m] = "deleted"]
  /\ count' = IF status[m] = "normal" THEN Clamped(count) ELSE count
  /\ UNCHANGED <<open, review, appeal, active, req>>
----------------------------------------------------------------------------
(* What a verdict does to the comment, in the transaction of the caller.    *)

Publishable == {"pending_review", "rejected", "appeal_pending", "offline"}

\* Mutant: a deleted comment is published like any other.
PublishEvenDeleted(m) ==
  /\ status[m] # "absent"
  /\ status' = [status EXCEPT ![m] = "normal"]
  /\ count' = IF status[m] = "normal" THEN count ELSE count + 1

\* publishTarget, which fails from any other status.
PublishTarget(m) ==
  \/ /\ status[m] = "normal"
     /\ UNCHANGED <<status, count>>
  \/ /\ status[m] \in Publishable
     /\ status' = [status EXCEPT ![m] = "normal"]
     /\ count' = count + 1

\* rejectTarget does not touch the count.
RejectTarget(m) ==
  /\ status[m] \notin {"absent", "deleted"}
  /\ status' = [status EXCEPT ![m] = "rejected"]
  /\ UNCHANGED count

Close(m, s) == review' = [review EXCEPT ![m] = s]

\* The worker's verdict, or the provider's callback, on the one component.
Judge(m) ==
  /\ review[m] = "pending"
  /\ \/ status[m] = "deleted" /\ Close(m, "canceled") /\ UNCHANGED <<status, count>>
     \/ PublishTarget(m) /\ Close(m, "published")
     \/ RejectTarget(m) /\ Close(m, "rejected")
     \/ Close(m, "human_review") /\ UNCHANGED <<status, count>>
  /\ UNCHANGED <<open, appeal, active, req>>

\* A moderator decides; for a deleted comment the transaction fails.
DecideReview(m) ==
  /\ review[m] = "human_review"
  /\ \/ PublishTarget(m) /\ Close(m, "published")
     \/ RejectTarget(m) /\ Close(m, "rejected")
  /\ UNCHANGED <<open, appeal, active, req>>
----------------------------------------------------------------------------
(* Appeals.                                                                *)

\* The rejected review is looked up before the transaction ...
CreateAppeal(c, m) ==
  /\ Admitted(c, m)
  /\ review[m] = "rejected"
  /\ appeal[m] # "pending"
  /\ Call(c, "appeal_check", m)
  /\ UNCHANGED <<open, target, active>>

\* ... which reads the comment without locking it ...
CheckAppealTarget(c) ==
  /\ req[c].step = "appeal_check"
  /\ IF status[req[c].comment] = "rejected"
     THEN Call(c, "appeal_write", req[c].comment)
     ELSE Return(c)
  /\ UNCHANGED <<open, target, active>>

\* ... inserts the appeal, one per review, and moves a comment still rejected.
WriteAppeal(c) ==
  LET m == req[c].comment
  IN  /\ req[c].step = "appeal_write"
      /\ IF appeal[m] = "none"
         THEN /\ appeal' = [appeal EXCEPT ![m] = "pending"]
              /\ status' = [status EXCEPT ![m] =
                              IF @ = "rejected" THEN "appeal_pending" ELSE @]
         ELSE UNCHANGED <<appeal, status>>
      /\ Return(c)
      /\ UNCHANGED <<open, review, count, active>>

\* For a deleted comment the decision fails and the appeal stays pending.
DecideAppeal(m) ==
  /\ appeal[m] = "pending"
  /\ \/ /\ PublishTarget(m)
        /\ Close(m, "published")
        /\ appeal' = [appeal EXCEPT ![m] = "approved"]
     \/ /\ RejectTarget(m)
        /\ Close(m, "rejected")
        /\ appeal' = [appeal EXCEPT ![m] = "rejected"]
  /\ UNCHANGED <<open, active, req>>
----------------------------------------------------------------------------
(* Administrators.                                                         *)

TakeOffline(m) ==
  /\ status[m] = "normal"
  /\ status' = [status EXCEPT ![m] = "offline"]
  /\ count' = Clamped(count)
  /\ UNCHANGED <<open, review, appeal, active, req>>

Restore(m) ==
  /\ status[m] = "offline"
  /\ PublishTarget(m)
  /\ UNCHANGED <<open, review, appeal, active, req>>

Normal == {m \in Comments : status[m] = "normal"}

\* SetUserBanned(true): the user's comments go offline, and the video is
\* counted anew if the user has ever commented on it.
Ban(u) ==
  LET gone == {m \in Normal : Author[m] = u}
  IN  /\ active' = [active EXCEPT ![u] = FALSE]
      /\ status' = [m \in Comments |-> IF m \in gone THEN "offline" ELSE status[m]]
      /\ count' = IF \E m \in Comments : Author[m] = u /\ status[m] # "absent"
                  THEN Cardinality(Normal \ gone) ELSE count
      /\ UNCHANGED <<open, review, appeal, req>>

Unban(u) ==
  /\ active' = [active EXCEPT ![u] = TRUE]
  /\ UNCHANGED <<open, target, req>>

\* The video is taken from the public or given back.
SetVideo ==
  /\ open' = ~open
  /\ UNCHANGED <<target, active, req>>
----------------------------------------------------------------------------
RequestStep(c) ==
  \/ \E m \in Comments : \/ CreateComment(c, m) \/ RetryComment(c, m)
                         \/ CreateAppeal(c, m)
  \/ InsertComment(c)
  \/ SubmitComment(c)
  \/ CheckAppealTarget(c)
  \/ WriteAppeal(c)
  \/ Abort(c)

ModeratorStep(m) ==
  \/ Judge(m)
  \/ DecideReview(m)
  \/ DecideAppeal(m)
  \/ TakeOffline(m)
  \/ Restore(m)
  \/ DeleteComment(m)

Next ==
  \/ \E c \in Clients : RequestStep(c)
  \/ \E m \in Comments : ModeratorStep(m)
  \/ \E u \in Users : Ban(u) \/ Unban(u)
  \/ SetVideo

Spec == Init /\ [][Next]_vars
----------------------------------------------------------------------------
(* Properties.                                                             *)

\* comment_count, kept by increments, decrements with a clamp and the recount
\* of a ban, is always the number of comments on show.
CountIsExact == count = Cardinality(Normal)

\* The three rows about a comment agree, though requests, appeals, moderators
\* and deletions write them in any order: a comment on show was let through,
\* one under appeal has a pending appeal against a rejection, and only a
\* deletion leaves a review or an appeal without its comment.
RecordsAgree ==
  \A m \in Comments :
    /\ appeal[m] = "pending" => review[m] = "rejected"
    /\ appeal[m] = "approved" => review[m] = "published"
    /\ appeal[m] = "rejected" => review[m] = "rejected"
    /\ status[m] = "absent" => review[m] = "none"
    /\ status[m] = "pending_review" => review[m] \in {"none", "pending", "human_review"}
    /\ status[m] \in {"normal", "offline"} => review[m] = "published"
    /\ status[m] \in {"rejected", "appeal_pending"} => review[m] = "rejected"
    /\ appeal[m] = "pending" => status[m] \in {"appeal_pending", "deleted"}
    /\ status[m] = "appeal_pending" => appeal[m] = "pending"

\* A request about an appeal still contests the rejection, unless another has
\* come first; one that submits finds its row.
RequestsAgree ==
  \A c \in Clients :
    LET m == req[c].comment
    IN  /\ req[c].step = "submit" => status[m] # "absent"
        /\ req[c].step \in Appealing => review[m] = "rejected" \/ appeal[m] # "none"

\* Inductive: the records of a comment, the requests about it and the count
\* never contradict each other.
CommentInv ==
  /\ TypeOK
  /\ RecordsAgree
  /\ RequestsAgree
  /\ CountIsExact

\* The audience's view implements the board.
Board == INSTANCE CommentBoard WITH
  shown   <- Normal,
  cleared <- {m \in Comments : review[m] = "published"},
  removed <- {m \in Comments : status[m] = "deleted"}

\* Every operation of the code is one on the board: only cleared comments come
\* on, removed ones never return, and the counter follows in the same step.
BoardSpec == Board!BoardSpec
============================================================================
