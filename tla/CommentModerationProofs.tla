---------------------- MODULE CommentModerationProofs ----------------------
(***************************************************************************)
(* Proofs about CommentModeration, for any number of comments, commenters  *)
(* and concurrent requests: the rows about a comment agree, comment_count  *)
(* is the number of comments on show, and the audience's view implements   *)
(* CommentBoard.  All rest on CommentInv, which is inductive.              *)
(***************************************************************************)
EXTENDS CommentModeration, FiniteSetTheorems, TLAPS

----------------------------------------------------------------------------
(* Lemmas about the comments on show and their number.                     *)

\* There are finitely many comments on show.
LEMMA NormalIsFinite ==
  /\ IsFiniteSet(Normal)
  /\ Cardinality(Normal) \in Nat
<1>1. Normal \in SUBSET Comments
  BY DEF Normal
<1>2. IsFiniteSet(Normal)
  BY <1>1, FS_Subset, ConstantsAssumption
<1> QED BY <1>2, FS_CardinalityType

\* A comment that comes on show is one more (publishTarget).
LEMMA ShowCounts ==
  ASSUME TypeOK, CountIsExact, NEW m \in Comments, status[m] # "normal",
         status' = [status EXCEPT ![m] = "normal"], count' = count + 1
  PROVE  /\ Normal' = Normal \cup {m}
         /\ m \notin Normal
         /\ CountIsExact'
<1>1. status \in [Comments -> CommentStatus]
  BY DEF TypeOK
<1>2. Normal' = Normal \cup {m} /\ m \notin Normal
  BY <1>1 DEF Normal
<1>3. Cardinality(Normal \cup {m}) = Cardinality(Normal) + 1
  BY <1>2, NormalIsFinite, FS_AddElement
<1> QED BY <1>2, <1>3 DEF CountIsExact

\* A comment that leaves is one less if it was on show, and the clamp of the
\* decrement never bites (DeleteComment, ModerateContent).
LEMMA LeaveCounts ==
  ASSUME TypeOK, CountIsExact, NEW m \in Comments, NEW s \in CommentStatus \ {"normal"},
         status' = [status EXCEPT ![m] = s],
         count' = IF status[m] = "normal" THEN Clamped(count) ELSE count
  PROVE  /\ Normal' = Normal \ {m}
         /\ CountIsExact'
         /\ count' \in Nat
<1>1. status \in [Comments -> CommentStatus] /\ count \in Nat
  BY DEF TypeOK
<1>2. Normal' = Normal \ {m}
  BY <1>1 DEF Normal
<1>3. CASE status[m] = "normal"
  <2>1. m \in Normal
    BY <1>3 DEF Normal
  <2>2. Cardinality(Normal \ {m}) = Cardinality(Normal) - 1 /\ Cardinality(Normal \ {m}) \in Nat
    BY <2>1, NormalIsFinite, FS_RemoveElement, FS_CardinalityType
  <2> QED BY <1>1, <1>2, <1>3, <2>2 DEF CountIsExact, Clamped
<1>4. CASE status[m] # "normal"
  <2>1. Normal \ {m} = Normal
    BY <1>4 DEF Normal
  <2> QED BY <1>1, <1>2, <1>4, <2>1 DEF CountIsExact
<1> QED BY <1>3, <1>4

\* The recount of a ban leaves exactly what stays on show (SetUserBanned).
LEMMA BanCounts ==
  ASSUME TypeOK, CountIsExact, NEW u \in Users, Ban(u)
  PROVE  /\ Normal' = Normal \ {m \in Normal : Author[m] = u}
         /\ CountIsExact'
         /\ count' \in Nat
<1> DEFINE gone == {m \in Normal : Author[m] = u}
<1>1. status \in [Comments -> CommentStatus] /\ count \in Nat
  BY DEF TypeOK
<1>2. Normal' = Normal \ gone
  BY <1>1 DEF Ban, Normal
<1>3. IsFiniteSet(Normal \ gone) /\ Cardinality(Normal \ gone) \in Nat
  <2>1. Normal \ gone \in SUBSET Normal
    OBVIOUS
  <2>2. IsFiniteSet(Normal \ gone)
    BY <2>1, NormalIsFinite, FS_Subset
  <2> QED BY <2>2, FS_CardinalityType
<1>4. CASE \E m \in Comments : Author[m] = u /\ status[m] # "absent"
  BY <1>2, <1>3, <1>4 DEF Ban, CountIsExact
<1>5. CASE ~ \E m \in Comments : Author[m] = u /\ status[m] # "absent"
  <2>1. gone = {}
    BY <1>5 DEF Normal
  <2>2. Normal \ gone = Normal
    BY <2>1
  <2> QED BY <1>1, <1>2, <1>5, <2>2 DEF Ban, CountIsExact
<1> QED BY <1>2, <1>4, <1>5

\* Nothing changes for the count when no status does.
LEMMA SameCounts ==
  ASSUME CountIsExact, UNCHANGED <<status, count>>
  PROVE  CountIsExact' /\ Normal' = Normal
BY DEF CountIsExact, Normal

\* publishTarget keeps the count exact and leaves the comment on show.
LEMMA PublishCounts ==
  ASSUME TypeOK, CountIsExact, NEW m \in Comments, PublishTarget(m)
  PROVE  /\ CountIsExact' /\ count' \in Nat
         /\ status' = [status EXCEPT ![m] = "normal"]
         /\ status[m] \in Publishable \cup {"normal"}
<1>1. status \in [Comments -> CommentStatus] /\ count \in Nat
  BY DEF TypeOK
<1>2. CASE status[m] = "normal" /\ UNCHANGED <<status, count>>
  BY <1>1, <1>2, SameCounts
<1>3. CASE /\ status[m] \in Publishable
           /\ status' = [status EXCEPT ![m] = "normal"]
           /\ count' = count + 1
  <2>1. status[m] # "normal"
    BY <1>3 DEF Publishable
  <2>2. CountIsExact'
    BY <1>3, <2>1, ShowCounts
  <2> QED BY <1>1, <1>3, <2>2
<1> QED BY <1>2, <1>3 DEF PublishTarget

\* rejectTarget keeps it exact unless the comment is on show.
LEMMA RejectCounts ==
  ASSUME TypeOK, CountIsExact, NEW m \in Comments, RejectTarget(m), status[m] # "normal"
  PROVE  CountIsExact' /\ Normal' = Normal
<1>1. status \in [Comments -> CommentStatus]
  BY DEF TypeOK
<1>2. Normal' = Normal
  BY <1>1 DEF RejectTarget, Normal
<1> QED BY <1>2 DEF RejectTarget, CountIsExact

----------------------------------------------------------------------------
(* The inductive invariant.                                                *)

\* Init establishes CommentInv.
LEMMA InitInv == Init => CommentInv
<1> SUFFICES ASSUME Init PROVE CommentInv
  OBVIOUS
<1>1. TypeOK
  BY DEF Init, TypeOK, CommentStatus, ReviewStatus, AppealStatus, Request, Idle
<1>2. RecordsAgree
  BY DEF Init, RecordsAgree
<1>3. RequestsAgree
  BY DEF Init, RequestsAgree, Idle, Appealing
<1>4. CountIsExact
  <2>1. Normal = {}
    BY DEF Init, Normal
  <2> QED BY <2>1, FS_EmptySet DEF Init, CountIsExact
<1> QED BY <1>1, <1>2, <1>3, <1>4 DEF CommentInv

\* The calls of a request that change no row of its comment preserve it.
LEMMA RequestCalls ==
  ASSUME CommentInv, NEW c \in Clients, NEW m \in Comments,
         \/ CreateComment(c, m) \/ RetryComment(c, m) \/ CreateAppeal(c, m)
         \/ CheckAppealTarget(c) \/ Abort(c)
  PROVE  CommentInv'
<1> USE DEF CommentInv
<1>0. UNCHANGED target /\ UNCHANGED <<open, active>>
  BY DEF CreateComment, RetryComment, CreateAppeal, CheckAppealTarget, Abort
<1>1. CountIsExact'
  BY <1>0, SameCounts DEF target
<1>2. RecordsAgree'
  BY <1>0 DEF RecordsAgree, target
<1>3. TypeOK'
  BY <1>0 DEF TypeOK, target, Request, Idle, Appealing, Call, Return, CreateComment,
     RetryComment, CreateAppeal, CheckAppealTarget, Abort
<1>4. RequestsAgree'
  BY <1>0 DEF RequestsAgree, TypeOK, target, Request, Idle, Appealing, Call, Return,
     CreateComment, RetryComment, CreateAppeal, CheckAppealTarget, Abort
<1> QED BY <1>1, <1>2, <1>3, <1>4

\* InsertComment preserves it: a new row waits for review and is not shown.
LEMMA Insert ==
  ASSUME CommentInv, NEW c \in Clients, InsertComment(c)
  PROVE  CommentInv'
<1> USE DEF CommentInv
<1> DEFINE m == req[c].comment
<1>0. m \in Comments /\ req[c].step = "insert"
  BY DEF TypeOK, InsertComment
<1>1. CountIsExact' /\ Normal' = Normal
  <2>1. Normal' = Normal
    BY <1>0 DEF InsertComment, Normal, TypeOK
  <2> QED BY <2>1 DEF InsertComment, CountIsExact
<1>2. RecordsAgree'
  BY <1>0 DEF InsertComment, RecordsAgree, TypeOK, ReviewStatus, AppealStatus
<1>3. TypeOK'
  <2>1. status' \in [Comments -> CommentStatus]
    BY <1>0 DEF InsertComment, TypeOK, CommentStatus
  <2>2. req' \in [Clients -> Request]
        /\ \A d \in Clients : req'[d].step # "idle" => req'[d].comment \in Comments
    BY <1>0 DEF InsertComment, TypeOK, Request, Idle, Call, Return
  <2> QED BY <2>1, <2>2 DEF InsertComment, TypeOK
<1>4. RequestsAgree'
  BY <1>0 DEF InsertComment, RequestsAgree, TypeOK, Request, Idle, Appealing, Call, Return
<1> QED BY <1>1, <1>2, <1>3, <1>4

\* SubmitComment preserves it: only a comment without a review gets one.
LEMMA SubmitOnce ==
  ASSUME CommentInv, NEW c \in Clients, SubmitComment(c)
  PROVE  CommentInv'
<1> USE DEF CommentInv
<1> DEFINE m == req[c].comment
<1>0. m \in Comments /\ req[c].step = "submit" /\ status[m] # "absent"
  BY DEF TypeOK, SubmitComment, RequestsAgree
<1>1. CountIsExact'
  BY SameCounts DEF SubmitComment
<1>2. RecordsAgree'
  BY <1>0 DEF SubmitComment, RecordsAgree, TypeOK, ReviewStatus, AppealStatus, CommentStatus
<1>3. TypeOK'
  BY <1>0 DEF SubmitComment, TypeOK, Request, Idle, Return, ReviewStatus
<1>4. RequestsAgree'
  BY <1>0 DEF SubmitComment, RequestsAgree, TypeOK, Request, Idle, Appealing, Return
<1> QED BY <1>1, <1>2, <1>3, <1>4

\* WriteAppeal preserves it: the unique key makes up for the unlocked check.
LEMMA Write ==
  ASSUME CommentInv, NEW c \in Clients, WriteAppeal(c)
  PROVE  CommentInv'
<1> USE DEF CommentInv
<1> DEFINE m == req[c].comment
<1>0. m \in Comments /\ req[c].step = "appeal_write"
  BY DEF TypeOK, WriteAppeal
<1>1. CountIsExact'
  <2>1. Normal' = Normal
    BY <1>0 DEF WriteAppeal, Normal, TypeOK
  <2> QED BY <2>1 DEF WriteAppeal, CountIsExact
<1>2. RecordsAgree'
  BY <1>0 DEF WriteAppeal, RecordsAgree, RequestsAgree, Appealing, TypeOK, ReviewStatus,
     AppealStatus, CommentStatus
<1>3. TypeOK'
  BY <1>0 DEF WriteAppeal, TypeOK, Request, Idle, Return, AppealStatus, CommentStatus
<1>4. RequestsAgree'
  BY <1>0 DEF WriteAppeal, RequestsAgree, TypeOK, Request, Idle, Appealing, Return
<1> QED BY <1>1, <1>2, <1>3, <1>4

\* Every verdict preserves it: machine, moderator and appeal.
LEMMA Verdicts ==
  ASSUME CommentInv, NEW m \in Comments, Judge(m) \/ DecideReview(m) \/ DecideAppeal(m)
  PROVE  CommentInv'
<1> USE DEF CommentInv
<1>0. UNCHANGED <<open, active, req>>
  BY DEF Judge, DecideReview, DecideAppeal
<1>1. CASE PublishTarget(m) /\ Close(m, "published")
           /\ \/ review[m] \in {"pending", "human_review"} /\ UNCHANGED appeal
              \/ appeal[m] = "pending" /\ appeal' = [appeal EXCEPT ![m] = "approved"]
  <2>1. CountIsExact' /\ count' \in Nat /\ status' = [status EXCEPT ![m] = "normal"]
    BY <1>1, PublishCounts
  <2>2. RecordsAgree'
    BY <1>0, <1>1, <2>1 DEF Close, RecordsAgree, TypeOK, ReviewStatus, AppealStatus, CommentStatus
  <2>3. TypeOK'
    BY <1>0, <1>1, <2>1 DEF Close, TypeOK, ReviewStatus, AppealStatus, CommentStatus
  <2>4. RequestsAgree'
    BY <1>0, <1>1, <2>1 DEF Close, RequestsAgree, RecordsAgree, TypeOK, Appealing,
       ReviewStatus, AppealStatus
  <2> QED BY <2>1, <2>2, <2>3, <2>4
<1>2. CASE RejectTarget(m) /\ Close(m, "rejected")
           /\ \/ review[m] \in {"pending", "human_review"} /\ UNCHANGED appeal
              \/ appeal[m] = "pending" /\ appeal' = [appeal EXCEPT ![m] = "rejected"]
  <2>1. status[m] # "normal"
    BY <1>2 DEF RecordsAgree
  <2>2. CountIsExact'
    BY <1>2, <2>1, RejectCounts
  <2>3. status' = [status EXCEPT ![m] = "rejected"] /\ UNCHANGED count
    BY <1>2 DEF RejectTarget
  <2>4. RecordsAgree'
    BY <1>0, <1>2, <2>3 DEF Close, RecordsAgree, TypeOK, ReviewStatus, AppealStatus, CommentStatus
  <2>5. TypeOK'
    BY <1>0, <1>2, <2>3 DEF Close, TypeOK, ReviewStatus, AppealStatus, CommentStatus
  <2>6. RequestsAgree'
    BY <1>0, <1>2, <2>3 DEF Close, RequestsAgree, RecordsAgree, TypeOK, Appealing,
       ReviewStatus, AppealStatus
  <2> QED BY <2>2, <2>4, <2>5, <2>6
<1>3. CASE /\ review[m] = "pending" /\ UNCHANGED <<status, count, appeal>>
           /\ \/ status[m] = "deleted" /\ Close(m, "canceled")
              \/ Close(m, "human_review")
  <2>1. CountIsExact'
    BY <1>3, SameCounts
  <2>2. RecordsAgree'
    BY <1>0, <1>3 DEF Close, RecordsAgree, TypeOK, ReviewStatus, AppealStatus, CommentStatus
  <2>3. TypeOK'
    BY <1>0, <1>3 DEF Close, TypeOK, ReviewStatus
  <2>4. RequestsAgree'
    BY <1>0, <1>3 DEF Close, RequestsAgree, TypeOK, Appealing, ReviewStatus
  <2> QED BY <2>1, <2>2, <2>3, <2>4
<1>4. CASE Judge(m)
  BY <1>1, <1>2, <1>3, <1>4 DEF Judge
<1>5. CASE DecideReview(m)
  BY <1>1, <1>2, <1>5 DEF DecideReview
<1>6. CASE DecideAppeal(m)
  BY <1>1, <1>2, <1>6 DEF DecideAppeal
<1> QED BY <1>4, <1>5, <1>6

\* Deletions and the administrators preserve it.
LEMMA Takedowns ==
  ASSUME CommentInv, NEW m \in Comments,
         DeleteComment(m) \/ TakeOffline(m) \/ Restore(m)
  PROVE  CommentInv'
<1> USE DEF CommentInv
<1>0. UNCHANGED <<open, review, appeal, active, req>>
  BY DEF DeleteComment, TakeOffline, Restore
<1>1. /\ CountIsExact' /\ count' \in Nat
      /\ \/ status' = [status EXCEPT ![m] = "deleted"] /\ status[m] # "absent"
         \/ status[m] = "normal" /\ status' = [status EXCEPT ![m] = "offline"]
         \/ status[m] = "offline" /\ status' = [status EXCEPT ![m] = "normal"]
  <2>1. CASE DeleteComment(m)
    BY <2>1, LeaveCounts DEF DeleteComment, CommentStatus
  <2>2. CASE TakeOffline(m)
    BY <2>2, LeaveCounts DEF TakeOffline, CommentStatus
  <2>3. CASE Restore(m)
    BY <2>3, PublishCounts DEF Restore
  <2> QED BY <2>1, <2>2, <2>3
<1>2. RecordsAgree'
  BY <1>0, <1>1 DEF RecordsAgree, TypeOK, ReviewStatus, AppealStatus, CommentStatus
<1>3. TypeOK'
  BY <1>0, <1>1 DEF TypeOK, CommentStatus
<1>4. RequestsAgree'
  BY <1>0, <1>1 DEF RequestsAgree, TypeOK
<1> QED BY <1>1, <1>2, <1>3, <1>4

\* Bans preserve it: what goes offline had been let through.
LEMMA Bans ==
  ASSUME CommentInv, NEW u \in Users, Ban(u)
  PROVE  CommentInv'
<1> USE DEF CommentInv
<1>1. CountIsExact' /\ count' \in Nat
  BY BanCounts
<1>2. RecordsAgree'
  BY DEF Ban, Normal, RecordsAgree, TypeOK, ReviewStatus, AppealStatus, CommentStatus
<1>3. TypeOK'
  BY <1>1 DEF Ban, Normal, TypeOK, CommentStatus
<1>4. RequestsAgree'
  BY DEF Ban, Normal, RequestsAgree, TypeOK
<1> QED BY <1>1, <1>2, <1>3, <1>4

\* So does what changes neither a row nor a request.
LEMMA Others ==
  ASSUME CommentInv, (\E u \in Users : Unban(u)) \/ SetVideo \/ UNCHANGED vars
  PROVE  CommentInv'
<1> USE DEF CommentInv
<1>0. /\ UNCHANGED target /\ UNCHANGED <<req>>
      /\ open' \in BOOLEAN /\ active' \in [Users -> BOOLEAN]
  BY DEF Unban, SetVideo, vars, target, TypeOK
<1>1. CountIsExact'
  BY <1>0, SameCounts DEF target
<1>2. RecordsAgree' /\ RequestsAgree' /\ TypeOK'
  BY <1>0 DEF RecordsAgree, RequestsAgree, TypeOK, target
<1> QED BY <1>1, <1>2

\* CommentInv is inductive.
LEMMA StepInv == CommentInv /\ [Next]_vars => CommentInv'
<1> SUFFICES ASSUME CommentInv, [Next]_vars PROVE CommentInv'
  OBVIOUS
<1>1. ASSUME NEW c \in Clients, RequestStep(c) PROVE CommentInv'
  <2>1. ASSUME NEW m \in Comments,
               CreateComment(c, m) \/ RetryComment(c, m) \/ CreateAppeal(c, m)
        PROVE  CommentInv'
    BY <2>1, RequestCalls
  <2>2. CASE CheckAppealTarget(c) \/ Abort(c)
    <3>1. req[c].comment \in Comments
      BY <2>2 DEF CommentInv, TypeOK, CheckAppealTarget, Abort
    <3> QED BY <2>2, <3>1, RequestCalls
  <2> QED BY <1>1, <2>1, <2>2, Insert, SubmitOnce, Write DEF RequestStep
<1>2. ASSUME NEW m \in Comments, ModeratorStep(m) PROVE CommentInv'
  BY <1>2, Verdicts, Takedowns DEF ModeratorStep
<1> QED BY <1>1, <1>2, Bans, Others DEF Next

\* The records of a comment, the requests about it and the count never
\* contradict each other, for any number of comments, users and requests.
THEOREM CommentHolds == Spec => []CommentInv
BY InitInv, StepInv, PTL DEF Spec

\* comment_count is the number of comments on show in every reachable state.
THEOREM CountHolds == Spec => []CountIsExact
<1>1. CommentInv => CountIsExact
  BY DEF CommentInv
<1> QED BY <1>1, CommentHolds, PTL

\* Comment, review and appeal rows agree in every reachable state.
THEOREM RecordsHold == Spec => []RecordsAgree
<1>1. CommentInv => RecordsAgree
  BY DEF CommentInv
<1> QED BY <1>1, CommentHolds, PTL

----------------------------------------------------------------------------
(* The comments implement the board.                                       *)

Cleared == {m \in Comments : review[m] = "published"}
Removed == {m \in Comments : status[m] = "deleted"}

\* The board counts like the specification.
LEMMA SameCardinality == \A S : Board!Cardinality(S) = Cardinality(S)
BY DEF Board!Cardinality, Cardinality

\* The initial comments are an empty board.
LEMMA BoardStarts == Init => Board!BoardInit
<1> SUFFICES ASSUME Init PROVE Board!BoardInit
  OBVIOUS
<1>1. Normal = {} /\ Cleared = {} /\ Removed = {}
  BY DEF Init, Normal, Cleared, Removed
<1> QED BY <1>1 DEF Init, Board!BoardInit, Cleared, Removed

\* A step that moves no comment on or off show, clears or deletes one.
LEMMA BoardStutters ==
  ASSUME UNCHANGED count, Normal' = Normal, Cleared' = Cleared, Removed' = Removed
  PROVE  UNCHANGED Board!board
BY DEF Board!board, Cleared, Removed

\* Letting a comment through shows it.
LEMMA BoardShows ==
  ASSUME CommentInv, NEW m \in Comments, status[m] \in Publishable,
         status' = [status EXCEPT ![m] = "normal"], count' = count + 1,
         \/ Close(m, "published")
         \/ UNCHANGED review /\ review[m] = "published"
  PROVE  Board!Show(m)
<1>1. TypeOK /\ CountIsExact /\ status[m] # "normal" /\ status[m] # "deleted"
  BY DEF CommentInv, Publishable
<1>2. Normal' = Normal \cup {m} /\ m \notin Normal
  BY <1>1, ShowCounts
<1>3. Removed' = Removed /\ m \notin Removed
  BY <1>1 DEF Removed, TypeOK
<1>4. Cleared' = Cleared \cup {m}
  BY <1>1 DEF Cleared, Close, TypeOK
<1> QED BY <1>2, <1>3, <1>4 DEF Board!Show, Cleared, Removed

\* A verdict against a comment, or a review handed to a human, shows nothing.
LEMMA BoardIgnores ==
  ASSUME CommentInv, NEW m \in Comments, NEW s \in ReviewStatus \ {"published"},
         review[m] # "published", Close(m, s),
         \/ RejectTarget(m)
         \/ UNCHANGED <<status, count>>
  PROVE  UNCHANGED Board!board
<1>1. status \in [Comments -> CommentStatus] /\ review \in [Comments -> ReviewStatus]
      /\ status[m] # "normal"
  BY DEF CommentInv, TypeOK, RecordsAgree
<1>2. Cleared' = Cleared
  BY <1>1 DEF Cleared, Close
<1>3. Normal' = Normal /\ Removed' = Removed /\ count' = count
  BY <1>1 DEF Normal, Removed, RejectTarget
<1> QED BY <1>2, <1>3, BoardStutters

\* The steps of a request are hidden from the audience.
LEMMA BoardRequest ==
  ASSUME CommentInv, NEW c \in Clients, RequestStep(c)
  PROVE  UNCHANGED Board!board
<1>0. TypeOK /\ RecordsAgree /\ RequestsAgree
  BY DEF CommentInv
<1>1. CASE InsertComment(c)
  <2>1. req[c].comment \in Comments
    BY <1>0, <1>1 DEF TypeOK, InsertComment
  <2>2. Normal' = Normal /\ Removed' = Removed /\ Cleared' = Cleared
    BY <1>0, <1>1, <2>1 DEF InsertComment, TypeOK, Normal, Removed, Cleared
  <2> QED BY <1>1, <2>2, BoardStutters DEF InsertComment
<1>2. CASE SubmitComment(c)
  <2>1. Normal' = Normal /\ Removed' = Removed /\ Cleared' = Cleared
    BY <1>0, <1>2 DEF SubmitComment, TypeOK, Normal, Removed, Cleared
  <2> QED BY <1>2, <2>1, BoardStutters DEF SubmitComment
<1>3. CASE WriteAppeal(c)
  <2>1. req[c].comment \in Comments
    BY <1>0, <1>3 DEF TypeOK, WriteAppeal
  <2>2. Normal' = Normal /\ Removed' = Removed /\ Cleared' = Cleared
    BY <1>0, <1>3, <2>1 DEF WriteAppeal, TypeOK, Normal, Removed, Cleared
  <2> QED BY <1>3, <2>2, BoardStutters DEF WriteAppeal
<1>4. CASE UNCHANGED target
  BY <1>4, BoardStutters DEF target, Normal, Cleared, Removed
<1>5. \/ InsertComment(c) \/ SubmitComment(c) \/ WriteAppeal(c)
      \/ UNCHANGED target
  BY DEF RequestStep, CreateComment, RetryComment, CreateAppeal, CheckAppealTarget, Abort
<1> QED BY <1>1, <1>2, <1>3, <1>4, <1>5

\* A verdict shows the comment or changes nothing on the board.
LEMMA BoardVerdict ==
  ASSUME CommentInv, NEW m \in Comments, Judge(m) \/ DecideReview(m) \/ DecideAppeal(m)
  PROVE  Board!Show(m) \/ UNCHANGED Board!board
<1>1. review[m] # "published" /\ status[m] # "normal"
  BY DEF CommentInv, RecordsAgree, Judge, DecideReview, DecideAppeal
<1>2. CASE PublishTarget(m) /\ Close(m, "published")
  <2>1. /\ status[m] \in Publishable
        /\ status' = [status EXCEPT ![m] = "normal"]
        /\ count' = count + 1
    BY <1>1, <1>2 DEF PublishTarget
  <2> QED BY <1>2, <2>1, BoardShows
<1>3. CASE RejectTarget(m) /\ Close(m, "rejected")
  BY <1>1, <1>3, BoardIgnores DEF ReviewStatus
<1>4. CASE (Close(m, "canceled") \/ Close(m, "human_review")) /\ UNCHANGED <<status, count>>
  BY <1>1, <1>4, BoardIgnores DEF ReviewStatus
<1> QED BY <1>2, <1>3, <1>4 DEF Judge, DecideReview, DecideAppeal

\* Deletions remove, administrators hide and show again.
LEMMA BoardTakedown ==
  ASSUME CommentInv, NEW m \in Comments,
         DeleteComment(m) \/ TakeOffline(m) \/ Restore(m)
  PROVE  Board!BoardNext
<1>0. TypeOK /\ CountIsExact /\ RecordsAgree
  BY DEF CommentInv
<1>1. UNCHANGED review /\ Cleared' = Cleared
  BY DEF DeleteComment, TakeOffline, Restore, Cleared
<1>2. CASE DeleteComment(m)
  <2>1. Normal' = Normal \ {m} /\ CountIsExact'
    BY <1>0, <1>2, LeaveCounts DEF DeleteComment, CommentStatus
  <2>2. Removed' = Removed \cup {m}
    BY <1>0, <1>2 DEF DeleteComment, Removed, TypeOK
  <2>3. count' = Cardinality(Normal \ {m})
    BY <2>1 DEF CountIsExact
  <2>4. Board!Remove(m)
    BY <1>1, <2>1, <2>2, <2>3, SameCardinality DEF Board!Remove, Cleared, Removed
  <2> QED BY <2>4 DEF Board!BoardNext
<1>3. CASE TakeOffline(m)
  <2>1. Normal' = Normal \ {m} /\ CountIsExact'
    BY <1>0, <1>3, LeaveCounts DEF TakeOffline, CommentStatus
  <2>2. Removed' = Removed
    BY <1>0, <1>3 DEF TakeOffline, Removed, TypeOK
  <2>3. {m} \subseteq Normal
    BY <1>3 DEF TakeOffline, Normal
  <2>4. count' = Cardinality(Normal \ {m})
    BY <2>1 DEF CountIsExact
  <2>5. Board!Hide({m})
    BY <1>1, <2>1, <2>2, <2>3, <2>4, SameCardinality DEF Board!Hide, Cleared, Removed
  <2>6. {m} \in SUBSET Comments
    OBVIOUS
  <2> QED BY <2>5, <2>6 DEF Board!BoardNext
<1>4. CASE Restore(m)
  <2>1. /\ status[m] \in Publishable /\ review[m] = "published"
        /\ status' = [status EXCEPT ![m] = "normal"]
        /\ count' = count + 1
    BY <1>0, <1>4 DEF Restore, PublishTarget, RecordsAgree, Publishable
  <2>2. Board!Show(m)
    BY <1>1, <2>1, BoardShows
  <2> QED BY <2>2 DEF Board!BoardNext
<1> QED BY <1>2, <1>3, <1>4

\* A ban hides the comments of its user.
LEMMA BoardBan ==
  ASSUME CommentInv, NEW u \in Users, Ban(u)
  PROVE  Board!BoardNext
<1> DEFINE gone == {m \in Normal : Author[m] = u}
<1>0. TypeOK /\ CountIsExact
  BY DEF CommentInv
<1>1. Normal' = Normal \ gone /\ CountIsExact'
  BY <1>0, BanCounts
<1>2. Cleared' = Cleared /\ Removed' = Removed
  BY <1>0 DEF Ban, Normal, Cleared, Removed, TypeOK
<1>3. gone \subseteq Normal /\ gone \in SUBSET Comments
  BY DEF Normal
<1>4. count' = Cardinality(Normal \ gone)
  BY <1>1 DEF CountIsExact
<1>5. Board!Hide(gone)
  BY <1>1, <1>2, <1>3, <1>4, SameCardinality DEF Board!Hide, Cleared, Removed
<1> QED BY <1>3, <1>5 DEF Board!BoardNext

\* Every step is a step of the board or leaves it alone.
LEMMA BoardStep == CommentInv /\ [Next]_vars => [Board!BoardNext]_(Board!board)
<1> SUFFICES ASSUME CommentInv, [Next]_vars
             PROVE  Board!BoardNext \/ UNCHANGED Board!board
  OBVIOUS
<1>1. ASSUME NEW c \in Clients, RequestStep(c) PROVE UNCHANGED Board!board
  BY <1>1, BoardRequest
<1>2. ASSUME NEW m \in Comments, ModeratorStep(m)
      PROVE  Board!BoardNext \/ UNCHANGED Board!board
  <2>1. CASE Judge(m) \/ DecideReview(m) \/ DecideAppeal(m)
    BY <2>1, BoardVerdict DEF Board!BoardNext
  <2>2. CASE DeleteComment(m) \/ TakeOffline(m) \/ Restore(m)
    BY <2>2, BoardTakedown
  <2> QED BY <1>2, <2>1, <2>2 DEF ModeratorStep
<1>3. CASE (\E u \in Users : Unban(u)) \/ SetVideo \/ UNCHANGED vars
  <2>1. UNCHANGED target
    BY <1>3 DEF Unban, SetVideo, vars, target
  <2> QED BY <2>1, BoardStutters DEF target, Normal, Cleared, Removed
<1> QED BY <1>1, <1>2, <1>3, BoardBan DEF Next

\* What the audience sees of the comments implements the comment board.
THEOREM ImplementsBoard == Spec => BoardSpec
BY BoardStarts, BoardStep, CommentHolds, PTL DEF Spec, BoardSpec, Board!BoardSpec
============================================================================
