---------------------- MODULE VideoModerationProofs ----------------------
(* Theorems about VideoModeration, for every value of its constants.       *)
EXTENDS VideoModeration, TLAPS

----------------------------------------------------------------------------
(* Types.                                                                  *)

\* No video, review or request exists at first.
LEMMA InitTypeOK == Init => TypeOK
  BY ConstantsAssumption
  DEF Init, TypeOK, RowStatus, VideoStatus, Versions, Review, NoReview,
      ReviewStatus, Components, Verdicts, AppealStatus, Asset, AssetStatus,
      NoBan, Idle, Request, Submitting, Appealing

\* What a decision does to the video, its assets and its outbox events.
LEMMA PublishTargetType ==
  ASSUME TypeOK, NEW v \in Videos, PublishTarget(v)
  PROVE  /\ status' \in [Videos -> RowStatus]
         /\ \A w \in Videos : status'[w] = "absent" <=> status[w] = "absent"
         /\ asset' \in [Contents -> Asset]
         /\ notice' \in [Videos -> {"none", "published", "offline"}]
<1>0. /\ status \in [Videos -> RowStatus]
      /\ asset \in [Contents -> Asset]
      /\ notice \in [Videos -> {"none", "published", "offline"}]
  BY DEF TypeOK
<1>1. status' \in [Videos -> RowStatus]
  BY <1>0 DEF PublishTarget, RowStatus, VideoStatus
<1>2. \A w \in Videos : status'[w] = "absent" <=> status[w] = "absent"
  BY <1>0 DEF PublishTarget, Publishable
<1>3. asset' \in [Contents -> Asset]
  BY <1>0 DEF PublishTarget, Asset, AssetStatus
<1>4. notice' \in [Videos -> {"none", "published", "offline"}]
  BY <1>0 DEF PublishTarget
<1> QED
  BY <1>1, <1>2, <1>3, <1>4

\* Rejecting a video keeps the types, like publishing it.
LEMMA RejectTargetType ==
  ASSUME TypeOK, NEW v \in Videos, RejectTarget(v)
  PROVE  /\ status' \in [Videos -> RowStatus]
         /\ \A w \in Videos : status'[w] = "absent" <=> status[w] = "absent"
         /\ asset' \in [Contents -> Asset]
<1>0. /\ status \in [Videos -> RowStatus]
      /\ asset \in [Contents -> Asset]
  BY DEF TypeOK
<1>1. status' \in [Videos -> RowStatus]
  BY <1>0 DEF RejectTarget, RowStatus, VideoStatus
<1>2. \A w \in Videos : status'[w] = "absent" <=> status[w] = "absent"
  BY <1>0 DEF RejectTarget
<1>3. asset' \in [Contents -> Asset]
  BY <1>0 DEF RejectTarget, MarkAsset, Asset, AssetStatus
<1> QED
  BY <1>1, <1>2, <1>3

\* A decided review is a review.
LEMMA CloseType ==
  ASSUME TypeOK, NEW v \in Videos, NEW k \in Versions, NEW s \in ReviewStatus, Close(v, k, s)
  PROVE  review' \in [Videos -> [Versions -> Review]]
  BY DEF TypeOK, Close, Review

\* What each call of a request holds.
LEMMA RequestType ==
  ASSUME TypeOK, NEW c \in Clients
  PROVE  /\ \A step \in Submitting, v \in Videos, x \in Contents :
              Submit(c, step, v, x) => req' \in [Clients -> Request]
         /\ \A step \in Appealing, v \in Videos, k \in Versions :
              Appeal(c, step, v, k) => req' \in [Clients -> Request]
         /\ Return(c) => req' \in [Clients -> Request]
<1>0. req \in [Clients -> Request]
  BY DEF TypeOK
<1>1. ASSUME NEW step \in Submitting, NEW v \in Videos, NEW x \in Contents,
             Submit(c, step, v, x)
      PROVE  req' \in [Clients -> Request]
  <2>1. [step |-> step, video |-> v, content |-> x, version |-> 0] \in Request
    BY ConstantsAssumption DEF Request
  <2> QED
    BY <1>0, <1>1, <2>1 DEF Submit
<1>2. ASSUME NEW step \in Appealing, NEW v \in Videos, NEW k \in Versions,
             Appeal(c, step, v, k)
      PROVE  req' \in [Clients -> Request]
  <2>1. [step |-> step, video |-> v, content |-> NoContent, version |-> k] \in Request
    BY ConstantsAssumption DEF Request, Versions
  <2> QED
    BY <1>0, <1>2, <2>1 DEF Appeal
<1>3. Return(c) => req' \in [Clients -> Request]
  <2>1. Idle \in Request
    BY ConstantsAssumption DEF Request, Idle
  <2> QED
    BY <1>0, <2>1 DEF Return
<1> QED
  BY <1>1, <1>2, <1>3

\* No step of any actor breaks the types.
LEMMA NextTypeOK == TypeOK /\ [Next]_vars => TypeOK'
<1> SUFFICES ASSUME TypeOK, [Next]_vars PROVE TypeOK'
  OBVIOUS
<1> USE ConstantsAssumption
        DEF TypeOK, RowStatus, VideoStatus, Submitting, Appealing
<1>1. ASSUME NEW c \in Clients, NEW v \in Videos, NEW x \in Contents,
             CreateDraft(c, v, x)
      PROVE  TypeOK'
  BY <1>1 DEF CreateDraft
<1>2. ASSUME NEW c \in Clients, NEW v \in Videos, NEW x \in Contents,
             UpdateDraft(c, v, x)
      PROVE  TypeOK'
  BY <1>2 DEF UpdateDraft
<1>3. ASSUME NEW c \in Clients, NEW v \in Videos, NEW x \in Contents,
             CreatePublished(c, v, x)
      PROVE  TypeOK'
  BY <1>3, RequestType DEF CreatePublished, Submit
<1>4. ASSUME NEW c \in Clients, NEW v \in Videos, RetryCreate(c, v)
      PROVE  TypeOK'
  BY <1>4, RequestType DEF RetryCreate, Submit
<1>5. ASSUME NEW c \in Clients, NEW v \in Videos, SubmitDraft(c, v)
      PROVE  TypeOK'
  BY <1>5, RequestType DEF SubmitDraft, Submit
<1>6. ASSUME NEW c \in Clients, UpdateStatus(c)
      PROVE  TypeOK'
  <2>1. /\ req[c].video \in Videos
        /\ req[c].content \in Contents
    BY <1>6 DEF UpdateStatus
  <2> QED
    BY <1>6, <2>1, RequestType DEF UpdateStatus, Submit
<1>7. ASSUME NEW c \in Clients, NEW v \in Videos, NEW x \in Contents,
             UpdateForReview(c, v, x)
      PROVE  TypeOK'
  BY <1>7, RequestType DEF UpdateForReview, Resubmittable, Submit
<1>8. ASSUME NEW c \in Clients, NEW v \in Videos, Delete(c, v)
      PROVE  TypeOK'
  BY <1>8 DEF Delete
<1>9. ASSUME NEW c \in Clients, Abort(c) \/ SubmitForbidden(c)
      PROVE  TypeOK'
  <2>1. /\ Return(c)
        /\ UNCHANGED <<status, content, latest, review, appeal, asset,
                       notice, active, ban>>
    BY <1>9 DEF Abort, SubmitForbidden
  <2> QED
    BY <2>1, RequestType DEF Return, Idle
<1>10. ASSUME NEW c \in Clients, SubmitJoinsOpenReview(c)
       PROVE  TypeOK'
  <2>1. asset' \in [Contents -> Asset]
    BY <1>10 DEF SubmitJoinsOpenReview, BindAsset, Asset
  <2> QED
    BY <1>10, <2>1, RequestType DEF SubmitJoinsOpenReview, Return, Idle
<1>11. ASSUME NEW c \in Clients, SubmitOpensReview(c)
       PROVE  TypeOK'
  <2>0. req[c].video \in Videos /\ req[c].content \in Contents
    BY <1>11 DEF SubmitOpensReview
  <2>1. asset' \in [Contents -> Asset]
    BY <1>11, <2>0 DEF SubmitOpensReview, BindAsset, Asset
  <2>2. NewReview(req[c].content) \in Review
    BY <2>0 DEF NewReview, Review, ReviewStatus, Components, Verdicts
  <2>3. review' \in [Videos -> [Versions -> Review]]
    BY <1>11, <2>2 DEF SubmitOpensReview
  <2>4. latest' \in [Videos -> 0..MaxVersion]
    BY <1>11, <2>0 DEF SubmitOpensReview
  <2> QED
    BY <1>11, <2>1, <2>3, <2>4, RequestType
    DEF SubmitOpensReview, Return, Idle
<1>12. ASSUME NEW v \in Videos, NEW k \in Versions, NEW d \in Verdicts,
              Process(v, k, d)
       PROVE  TypeOK'
  <2>1. Judged(review[v][k], {}, Worse(review[v][k].worst, d)) \in Review
    BY DEF Judged, Worse, HumanGate, Review, ReviewStatus, Verdicts
  <2> QED
    BY <1>12, <2>1 DEF Process
<1>13. ASSUME NEW v \in Videos, NEW k \in Versions, NEW m \in Components,
              NEW d \in Verdicts, ApplyMachineResult(v, k, m, d)
       PROVE  TypeOK'
  <2>1. Judged(review[v][k], review[v][k].waiting \ {m},
               Worse(review[v][k].worst, d)) \in Review
    BY DEF Judged, Worse, HumanGate, Review, ReviewStatus, Verdicts
  <2> QED
    BY <1>13, <2>1 DEF ApplyMachineResult
<1>14. ASSUME NEW v \in Videos, NEW k \in Versions, ApproveReview(v, k)
       PROVE  TypeOK'
  <2>1. review' \in [Videos -> [Versions -> Review]]
    BY <1>14, CloseType DEF ApproveReview, ReviewStatus
  <2> QED
    BY <1>14, <2>1, PublishTargetType DEF ApproveReview
<1>15. ASSUME NEW v \in Videos, NEW k \in Versions, RejectReview(v, k)
       PROVE  TypeOK'
  <2>1. review' \in [Videos -> [Versions -> Review]]
    BY <1>15, CloseType DEF RejectReview, ReviewStatus
  <2> QED
    BY <1>15, <2>1, RejectTargetType DEF RejectReview
<1>16. ASSUME NEW c \in Clients, NEW v \in Videos, NEW k \in Versions,
              CreateAppeal(c, v, k)
       PROVE  TypeOK'
  BY <1>16, RequestType DEF CreateAppeal, Appeal
<1>17. ASSUME NEW c \in Clients, CheckAppealTarget(c)
       PROVE  TypeOK'
  <2>0. req[c].video \in Videos /\ req[c].version \in Versions
    BY <1>17 DEF CheckAppealTarget
  <2>1. CASE status[req[c].video] = "rejected"
    <3>1. Appeal(c, "appeal_write", req[c].video, req[c].version)
      BY <1>17, <2>1 DEF CheckAppealTarget
    <3> QED
      BY <1>17, <2>0, <2>1, <3>1, RequestType DEF CheckAppealTarget, Appeal
  <2>2. CASE status[req[c].video] # "rejected"
    <3>1. Return(c)
      BY <1>17, <2>2 DEF CheckAppealTarget
    <3> QED
      BY <1>17, <3>1, RequestType DEF CheckAppealTarget, Return, Idle
  <2> QED
    BY <2>1, <2>2
<1>18. ASSUME NEW c \in Clients, WriteAppeal(c)
       PROVE  TypeOK'
  <2>0. req[c].video \in Videos /\ req[c].version \in Versions
    BY <1>18 DEF WriteAppeal
  <2>1. status' \in [Videos -> RowStatus]
    <3>1. \/ status' = status
          \/ \E v \in Videos : status' = [status EXCEPT ![v] =
                                IF @ = "rejected" THEN "appeal_pending" ELSE @]
      BY <1>18, <2>0 DEF WriteAppeal
    <3>2. status \in [Videos -> RowStatus]
      BY DEF TypeOK
    <3> QED
      BY <3>1, <3>2 DEF RowStatus, VideoStatus
  <2>2. \A v \in Videos : status'[v] = "absent" <=> status[v] = "absent"
    BY <1>18, <2>0 DEF WriteAppeal
  <2>3. appeal' \in [Videos -> [Versions -> AppealStatus]]
    <3> DEFINE v == req[c].video
               k == req[c].version
    <3>1. \/ appeal' = [appeal EXCEPT ![v][k] = "pending"]
          \/ appeal' = appeal
      BY <1>18 DEF WriteAppeal
    <3>2. v \in Videos /\ k \in Versions
      BY <2>0
    <3> HIDE DEF v, k
    <3>3. [appeal EXCEPT ![v][k] = "pending"] \in [Videos -> [Versions -> AppealStatus]]
      BY <3>2 DEF AppealStatus
    <3> QED
      BY <3>1, <3>3
  <2>4. /\ Return(c)
        /\ UNCHANGED <<content, latest, review, asset, notice, active, ban>>
    BY <1>18 DEF WriteAppeal
  <2> QED
    BY <2>1, <2>2, <2>3, <2>4, RequestType DEF Return, Idle
<1>19. ASSUME NEW v \in Videos, NEW k \in Versions, ApproveAppeal(v, k)
       PROVE  TypeOK'
  <2>1. review' \in [Videos -> [Versions -> Review]]
    BY <1>19, CloseType DEF ApproveAppeal, ReviewStatus
  <2>2. appeal' \in [Videos -> [Versions -> AppealStatus]]
    BY <1>19 DEF ApproveAppeal, AppealStatus
  <2> QED
    BY <1>19, <2>1, <2>2, PublishTargetType DEF ApproveAppeal
<1>20. ASSUME NEW v \in Videos, NEW k \in Versions, RejectAppeal(v, k)
       PROVE  TypeOK'
  <2>1. review' \in [Videos -> [Versions -> Review]]
    BY <1>20, CloseType DEF RejectAppeal, ReviewStatus
  <2>2. appeal' \in [Videos -> [Versions -> AppealStatus]]
    BY <1>20 DEF RejectAppeal, AppealStatus
  <2> QED
    BY <1>20, <2>1, <2>2, RejectTargetType DEF RejectAppeal
<1>21. ASSUME NEW v \in Videos, TakeOffline(v)
       PROVE  TypeOK'
  <2>1. asset' \in [Contents -> Asset]
    BY <1>21 DEF TakeOffline, MarkAsset, Asset, AssetStatus
  <2> QED
    BY <1>21, <2>1 DEF TakeOffline
<1>22. ASSUME NEW v \in Videos, Restore(v)
       PROVE  TypeOK'
  BY <1>22, PublishTargetType DEF Restore
<1>23. CASE BeginBan \/ Unban
  <2>1. ban' \in [running : BOOLEAN, seen : SUBSET Videos]
    <3>1. {v \in Videos : status[v] = "published"} \in SUBSET Videos
      OBVIOUS
    <3>2. CASE BeginBan
      BY <3>1, <3>2 DEF BeginBan
    <3>3. CASE Unban
      BY <3>3 DEF Unban
    <3> QED
      BY <1>23, <3>2, <3>3
  <2> QED
    BY <1>23, <2>1 DEF BeginBan, Unban
<1>24. CASE CommitBan
  BY <1>24 DEF CommitBan, NoBan
<1>25. CASE UNCHANGED vars
  BY <1>25 DEF vars
<1> QED
  BY <1>1, <1>2, <1>3, <1>4, <1>5, <1>6, <1>7, <1>8, <1>9, <1>10, <1>11,
     <1>12, <1>13, <1>14, <1>15, <1>16, <1>17, <1>18, <1>19, <1>20, <1>21,
     <1>22, <1>23, <1>24, <1>25
  DEF Next, AuthorStep, MachineStep, ModeratorStep

\* Every reachable row, review, appeal, asset and request is well formed, for
\* any author with any number of videos and concurrent requests.
THEOREM TypeCorrect == Spec => []TypeOK
  BY InitTypeOK, NextTypeOK, PTL DEF Spec
----------------------------------------------------------------------------
(* Reviews and appeals, under any race of the author's requests.           *)

\* The steps that change reviews.
LEMMA ReviewSteps ==
  ASSUME [Next]_vars
  PROVE  \/ UNCHANGED <<latest, review>>
         \/ \E c \in Clients : SubmitOpensReview(c)
         \/ \E v \in Videos, k \in Versions : MachineStep(v, k)
         \/ \E v \in Videos, k \in Versions :
              \/ ApproveReview(v, k) \/ RejectReview(v, k)
              \/ ApproveAppeal(v, k) \/ RejectAppeal(v, k)
<1>1. ASSUME NEW c \in Clients, AuthorStep(c)
      PROVE  UNCHANGED <<latest, review>> \/ SubmitOpensReview(c)
  BY <1>1 DEF AuthorStep, CreateDraft, UpdateDraft, CreatePublished,
              RetryCreate, SubmitDraft, UpdateStatus, UpdateForReview, Delete,
              Abort, SubmitForbidden, SubmitJoinsOpenReview, CreateAppeal,
              CheckAppealTarget, WriteAppeal
<1>2. ASSUME NEW v \in Videos, ModeratorStep(v)
      PROVE  \/ UNCHANGED <<latest, review>>
             \/ \E k \in Versions :
                  \/ ApproveReview(v, k) \/ RejectReview(v, k)
                  \/ ApproveAppeal(v, k) \/ RejectAppeal(v, k)
  BY <1>2 DEF ModeratorStep, TakeOffline, Restore
<1>3. BeginBan \/ CommitBan \/ Unban \/ UNCHANGED vars => UNCHANGED <<latest, review>>
  BY DEF BeginBan, CommitBan, Unban, vars
<1> QED
  BY <1>1, <1>2, <1>3 DEF Next

\* A review the machine works on is the newest, and it stays open.
LEMMA MachineStepReview ==
  ASSUME TypeOK, VersionsInOrder, VerdictsBeforeDecision,
         NEW v \in Videos, NEW k \in Versions, MachineStep(v, k)
  PROVE  \E r \in Review :
           /\ review' = [review EXCEPT ![v][k] = r]
           /\ review[v][k].status = "pending"
           /\ r.content = review[v][k].content
           /\ \/ r.status = "pending" /\ r.waiting # {}
              \/ r.status = "human_review" /\ r.waiting = {}
<1> USE DEF TypeOK
<1>1. ASSUME NEW d \in Verdicts, Process(v, k, d)
      PROVE  /\ review' = [review EXCEPT ![v][k] =
                              Judged(review[v][k], {}, Worse(review[v][k].worst, d))]
             /\ Judged(review[v][k], {}, Worse(review[v][k].worst, d)) \in Review
             /\ review[v][k].status = "pending"
  BY <1>1 DEF Process, Judged, Worse, HumanGate, Review, ReviewStatus, Verdicts
<1>2. ASSUME NEW d \in Verdicts, NEW m \in Components, ApplyMachineResult(v, k, m, d)
      PROVE  /\ review' = [review EXCEPT ![v][k] =
                              Judged(review[v][k], review[v][k].waiting \ {m},
                                     Worse(review[v][k].worst, d))]
             /\ Judged(review[v][k], review[v][k].waiting \ {m},
                       Worse(review[v][k].worst, d)) \in Review
             /\ review[v][k].status = "pending"
  <2>1. review[v][k].status = "pending"
    BY <1>2 DEF ApplyMachineResult, VerdictsBeforeDecision
  <2>2. Judged(review[v][k], review[v][k].waiting \ {m},
               Worse(review[v][k].worst, d)) \in Review
    BY DEF Judged, Worse, HumanGate, Review, ReviewStatus, Verdicts
  <2> QED
    BY <1>2, <2>1, <2>2 DEF ApplyMachineResult
<1>3. \A w \in SUBSET Components, g \in Verdicts :
        review[v][k].status = "pending" =>
          LET r == Judged(review[v][k], w, g) IN
          /\ r.content = review[v][k].content
          /\ \/ r.status = "pending" /\ r.waiting # {}
             \/ r.status = "human_review" /\ r.waiting = {}
  BY DEF Judged, HumanGate
<1>4. \A a, b \in Verdicts : Worse(a, b) \in Verdicts
  BY DEF Worse, Verdicts
<1>5. review[v][k].worst \in Verdicts /\ review[v][k].waiting \in SUBSET Components
  BY DEF Review
<1>6. ASSUME NEW d \in Verdicts, Process(v, k, d) \/
                                  \E m \in Components : ApplyMachineResult(v, k, m, d)
      PROVE  \E w \in SUBSET Components, g \in Verdicts :
               /\ review' = [review EXCEPT ![v][k] = Judged(review[v][k], w, g)]
               /\ Judged(review[v][k], w, g) \in Review
               /\ review[v][k].status = "pending"
  <2>1. Worse(review[v][k].worst, d) \in Verdicts
    BY <1>4, <1>5
  <2>2. CASE Process(v, k, d)
    BY <1>1, <2>1, <2>2
  <2>3. ASSUME NEW m \in Components, ApplyMachineResult(v, k, m, d)
        PROVE  \E w \in SUBSET Components, g \in Verdicts :
               /\ review' = [review EXCEPT ![v][k] = Judged(review[v][k], w, g)]
               /\ Judged(review[v][k], w, g) \in Review
               /\ review[v][k].status = "pending"
    <3>1. review[v][k].waiting \ {m} \in SUBSET Components
      BY <1>5
    <3> QED
      BY <1>2, <2>1, <2>3, <3>1
  <2> QED
    BY <1>6, <2>2, <2>3
<1>7. PICK w \in SUBSET Components, g \in Verdicts :
        /\ review' = [review EXCEPT ![v][k] = Judged(review[v][k], w, g)]
        /\ Judged(review[v][k], w, g) \in Review
        /\ review[v][k].status = "pending"
  BY <1>6 DEF MachineStep
<1> QED
  BY <1>3, <1>7

\* A decision closes a review that was waiting for a human or stood rejected.
LEMMA DecisionReview ==
  ASSUME TypeOK, AppealsContestRejections,
         NEW v \in Videos, NEW k \in Versions,
         \/ ApproveReview(v, k) \/ RejectReview(v, k)
         \/ ApproveAppeal(v, k) \/ RejectAppeal(v, k)
  PROVE  \E s \in {"published", "rejected"} :
           /\ Close(v, k, s)
           /\ review[v][k].status \in {"human_review", "rejected"}
           /\ UNCHANGED <<latest, req>>
  BY DEF ApproveReview, RejectReview, ApproveAppeal, RejectAppeal,
         AppealsContestRejections, CanDecide

\* Versions stay in order: submissions open the next one, decisions close
\* the newest.
LEMMA NextVersions ==
  ASSUME TypeOK, VersionsInOrder, VerdictsBeforeDecision,
         AppealsContestRejections, [Next]_vars
  PROVE  VersionsInOrder' /\ VerdictsBeforeDecision'
<1> USE DEF VersionsInOrder, VerdictsBeforeDecision
<1>0. /\ latest \in [Videos -> 0..MaxVersion]
      /\ review \in [Videos -> [Versions -> Review]]
  BY DEF TypeOK
<1>1. CASE UNCHANGED <<latest, review>>
  BY <1>1
<1>2. ASSUME NEW c \in Clients, SubmitOpensReview(c)
      PROVE  VersionsInOrder' /\ VerdictsBeforeDecision'
  <2> DEFINE u == req[c].video
             n == latest[u] + 1
  <2>1. /\ u \in Videos
        /\ n \in Versions
        /\ latest' = [latest EXCEPT ![u] = n]
        /\ review' = [review EXCEPT ![u][n] = NewReview(req[c].content)]
        /\ ~HasOpen(u)
    BY <1>2, ConstantsAssumption DEF SubmitOpensReview, TypeOK, Versions
  <2>2. /\ NewReview(req[c].content).status = "pending"
        /\ NewReview(req[c].content).waiting # {}
    BY DEF NewReview, Components
  <2>3. latest[u] > 0 => review[u][latest[u]].status \in {"published", "rejected"}
    <3> SUFFICES ASSUME latest[u] > 0
                 PROVE  review[u][latest[u]].status \in {"published", "rejected"}
      OBVIOUS
    <3>1. latest[u] \in Versions
      BY <1>0, <2>1 DEF Versions
    <3>2. review[u][latest[u]].status \in ReviewStatus \ {"none", "pending", "human_review"}
      BY <1>0, <2>1, <3>1 DEF HasOpen, Open, Review
    <3> QED
      BY <3>2 DEF ReviewStatus
  <2> HIDE DEF u, n
  <2>4. \A v \in Videos, k \in Versions :
          /\ <<v, k>> # <<u, n>> => review'[v][k] = review[v][k]
          /\ v # u => latest'[v] = latest[v]
    BY <1>0, <2>1
  <2>5. /\ review'[u][n] = NewReview(req[c].content)
        /\ latest'[u] = n
    BY <1>0, <2>1
  <2> QED
    BY <1>0, <2>1, <2>2, <2>3, <2>4, <2>5 DEF n, Versions
<1>3. ASSUME NEW v \in Videos, NEW k \in Versions, MachineStep(v, k)
      PROVE  VersionsInOrder' /\ VerdictsBeforeDecision'
  <2>1. PICK r \in Review :
           /\ review' = [review EXCEPT ![v][k] = r]
           /\ review[v][k].status = "pending"
           /\ \/ r.status = "pending" /\ r.waiting # {}
              \/ r.status = "human_review" /\ r.waiting = {}
    BY <1>3, MachineStepReview
  <2>2. latest' = latest
    BY <1>3 DEF MachineStep, Process, ApplyMachineResult
  <2> QED
    BY <1>0, <2>1, <2>2
<1>4. ASSUME NEW v \in Videos, NEW k \in Versions,
             \/ ApproveReview(v, k) \/ RejectReview(v, k)
             \/ ApproveAppeal(v, k) \/ RejectAppeal(v, k)
      PROVE  VersionsInOrder' /\ VerdictsBeforeDecision'
  <2>1. PICK s \in {"published", "rejected"} :
           /\ Close(v, k, s)
           /\ review[v][k].status \in {"human_review", "rejected"}
           /\ UNCHANGED latest
    BY <1>4, DecisionReview
  <2> QED
    BY <1>0, <2>1 DEF Close
<1> QED
  BY <1>1, <1>2, <1>3, <1>4, ReviewSteps

\* Pending appeals keep contesting rejected reviews.
LEMMA NextAppeals ==
  ASSUME TypeOK, VersionsInOrder, VerdictsBeforeDecision,
         AppealsContestRejections, [Next]_vars
  PROVE  AppealsContestRejections'
<1> USE DEF AppealsContestRejections
<1>0. /\ review \in [Videos -> [Versions -> Review]]
      /\ appeal \in [Videos -> [Versions -> AppealStatus]]
      /\ req \in [Clients -> Request]
      /\ \A c \in Clients :
           /\ req[c].step # "idle" => req[c].video \in Videos
           /\ req[c].step \in Appealing => req[c].version \in Versions
  BY DEF TypeOK
\* A step that changes one review, one that does not stand rejected.
<1>1. ASSUME NEW v \in Videos, NEW k \in Versions, NEW r,
             review' = [review EXCEPT ![v][k] = r],
             review[v][k].status # "rejected",
             UNCHANGED appeal,
             \A c \in Clients : req'[c] = req[c] \/ req'[c].step \notin Appealing
      PROVE  AppealsContestRejections'
  <2>1. \A w \in Videos, j \in Versions :
          review[w][j].status = "rejected" => review'[w][j] = review[w][j]
    BY <1>0, <1>1
  <2>2. ASSUME NEW w \in Videos, NEW j \in Versions, appeal'[w][j] = "pending"
        PROVE  review'[w][j].status = "rejected"
    BY <1>1, <2>1, <2>2
  <2>3. ASSUME NEW c \in Clients, req'[c].step \in Appealing
        PROVE  \/ review'[req'[c].video][req'[c].version].status = "rejected"
               \/ appeal'[req'[c].video][req'[c].version] # "none"
    <3>1. req'[c] = req[c] /\ req[c].step # "idle"
      BY <1>1, <2>3 DEF Appealing
    <3> QED
      BY <1>0, <1>1, <2>1, <2>3, <3>1
  <2> QED
    BY <2>2, <2>3
\* A step that touches no review and takes up no appeal.
<1>2. ASSUME UNCHANGED <<review, appeal>>,
             \A c \in Clients : req'[c] = req[c] \/ req'[c].step \notin Appealing
      PROVE  AppealsContestRejections'
  BY <1>2
<1>3. \A c, d \in Clients, step \in Submitting, v \in Videos, x \in Contents :
        Submit(c, step, v, x) => req'[d] = req[d] \/ req'[d].step \notin Appealing
  BY <1>0 DEF Submit, Submitting, Appealing
<1>4. \A c, d \in Clients :
        Return(c) => req'[d] = req[d] \/ req'[d].step \notin Appealing
  BY <1>0 DEF Return, Idle, Appealing
<1>5. ASSUME NEW c \in Clients, AuthorStep(c)
      PROVE  AppealsContestRejections'
  <2>1. ASSUME NEW v \in Videos, NEW x \in Contents,
               CreateDraft(c, v, x) \/ UpdateDraft(c, v, x)
        PROVE  AppealsContestRejections'
    BY <1>2, <2>1 DEF CreateDraft, UpdateDraft
  <2>2. ASSUME NEW v \in Videos, Delete(c, v)
        PROVE  AppealsContestRejections'
    BY <1>2, <2>2 DEF Delete
  <2>3. ASSUME NEW v \in Videos, NEW x \in Contents,
               CreatePublished(c, v, x) \/ UpdateForReview(c, v, x)
        PROVE  AppealsContestRejections'
    BY <1>2, <1>3, <2>3 DEF CreatePublished, UpdateForReview, Submitting
  <2>4. ASSUME NEW v \in Videos, RetryCreate(c, v) \/ SubmitDraft(c, v)
        PROVE  AppealsContestRejections'
    <3>1. content[v] \in Contents
      BY <2>4 DEF RetryCreate, SubmitDraft, TypeOK
    <3> QED
      BY <1>2, <1>3, <2>4, <3>1 DEF RetryCreate, SubmitDraft, Submitting
  <2>5. CASE UpdateStatus(c)
    <3>1. req[c].video \in Videos /\ req[c].content \in Contents
      BY <2>5 DEF UpdateStatus, TypeOK, Submitting
    <3> QED
      BY <1>2, <1>3, <2>5, <3>1 DEF UpdateStatus, Submitting
  <2>6. CASE Abort(c) \/ SubmitForbidden(c) \/ SubmitJoinsOpenReview(c)
    BY <1>2, <1>4, <2>6 DEF Abort, SubmitForbidden, SubmitJoinsOpenReview
  <2>7. CASE SubmitOpensReview(c)
    <3> DEFINE u == req[c].video
               n == latest[u] + 1
    <3>1. /\ u \in Videos
          /\ n \in Versions
          /\ n > latest[u]
      BY <2>7, ConstantsAssumption DEF SubmitOpensReview, TypeOK, Versions
    <3>2. review[u][n].status = "none"
      BY <3>1 DEF VersionsInOrder
    <3>3. /\ review' = [review EXCEPT ![u][n] = NewReview(req[c].content)]
          /\ UNCHANGED appeal
          /\ Return(c)
      BY <2>7 DEF SubmitOpensReview
    <3> HIDE DEF u, n
    <3> QED
      BY <1>1, <1>4, <3>1, <3>2, <3>3
  <2>8. ASSUME NEW v \in Videos, NEW k \in Versions, CreateAppeal(c, v, k)
        PROVE  AppealsContestRejections'
    BY <1>0, <2>8 DEF CreateAppeal, LatestRejected, Appeal
  <2>9. CASE CheckAppealTarget(c)
    <3>1. UNCHANGED <<review, appeal>>
      BY <2>9 DEF CheckAppealTarget
    <3>2. CASE Return(c)
      BY <1>2, <1>4, <3>1, <3>2
    <3>3. CASE Appeal(c, "appeal_write", req[c].video, req[c].version)
      BY <1>0, <2>9, <3>1, <3>3 DEF CheckAppealTarget, Appeal, Appealing
    <3> QED
      BY <2>9, <3>2, <3>3 DEF CheckAppealTarget
  <2>10. CASE WriteAppeal(c)
    <3> DEFINE u == req[c].video
               n == req[c].version
    <3>1. /\ u \in Videos
          /\ n \in Versions
          /\ appeal[u][n] = "none" => review[u][n].status = "rejected"
      BY <1>0, <2>10 DEF WriteAppeal, Appealing
    <3>2. /\ UNCHANGED review
          /\ Return(c)
          /\ \/ /\ appeal[u][n] = "none"
                /\ appeal' = [appeal EXCEPT ![u][n] = "pending"]
             \/ UNCHANGED appeal
      BY <2>10 DEF WriteAppeal
    <3> HIDE DEF u, n
    <3>3. CASE UNCHANGED appeal
      BY <1>2, <1>4, <3>2, <3>3
    <3>4. CASE /\ appeal[u][n] = "none"
               /\ appeal' = [appeal EXCEPT ![u][n] = "pending"]
      <4>1. \A w \in Videos, j \in Versions :
              /\ appeal'[w][j] = "pending" =>
                   appeal[w][j] = "pending" \/ (w = u /\ j = n)
              /\ appeal[w][j] # "none" => appeal'[w][j] # "none"
        BY <1>0, <3>1, <3>4
      <4> QED
        BY <1>0, <1>4, <3>1, <3>2, <3>4, <4>1 DEF Appealing
    <3> QED
      BY <3>2, <3>3, <3>4
  <2> QED
    BY <1>5, <2>1, <2>2, <2>3, <2>4, <2>5, <2>6, <2>7, <2>8, <2>9, <2>10
    DEF AuthorStep
<1>6. ASSUME NEW v \in Videos, NEW k \in Versions, MachineStep(v, k)
      PROVE  AppealsContestRejections'
  <2>1. PICK r \in Review : /\ review' = [review EXCEPT ![v][k] = r]
                            /\ review[v][k].status = "pending"
    BY <1>6, MachineStepReview
  <2>2. UNCHANGED <<appeal, req>>
    BY <1>6 DEF MachineStep, Process, ApplyMachineResult
  <2> QED
    BY <1>1, <2>1, <2>2
<1>7. ASSUME NEW v \in Videos, NEW k \in Versions,
             ApproveReview(v, k) \/ RejectReview(v, k)
      PROVE  AppealsContestRejections'
  <2>1. PICK r : review' = [review EXCEPT ![v][k] = r]
    BY <1>7 DEF ApproveReview, RejectReview, Close
  <2>2. /\ review[v][k].status = "human_review"
        /\ UNCHANGED <<appeal, req>>
    BY <1>7 DEF ApproveReview, RejectReview, CanDecide
  <2> QED
    BY <1>1, <2>1, <2>2
<1>8. ASSUME NEW v \in Videos, NEW k \in Versions,
             ApproveAppeal(v, k) \/ RejectAppeal(v, k)
      PROVE  AppealsContestRejections'
  <2>1. PICK s \in {"approved", "rejected"} :
          /\ appeal' = [appeal EXCEPT ![v][k] = s]
          /\ \E r : review' = [review EXCEPT ![v][k] = r]
    BY <1>8 DEF ApproveAppeal, RejectAppeal, Close
  <2>2. UNCHANGED req
    BY <1>8 DEF ApproveAppeal, RejectAppeal
  <2>3. \A w \in Videos, j \in Versions :
          \/ appeal'[w][j] = s
          \/ appeal'[w][j] = appeal[w][j] /\ review'[w][j] = review[w][j]
    BY <1>0, <2>1
  <2>4. \A w \in Videos, j \in Versions :
          appeal'[w][j] = "pending" => review'[w][j].status = "rejected"
    BY <2>3
  <2>5. ASSUME NEW c \in Clients, req'[c].step \in Appealing
        PROVE  \/ review'[req'[c].video][req'[c].version].status = "rejected"
               \/ appeal'[req'[c].video][req'[c].version] # "none"
    <3>1. /\ req'[c] = req[c]
          /\ req[c].video \in Videos
          /\ req[c].version \in Versions
      BY <1>0, <2>2, <2>5 DEF Appealing
    <3> QED
      BY <2>3, <2>5, <3>1
  <2> QED
    BY <2>4, <2>5
<1>9. CASE \/ \E v \in Videos : TakeOffline(v) \/ Restore(v)
           \/ BeginBan \/ CommitBan \/ Unban \/ UNCHANGED vars
  BY <1>2, <1>9 DEF TakeOffline, Restore, BeginBan, CommitBan, Unban, vars
<1> QED
  BY <1>5, <1>6, <1>7, <1>8, <1>9 DEF Next, ModeratorStep

\* The action of DecisionsAreFinal.
LEMMA NextDecisions ==
  ASSUME TypeOK, VersionsInOrder, VerdictsBeforeDecision,
         AppealsContestRejections, [Next]_vars,
         NEW w \in Videos, NEW j \in Versions
  PROVE  /\ review[w][j].status = "published" => review'[w][j] = review[w][j]
         /\ review[w][j].status = "rejected" /\ review'[w][j] # review[w][j] =>
              appeal[w][j] = "pending" /\ appeal'[w][j] = "approved"
<1>0. /\ review \in [Videos -> [Versions -> Review]]
      /\ appeal \in [Videos -> [Versions -> AppealStatus]]
  BY DEF TypeOK
<1>1. CASE UNCHANGED <<latest, review>>
  BY <1>1
<1>2. ASSUME NEW c \in Clients, SubmitOpensReview(c)
      PROVE  review[w][j].status \in {"published", "rejected"} =>
               review'[w][j] = review[w][j]
  <2> DEFINE u == req[c].video
             n == latest[u] + 1
  <2>1. /\ u \in Videos
        /\ n \in Versions
        /\ n > latest[u]
        /\ review' = [review EXCEPT ![u][n] = NewReview(req[c].content)]
    BY <1>2, ConstantsAssumption DEF SubmitOpensReview, TypeOK, Versions
  <2>2. review[u][n].status = "none"
    BY <2>1 DEF VersionsInOrder
  <2> HIDE DEF u, n
  <2> QED
    BY <1>0, <2>1, <2>2
<1>3. ASSUME NEW v \in Videos, NEW k \in Versions, MachineStep(v, k)
      PROVE  review[w][j].status \in {"published", "rejected"} =>
               review'[w][j] = review[w][j]
  <2>1. PICK r \in Review : /\ review' = [review EXCEPT ![v][k] = r]
                            /\ review[v][k].status = "pending"
    BY <1>3, MachineStepReview
  <2> QED
    BY <1>0, <2>1
<1>4. ASSUME NEW v \in Videos, NEW k \in Versions,
             ApproveReview(v, k) \/ RejectReview(v, k)
      PROVE  review[w][j].status \in {"published", "rejected"} =>
               review'[w][j] = review[w][j]
  <2>1. PICK r : review' = [review EXCEPT ![v][k] = r]
    BY <1>4 DEF ApproveReview, RejectReview, Close
  <2>2. review[v][k].status = "human_review"
    BY <1>4 DEF ApproveReview, RejectReview, CanDecide
  <2> QED
    BY <1>0, <2>1, <2>2
<1>5. ASSUME NEW v \in Videos, NEW k \in Versions, ApproveAppeal(v, k)
      PROVE  /\ review[w][j].status = "published" => review'[w][j] = review[w][j]
             /\ review'[w][j] # review[w][j] =>
                  appeal[w][j] = "pending" /\ appeal'[w][j] = "approved"
  <2>1. /\ review[v][k].status = "rejected"
        /\ appeal[v][k] = "pending"
        /\ appeal' = [appeal EXCEPT ![v][k] = "approved"]
    BY <1>5 DEF ApproveAppeal, AppealsContestRejections
  <2>2. PICK r : review' = [review EXCEPT ![v][k] = r]
    BY <1>5 DEF ApproveAppeal, Close
  <2> QED
    BY <1>0, <2>1, <2>2
<1>6. ASSUME NEW v \in Videos, NEW k \in Versions, RejectAppeal(v, k)
      PROVE  review'[w][j] = review[w][j]
  <2>1. review[v][k].status = "rejected"
    BY <1>6 DEF RejectAppeal, AppealsContestRejections
  <2>2. review' = [review EXCEPT ![v][k] =
                     [status |-> "rejected", content |-> review[v][k].content,
                      waiting |-> review[v][k].waiting,
                      worst |-> review[v][k].worst]]
    BY <1>6 DEF RejectAppeal, Close
  <2>3. review[v][k] = [status |-> "rejected", content |-> review[v][k].content,
                        waiting |-> review[v][k].waiting,
                        worst |-> review[v][k].worst]
    BY <1>0, <2>1 DEF Review
  <2> QED
    BY <1>0, <2>2, <2>3
<1> QED
  BY <1>1, <1>2, <1>3, <1>4, <1>5, <1>6, ReviewSteps

\* The steps that make a video public, or keep it so.
LEMMA PublicSteps ==
  ASSUME TypeOK, [Next]_vars, NEW v \in Videos,
         status'[v] \in {"published", "offline"}
  PROVE  \/ status[v] = "published"
         \/ status[v] = "offline"
         \/ \E k \in Versions : ApproveReview(v, k) \/ ApproveAppeal(v, k)
<1>0. status \in [Videos -> RowStatus]
  BY DEF TypeOK
<1> SUFFICES ASSUME status'[v] # status[v],
                    status[v] \notin {"published", "offline"}
             PROVE  \E k \in Versions : ApproveReview(v, k) \/ ApproveAppeal(v, k)
  OBVIOUS
<1>1. ASSUME NEW c \in Clients, AuthorStep(c)
      PROVE  FALSE
  BY <1>0, <1>1 DEF AuthorStep, CreateDraft, UpdateDraft, CreatePublished,
              RetryCreate, SubmitDraft, UpdateStatus, UpdateForReview, Delete,
              Abort, SubmitForbidden, SubmitJoinsOpenReview, SubmitOpensReview,
              CreateAppeal, CheckAppealTarget, WriteAppeal
<1>2. ASSUME NEW w \in Videos, NEW k \in Versions, MachineStep(w, k)
      PROVE  FALSE
  BY <1>2 DEF MachineStep, Process, ApplyMachineResult
<1>3. ASSUME NEW w \in Videos, NEW k \in Versions,
             RejectReview(w, k) \/ RejectAppeal(w, k)
      PROVE  FALSE
  <2>1. RejectTarget(w)
    BY <1>3 DEF RejectReview, RejectAppeal
  <2> QED
    BY <1>0, <2>1 DEF RejectTarget
<1>4. ASSUME NEW w \in Videos, TakeOffline(w) \/ Restore(w)
      PROVE  FALSE
  <2>1. /\ status[w] \in {"published", "offline"}
        /\ status' = status \/ \E s \in RowStatus : status' = [status EXCEPT ![w] = s]
    BY <1>4 DEF TakeOffline, Restore, PublishTarget, RowStatus, VideoStatus
  <2> QED
    BY <1>0, <2>1
<1>5. ASSUME NEW w \in Videos, NEW k \in Versions,
             ApproveReview(w, k) \/ ApproveAppeal(w, k)
      PROVE  w = v
  <2>1. PublishTarget(w)
    BY <1>5 DEF ApproveReview, ApproveAppeal
  <2> QED
    BY <1>0, <2>1 DEF PublishTarget
<1>6. CASE BeginBan \/ CommitBan \/ Unban \/ UNCHANGED vars
  BY <1>0, <1>6 DEF BeginBan, CommitBan, Unban, vars
<1> QED
  BY <1>1, <1>2, <1>3, <1>4, <1>5, <1>6 DEF Next, ModeratorStep

\* An approval closes the review as published.
LEMMA ApprovalStep ==
  ASSUME TypeOK, AppealsContestRejections, NEW v \in Videos, NEW k \in Versions,
         ApproveReview(v, k) \/ ApproveAppeal(v, k)
  PROVE  /\ review[v][k].status \in {"human_review", "rejected"}
         /\ review'[v][k].status = "published"
         /\ review'[v][k].content = review[v][k].content
  BY DEF ApproveReview, ApproveAppeal, CanDecide, Close, TypeOK,
         AppealsContestRejections

\* A video that becomes public gets an approval in the same step.
LEMMA NextPublic ==
  ASSUME TypeOK, VersionsInOrder, VerdictsBeforeDecision,
         AppealsContestRejections, PublicHasApproval, [Next]_vars
  PROVE  PublicHasApproval'
<1> SUFFICES ASSUME NEW v \in Videos, status'[v] \in {"published", "offline"}
             PROVE  \E k \in Versions : review'[v][k].status = "published"
  BY DEF PublicHasApproval, Approved, Verdict
<1>1. CASE status[v] \in {"published", "offline"}
  <2>1. PICK k \in Versions : review[v][k].status = "published"
    BY <1>1 DEF PublicHasApproval, Approved, Verdict
  <2> QED
    BY <2>1, NextDecisions
<1>2. CASE \E k \in Versions : ApproveReview(v, k) \/ ApproveAppeal(v, k)
  BY <1>2, ApprovalStep
<1> QED
  BY <1>1, <1>2, PublicSteps

\* A video that becomes public gets its event in the same step, and a ban
\* announces no video offline that stays public.
LEMMA NextAnnounced ==
  ASSUME TypeOK, PublishedIsAnnounced, [Next]_vars
  PROVE  PublishedIsAnnounced'
<1>0. /\ status \in [Videos -> RowStatus]
      /\ notice \in [Videos -> {"none", "published", "offline"}]
  BY DEF TypeOK
<1> SUFFICES ASSUME NEW v \in Videos, status'[v] = "published"
             PROVE  notice'[v] = "published"
  BY DEF PublishedIsAnnounced
<1>1. ASSUME status'[v] = status[v], UNCHANGED notice
      PROVE  notice'[v] = "published"
  BY <1>1 DEF PublishedIsAnnounced
<1>2. ASSUME NEW c \in Clients, AuthorStep(c)
      PROVE  status'[v] = status[v] /\ UNCHANGED notice
  BY <1>0, <1>2 DEF AuthorStep, CreateDraft, UpdateDraft, CreatePublished,
              RetryCreate, SubmitDraft, UpdateStatus, UpdateForReview, Delete,
              Abort, SubmitForbidden, SubmitJoinsOpenReview, SubmitOpensReview,
              CreateAppeal, CheckAppealTarget, WriteAppeal
<1>3. ASSUME NEW w \in Videos, NEW k \in Versions, MachineStep(w, k)
      PROVE  status'[v] = status[v] /\ UNCHANGED notice
  BY <1>3 DEF MachineStep, Process, ApplyMachineResult
<1>4. ASSUME NEW w \in Videos, NEW k \in Versions,
             RejectReview(w, k) \/ RejectAppeal(w, k)
      PROVE  status'[v] = status[v] /\ UNCHANGED notice
  <2>1. RejectTarget(w) /\ UNCHANGED notice
    BY <1>4 DEF RejectReview, RejectAppeal
  <2> QED
    BY <1>0, <2>1 DEF RejectTarget
<1>5. ASSUME NEW w \in Videos, PublishTarget(w)
      PROVE  notice'[v] = "published"
  BY <1>0, <1>5 DEF PublishTarget, PublishedIsAnnounced
<1>6. ASSUME NEW w \in Videos, TakeOffline(w)
      PROVE  notice'[v] = "published"
  BY <1>0, <1>6 DEF TakeOffline, PublishedIsAnnounced
<1>7. CASE BeginBan \/ CommitBan \/ Unban \/ UNCHANGED vars
  BY <1>0, <1>7 DEF BeginBan, CommitBan, Unban, vars, PublishedIsAnnounced
<1> QED
  BY <1>1, <1>2, <1>3, <1>4, <1>5, <1>6, <1>7
  DEF Next, ModeratorStep, Restore, ApproveReview, ApproveAppeal

\* The racing invariant holds at first ...
LEMMA InitRacingInv == Init => RacingInv
<1> SUFFICES ASSUME Init PROVE RacingInv
  OBVIOUS
<1>1. TypeOK
  BY InitTypeOK
<1>2. VersionsInOrder /\ VerdictsBeforeDecision
  BY ConstantsAssumption
  DEF Init, VersionsInOrder, VerdictsBeforeDecision, NoReview, Versions
<1>3. AppealsContestRejections
  BY DEF Init, AppealsContestRejections, Idle, Appealing
<1>4. PublicHasApproval /\ PublishedIsAnnounced
  BY DEF Init, PublicHasApproval, PublishedIsAnnounced
<1> QED
  BY <1>1, <1>2, <1>3, <1>4 DEF RacingInv

\* ... every step preserves it ...
LEMMA NextRacingInv == RacingInv /\ [Next]_vars => RacingInv'
<1> SUFFICES ASSUME RacingInv, [Next]_vars PROVE RacingInv'
  OBVIOUS
<1> USE DEF RacingInv
<1>1. TypeOK'
  BY NextTypeOK
<1>2. VersionsInOrder' /\ VerdictsBeforeDecision'
  BY NextVersions
<1>3. AppealsContestRejections'
  BY NextAppeals
<1>4. PublicHasApproval'
  BY NextPublic
<1>5. PublishedIsAnnounced'
  BY NextAnnounced
<1> QED
  BY <1>1, <1>2, <1>3, <1>4, <1>5

\* Of ordered versions only the newest can be open.
LEMMA VersionsNewestOpen == RacingInv => OneOpenReview
<1> SUFFICES ASSUME RacingInv, NEW v \in Videos, NEW k \in Versions,
                    Open(review[v][k])
             PROVE  k = latest[v]
  BY DEF OneOpenReview
<1>1. k \in Int /\ latest[v] \in Int
  BY ConstantsAssumption DEF RacingInv, TypeOK, Versions
<1>2. ~(k > latest[v]) /\ ~(k < latest[v])
  BY DEF RacingInv, VersionsInOrder, Open
<1> QED
  BY <1>1, <1>2

\* ... so it holds in every reachable state.
LEMMA RacingInvariant == Spec => []RacingInv
  BY InitRacingInv, NextRacingInv, PTL DEF Spec

\* Every video that is or was public has a review a human ended in approval,
\* whatever requests of the author race with the moderators.
THEOREM PublicIsApproved == Spec => []PublicHasApproval
<1>1. RacingInv => PublicHasApproval
  BY DEF RacingInv
<1> QED
  BY RacingInvariant, <1>1, PTL

\* A review waits for the machine exactly while a verdict is missing: no late
\* callback touches a review that has been decided.
THEOREM NoLateVerdict == Spec => []VerdictsBeforeDecision
<1>1. RacingInv => VerdictsBeforeDecision
  BY DEF RacingInv
<1> QED
  BY RacingInvariant, <1>1, PTL

\* Only the newest version of a video's review can be open.
THEOREM NewestIsOpen == Spec => []OneOpenReview
  BY RacingInvariant, VersionsNewestOpen, PTL

\* The newest event about a public video says that it is published.
THEOREM PublicIsAnnounced == Spec => []PublishedIsAnnounced
<1>1. RacingInv => PublishedIsAnnounced
  BY DEF RacingInv
<1> QED
  BY RacingInvariant, <1>1, PTL

\* Nothing but a human decision or an administrator's restore makes a video
\* public: the machine's verdicts and the author's requests never do.
THEOREM HumansPublish == Spec => OnlyHumansPublish
<1> DEFINE A == \A v \in Videos :
       status[v] # "published" /\ status'[v] = "published" =>
         \/ status[v] = "offline"
         \/ \E k \in Versions :
              /\ review[v][k].status \in {"human_review", "rejected"}
              /\ review'[v][k].status = "published"
<1>1. RacingInv /\ [Next]_vars => A
  BY PublicSteps, ApprovalStep DEF RacingInv
<1>2. RacingInv /\ [Next]_vars => [A]_vars
  BY <1>1
<1>3. [][A]_vars => OnlyHumansPublish
  BY PTL DEF OnlyHumansPublish
<1> QED
  BY RacingInvariant, <1>2, <1>3, PTL DEF Spec

\* An approval is final, and a rejection is overturned only by its appeal.
THEOREM FinalDecisions == Spec => DecisionsAreFinal
<1> DEFINE A == \A v \in Videos, k \in Versions :
       /\ review[v][k].status = "published" => review'[v][k] = review[v][k]
       /\ review[v][k].status = "rejected" /\ review'[v][k] # review[v][k] =>
            appeal[v][k] = "pending" /\ appeal'[v][k] = "approved"
<1>1. RacingInv /\ [Next]_vars => [A]_vars
  BY NextDecisions DEF RacingInv
<1>2. [][A]_vars => DecisionsAreFinal
  BY PTL DEF DecisionsAreFinal
<1> QED
  BY RacingInvariant, <1>1, <1>2, PTL DEF Spec

----------------------------------------------------------------------------
(* An author whose requests run one at a time and are not retried.         *)

\* What is proved for racing requests holds for serial ones.
LEMMA OldInvariant == SerialInv => RacingInv /\ OneOpenReview
<1> SUFFICES ASSUME SerialInv PROVE RacingInv /\ OneOpenReview
  OBVIOUS
<1>1. RacingInv
  BY DEF SerialInv
<1> QED
  BY <1>1, VersionsNewestOpen

----------------------------------------------------------------------------
(* What a decision finds and does.                                         *)

\* A moderator decides on the row as it was submitted.
LEMMA DecideReviewStep ==
  ASSUME SerialInv, NEW v \in Videos, NEW k \in Versions,
         ApproveReview(v, k) \/ RejectReview(v, k)
  PROVE  /\ status[v] = "pending_review"
         /\ Open(review[v][k])
         /\ review[v][k].content = content[v]
         /\ \E s \in {"published", "rejected"} :
              Close(v, k, s) /\ status' = [status EXCEPT ![v] = s]
         /\ UNCHANGED <<content, latest, appeal, req>>
<1>1. review[v][k].status = "human_review"
  BY DEF ApproveReview, RejectReview, CanDecide
<1>2. Open(review[v][k])
  BY <1>1 DEF Open
<1>3. \/ status[v] = "deleted"
      \/ status[v] = "pending_review" /\ review[v][k].content = content[v]
  BY <1>2 DEF SerialInv, OpenReviewMatchesVideo
<1>4. CASE ApproveReview(v, k)
  <2>1. PublishTarget(v) /\ Close(v, k, "published")
    BY <1>4 DEF ApproveReview
  <2>2. status[v] # "deleted" /\ status' = [status EXCEPT ![v] = "published"]
    BY <1>3, <2>1 DEF PublishTarget, Publishable
  <2> QED
    BY <1>2, <1>3, <1>4, <2>1, <2>2 DEF ApproveReview
<1>5. CASE RejectReview(v, k)
  <2>1. RejectTarget(v) /\ Close(v, k, "rejected")
    BY <1>5 DEF RejectReview
  <2>2. status[v] # "deleted" /\ status' = [status EXCEPT ![v] = "rejected"]
    BY <1>3, <2>1 DEF RejectTarget
  <2> QED
    BY <1>2, <1>3, <1>5, <2>1, <2>2 DEF RejectReview
<1> QED
  BY <1>4, <1>5

\* An appeal is decided on the row as it was rejected.
LEMMA DecideAppealStep ==
  ASSUME SerialInv, NEW v \in Videos, NEW k \in Versions,
         ApproveAppeal(v, k) \/ RejectAppeal(v, k)
  PROVE  /\ status[v] = "appeal_pending"
         /\ appeal[v][k] = "pending"
         /\ review[v][k].status = "rejected"
         /\ \E s \in {"published", "rejected"}, a \in {"approved", "rejected"} :
              /\ Close(v, k, s)
              /\ status' = [status EXCEPT ![v] = s]
              /\ appeal' = [appeal EXCEPT ![v][k] = a]
         /\ UNCHANGED <<content, latest, req>>
<1>1. appeal[v][k] = "pending"
  BY DEF ApproveAppeal, RejectAppeal
<1>2. review[v][k].status = "rejected"
  BY <1>1 DEF SerialInv, RacingInv, AppealsContestRejections
<1>3. status[v] \in {"appeal_pending", "deleted"}
  BY <1>1 DEF SerialInv, AppealHoldsVideo
<1>4. CASE ApproveAppeal(v, k)
  <2>1. PublishTarget(v) /\ Close(v, k, "published")
    BY <1>4 DEF ApproveAppeal
  <2>2. status[v] # "deleted" /\ status' = [status EXCEPT ![v] = "published"]
    BY <1>3, <2>1 DEF PublishTarget, Publishable
  <2> QED
    BY <1>1, <1>2, <1>3, <1>4, <2>1, <2>2 DEF ApproveAppeal
<1>5. CASE RejectAppeal(v, k)
  <2>1. RejectTarget(v) /\ Close(v, k, "rejected")
    BY <1>5 DEF RejectAppeal
  <2>2. status[v] # "deleted" /\ status' = [status EXCEPT ![v] = "rejected"]
    BY <1>3, <2>1 DEF RejectTarget
  <2> QED
    BY <1>1, <1>2, <1>3, <1>5, <2>1, <2>2 DEF RejectAppeal
<1> QED
  BY <1>4, <1>5

\* A decision adds the content it was about to those decided on.
LEMMA DecisionJudges ==
  ASSUME SerialInv, NEW v \in Videos, NEW k \in Versions,
         \/ ApproveReview(v, k) \/ RejectReview(v, k)
         \/ ApproveAppeal(v, k) \/ RejectAppeal(v, k)
  PROVE  \A w \in Videos :
           Reviewed(w)' = IF w = v THEN Reviewed(v) \cup {review[v][k].content}
                                   ELSE Reviewed(w)
<1>0. /\ review \in [Videos -> [Versions -> Review]]
      /\ TypeOK
      /\ AppealsContestRejections
  BY DEF SerialInv, RacingInv, TypeOK
<1>1. PICK s \in {"published", "rejected"} : Close(v, k, s)
  BY <1>0, DecisionReview
<1>2. \A w \in Videos, j \in Versions :
        <<w, j>> # <<v, k>> => review'[w][j] = review[w][j]
  BY <1>0, <1>1 DEF Close
<1>3. /\ review'[v][k].status \in {"published", "rejected"}
      /\ review'[v][k].content = review[v][k].content
  BY <1>0, <1>1 DEF Close
<1>4. review[v][k].status \in {"published", "rejected"} =>
        review[v][k].content \in Reviewed(v)
  BY DEF Reviewed, Verdict
<1> QED
  BY <1>2, <1>3, <1>4 DEF Reviewed, Verdict

\* How the set of contents a human has decided on grows.
LEMMA ReviewedGrows ==
  ASSUME SerialInv, [Next]_vars
  PROVE  \/ \A v \in Videos : Reviewed(v)' = Reviewed(v)
         \/ \E v \in Videos, k \in Versions :
              /\ \/ ApproveReview(v, k) \/ RejectReview(v, k)
                 \/ ApproveAppeal(v, k) \/ RejectAppeal(v, k)
              /\ \A w \in Videos :
                   Reviewed(w)' = IF w = v
                                  THEN Reviewed(v) \cup {review[v][k].content}
                                  ELSE Reviewed(w)
<1>0. /\ review \in [Videos -> [Versions -> Review]]
      /\ TypeOK
      /\ VersionsInOrder
      /\ VerdictsBeforeDecision
      /\ AppealsContestRejections
  BY DEF SerialInv, RacingInv, TypeOK
<1> DEFINE D == {"published", "rejected"}
<1>1. ASSUME NEW u \in Videos, NEW n \in Versions, NEW r,
             review' = [review EXCEPT ![u][n] = r],
             review[u][n].status \notin D, r.status \notin D
      PROVE  \A v \in Videos : Reviewed(v)' = Reviewed(v)
  <2>1. \A v \in Videos, j \in Versions :
          \/ review'[v][j] = review[v][j]
          \/ review'[v][j].status \notin D /\ review[v][j].status \notin D
    BY <1>0, <1>1
  <2> QED
    BY <2>1 DEF Reviewed, Verdict
<1>2. ASSUME NEW c \in Clients, SubmitOpensReview(c)
      PROVE  \A v \in Videos : Reviewed(v)' = Reviewed(v)
  <2> DEFINE u == req[c].video
             n == latest[u] + 1
  <2>1. /\ u \in Videos
        /\ n \in Versions
        /\ n > latest[u]
        /\ review' = [review EXCEPT ![u][n] = NewReview(req[c].content)]
    BY <1>0, <1>2, ConstantsAssumption DEF SubmitOpensReview, TypeOK, Versions
  <2>2. review[u][n].status \notin D
    BY <1>0, <2>1 DEF VersionsInOrder
  <2>3. NewReview(req[c].content).status \notin D
    BY DEF NewReview
  <2> HIDE DEF u, n
  <2> QED
    BY <1>1, <2>1, <2>2, <2>3
<1>3. ASSUME NEW v \in Videos, NEW k \in Versions, MachineStep(v, k)
      PROVE  \A w \in Videos : Reviewed(w)' = Reviewed(w)
  <2>1. PICK r \in Review :
           /\ review' = [review EXCEPT ![v][k] = r]
           /\ review[v][k].status = "pending"
           /\ r.status = "pending" \/ r.status = "human_review"
    BY <1>0, <1>3, MachineStepReview
  <2> QED
    BY <1>1, <2>1
<1>4. CASE UNCHANGED <<latest, review>>
  BY <1>4 DEF Reviewed, Verdict
<1> QED
  BY <1>2, <1>3, <1>4, DecisionJudges, ReviewSteps

----------------------------------------------------------------------------
(* What a step does to a video.                                            *)

\* The steps in which the row of v changes.
LEMMA RowSteps ==
  ASSUME SerialInv, [Next]_vars, NEW v \in Videos
  PROVE  \/ status'[v] = status[v] /\ content'[v] = content[v]
         \/ status[v] \in {"absent", "draft"} /\ status'[v] = "draft"
         \/ status[v] = "absent" /\ status'[v] = "pending_review"
         \/ \E c \in Clients : /\ UpdateStatus(c)
                               /\ req[c].video = v
                               /\ status'[v] = "pending_review"
                               /\ content'[v] = content[v]
         \/ status[v] \in Resubmittable /\ status'[v] = "pending_review"
         \/ /\ status[v] # "absent"
            /\ status'[v] = "deleted"
            /\ content'[v] = content[v]
         \/ /\ status[v] = "rejected"
            /\ status'[v] = "appeal_pending"
            /\ content'[v] = content[v]
         \/ /\ \E k \in Versions :
                 \/ ApproveReview(v, k) \/ RejectReview(v, k)
                 \/ ApproveAppeal(v, k) \/ RejectAppeal(v, k)
            /\ content'[v] = content[v]
         \/ /\ status[v] \in {"published", "offline"}
            /\ status'[v] \in {"published", "offline"}
            /\ content'[v] = content[v]
<1>0. /\ status \in [Videos -> RowStatus]
      /\ content \in [Videos -> Contents \cup {NoContent}]
  BY DEF SerialInv, RacingInv, TypeOK
<1>1. ASSUME NEW c \in Clients, NEW w \in Videos, NEW x \in Contents,
             CreateDraft(c, w, x) \/ UpdateDraft(c, w, x)
      PROVE  \/ status'[v] = status[v] /\ content'[v] = content[v]
             \/ status[v] \in {"absent", "draft"} /\ status'[v] = "draft"
  BY <1>0, <1>1 DEF CreateDraft, UpdateDraft
<1>2. ASSUME NEW c \in Clients, NEW w \in Videos, NEW x \in Contents,
             CreatePublished(c, w, x) \/ UpdateForReview(c, w, x)
      PROVE  \/ status'[v] = status[v] /\ content'[v] = content[v]
             \/ status[v] = "absent" /\ status'[v] = "pending_review"
             \/ status[v] \in Resubmittable /\ status'[v] = "pending_review"
  BY <1>0, <1>2 DEF CreatePublished, UpdateForReview
<1>3. ASSUME NEW c \in Clients, UpdateStatus(c)
      PROVE  \/ status'[v] = status[v] /\ content'[v] = content[v]
             \/ /\ req[c].video = v
                /\ status'[v] = "pending_review"
                /\ content'[v] = content[v]
  BY <1>0, <1>3 DEF UpdateStatus
<1>4. ASSUME NEW c \in Clients, NEW w \in Videos, Delete(c, w)
      PROVE  \/ status'[v] = status[v] /\ content'[v] = content[v]
             \/ /\ status[v] # "absent"
                /\ status'[v] = "deleted"
                /\ content'[v] = content[v]
  BY <1>0, <1>4 DEF Delete
<1>5. ASSUME NEW c \in Clients, WriteAppeal(c)
      PROVE  \/ status'[v] = status[v] /\ content'[v] = content[v]
             \/ /\ status[v] = "rejected"
                /\ status'[v] = "appeal_pending"
                /\ content'[v] = content[v]
  BY <1>0, <1>5 DEF WriteAppeal
<1>6. ASSUME NEW c \in Clients,
             \/ \E w \in Videos : \/ RetryCreate(c, w) \/ SubmitDraft(c, w)
                                  \/ \E k \in Versions : CreateAppeal(c, w, k)
             \/ SubmitForbidden(c) \/ SubmitJoinsOpenReview(c)
             \/ SubmitOpensReview(c) \/ CheckAppealTarget(c) \/ Abort(c)
      PROVE  status'[v] = status[v] /\ content'[v] = content[v]
  BY <1>6 DEF RetryCreate, SubmitDraft, CreateAppeal, SubmitForbidden,
              SubmitJoinsOpenReview, SubmitOpensReview, CheckAppealTarget, Abort
<1>7. ASSUME NEW w \in Videos, NEW k \in Versions, MachineStep(w, k)
      PROVE  status'[v] = status[v] /\ content'[v] = content[v]
  BY <1>7 DEF MachineStep, Process, ApplyMachineResult
<1>8. ASSUME NEW w \in Videos, NEW k \in Versions,
             \/ ApproveReview(w, k) \/ RejectReview(w, k)
             \/ ApproveAppeal(w, k) \/ RejectAppeal(w, k)
      PROVE  content'[v] = content[v] /\ (w # v => status'[v] = status[v])
  <2>1. /\ UNCHANGED content
        /\ \E s \in {"published", "rejected"} : status' = [status EXCEPT ![w] = s]
    BY <1>8, DecideReviewStep, DecideAppealStep
  <2> QED
    BY <1>0, <2>1
<1>9. ASSUME NEW w \in Videos, TakeOffline(w) \/ Restore(w)
      PROVE  \/ status'[v] = status[v] /\ content'[v] = content[v]
             \/ /\ status[v] \in {"published", "offline"}
                /\ status'[v] \in {"published", "offline"}
                /\ content'[v] = content[v]
  <2>1. CASE TakeOffline(w)
    BY <1>0, <2>1 DEF TakeOffline
  <2>2. CASE Restore(w)
    BY <1>0, <2>2 DEF Restore, PublishTarget
  <2> QED
    BY <1>9, <2>1, <2>2
<1>10. CASE BeginBan \/ CommitBan \/ Unban \/ UNCHANGED vars
  BY <1>0, <1>10 DEF BeginBan, CommitBan, Unban, vars
<1>11. ASSUME NEW c \in Clients, AuthorStep(c)
       PROVE  \/ \E w \in Videos, x \in Contents :
                  \/ CreateDraft(c, w, x) \/ UpdateDraft(c, w, x)
                  \/ CreatePublished(c, w, x) \/ UpdateForReview(c, w, x)
              \/ \E w \in Videos : Delete(c, w)
              \/ UpdateStatus(c)
              \/ WriteAppeal(c)
              \/ \E w \in Videos : \/ RetryCreate(c, w) \/ SubmitDraft(c, w)
                                   \/ \E k \in Versions : CreateAppeal(c, w, k)
              \/ SubmitForbidden(c) \/ SubmitJoinsOpenReview(c)
              \/ SubmitOpensReview(c) \/ CheckAppealTarget(c) \/ Abort(c)
  BY <1>11 DEF AuthorStep
<1>12. ASSUME NEW c \in Clients, AuthorStep(c)
       PROVE  \/ status'[v] = status[v] /\ content'[v] = content[v]
              \/ status[v] \in {"absent", "draft"} /\ status'[v] = "draft"
              \/ status[v] = "absent" /\ status'[v] = "pending_review"
              \/ UpdateStatus(c) /\ req[c].video = v /\ status'[v] = "pending_review"
                 /\ content'[v] = content[v]
              \/ status[v] \in Resubmittable /\ status'[v] = "pending_review"
              \/ status[v] # "absent" /\ status'[v] = "deleted" /\ content'[v] = content[v]
              \/ /\ status[v] = "rejected"
                 /\ status'[v] = "appeal_pending"
                 /\ content'[v] = content[v]
  BY <1>1, <1>2, <1>3, <1>4, <1>5, <1>6, <1>11, <1>12
<1>13. ASSUME NEW w \in Videos, ModeratorStep(w)
       PROVE  \/ \E k \in Versions :
                  \/ ApproveReview(w, k) \/ RejectReview(w, k)
                  \/ ApproveAppeal(w, k) \/ RejectAppeal(w, k)
              \/ TakeOffline(w) \/ Restore(w)
  BY <1>13 DEF ModeratorStep
<1> QED
  BY <1>7, <1>8, <1>9, <1>10, <1>12, <1>13 DEF Next

----------------------------------------------------------------------------
(* SerialInv is inductive.                                                 *)

\* The serial invariant holds at first.
LEMMA InitSerialInv == Init => SerialInv
<1> SUFFICES ASSUME Init PROVE SerialInv
  OBVIOUS
<1>1. RacingInv
  BY InitRacingInv
<1>2. DecidedContent /\ OpenReviewMatchesVideo /\ AppealHoldsVideo /\ OnePendingAppeal
  BY DEF Init, DecidedContent, OpenReviewMatchesVideo, AppealHoldsVideo,
         OnePendingAppeal, Open, NoReview
<1>3. RowAsLeft
  BY DEF Init, RowAsLeft, Idle, Submitting
<1> QED
  BY <1>1, <1>2, <1>3 DEF SerialInv

\* A row holds still while the request that left it is in flight.
LEMMA HeldRow ==
  ASSUME Serial, SerialInv, [Next]_vars, NEW v \in Videos,
         NEW c \in Clients, req[c].step # "idle", req[c].video = v,
         ~AuthorStep(c)
  PROVE  /\ req[c].step \in Submitting \cup {"appeal_write"} =>
              /\ status'[v] = status[v]
              /\ content'[v] = content[v]
         /\ req[c].step \in Submitting => HasOpen(v)' = HasOpen(v)
         /\ UNCHANGED <<latest, req>>
<1>0. /\ \A d \in Clients : ~AuthorStep(d)
      /\ UNCHANGED <<latest, req>>
  <2>1. \A d \in Clients : ~AuthorStep(d)
    BY DEF Serial
  <2> QED
    BY <2>1 DEF Next, MachineStep, Process, ApplyMachineResult, ModeratorStep,
         ApproveReview, RejectReview, ApproveAppeal, RejectAppeal, TakeOffline,
         Restore, BeginBan, CommitBan, Unban, vars
<1>1. CASE req[c].step \in Submitting \cup {"appeal_write"}
  <2>1. status[v] \in {"draft", "pending_review", "rejected"}
    BY <1>1 DEF SerialInv, RowAsLeft, Submitting
  <2>2. ASSUME NEW k \in Versions
        PROVE  ~Open(review[v][k])
    <3>1. CASE req[c].step = "appeal_write"
      BY <3>1 DEF SerialInv, RowAsLeft, OpenReviewMatchesVideo
    <3>2. CASE req[c].step \in Submitting
      <4>1. ~HasOpen(v)
        BY <3>2 DEF SerialInv, RowAsLeft
      <4>2. Open(review[v][k]) => k = latest[v]
        BY OldInvariant DEF OneOpenReview
      <4>3. k > 0
        BY ConstantsAssumption DEF Versions
      <4> QED
        BY <4>1, <4>2, <4>3 DEF HasOpen
    <3> QED
      BY <1>1, <3>1, <3>2
  <2>3. ASSUME NEW k \in Versions,
               \/ ApproveReview(v, k) \/ RejectReview(v, k)
               \/ ApproveAppeal(v, k) \/ RejectAppeal(v, k)
        PROVE  FALSE
    BY <2>1, <2>2, <2>3, DecideReviewStep, DecideAppealStep
  <2>4. status[v] \notin {"absent", "published", "offline"}
    BY <2>1
  <2>5. ASSUME NEW w \in Videos, NEW k \in Versions, MachineStep(w, k)
        PROVE  UNCHANGED <<status, content>> /\ (w # v => review'[v] = review[v])
    BY <2>5 DEF MachineStep, Process, ApplyMachineResult, SerialInv, RacingInv, TypeOK
  <2>6. ASSUME NEW k \in Versions, MachineStep(v, k)
        PROVE  FALSE
    <3>1. review[v][k].status = "pending"
      BY <2>6, MachineStepReview DEF SerialInv, RacingInv
    <3> QED
      BY <2>2, <3>1 DEF Open
  <2>7. ASSUME NEW w \in Videos, NEW k \in Versions,
               \/ ApproveReview(w, k) \/ RejectReview(w, k)
               \/ ApproveAppeal(w, k) \/ RejectAppeal(w, k)
        PROVE  /\ status'[v] = status[v]
               /\ content'[v] = content[v]
               /\ review'[v] = review[v]
    <3>1. w # v
      BY <2>3, <2>7
    <3>2. /\ UNCHANGED content
          /\ \E s \in {"published", "rejected"} :
               Close(w, k, s) /\ status' = [status EXCEPT ![w] = s]
      BY <2>7, DecideReviewStep, DecideAppealStep
    <3> QED
      BY <3>1, <3>2 DEF Close, SerialInv, RacingInv, TypeOK
  <2>8. ASSUME NEW w \in Videos, TakeOffline(w) \/ Restore(w)
        PROVE  /\ status'[v] = status[v]
               /\ content'[v] = content[v]
               /\ review'[v] = review[v]
    BY <2>4, <2>8 DEF TakeOffline, Restore, PublishTarget, SerialInv, RacingInv, TypeOK
  <2>9. ASSUME BeginBan \/ CommitBan \/ Unban \/ UNCHANGED vars
        PROVE  /\ status'[v] = status[v]
               /\ content'[v] = content[v]
               /\ review'[v] = review[v]
    BY <2>4, <2>9 DEF BeginBan, CommitBan, Unban, vars, SerialInv, RacingInv, TypeOK
  <2>10. /\ status'[v] = status[v]
         /\ content'[v] = content[v]
         /\ review'[v] = review[v]
    BY <1>0, <2>5, <2>6, <2>7, <2>8, <2>9 DEF Next, ModeratorStep
  <2> QED
    BY <1>0, <2>10 DEF HasOpen
<1> QED
  BY <1>0, <1>1

\* No other request changes the row a request in flight has left.
LEMMA NextRowAsLeft ==
  ASSUME Serial, SerialInv, [Next]_vars
  PROVE  RowAsLeft'
<1>0. TypeOK /\ VersionsInOrder
  BY DEF SerialInv, RacingInv
<1>1. ASSUME NEW v \in Videos, status'[v] \in {"absent", "draft"}
      PROVE  latest'[v] = 0
  <2>1. status[v] \in {"absent", "draft"}
    <3>1. ASSUME NEW k \in Versions,
                 \/ ApproveReview(v, k) \/ RejectReview(v, k)
                 \/ ApproveAppeal(v, k) \/ RejectAppeal(v, k)
          PROVE  FALSE
      <4>1. status \in [Videos -> RowStatus]
        BY <1>0 DEF TypeOK
      <4>2. CASE ApproveReview(v, k) \/ RejectReview(v, k)
        BY <1>1, <4>1, <4>2, DecideReviewStep
      <4>3. CASE ApproveAppeal(v, k) \/ RejectAppeal(v, k)
        BY <1>1, <4>1, <4>3, DecideAppealStep
      <4> QED
        BY <3>1, <4>2, <4>3
    <3> QED
      BY <1>1, <3>1, RowSteps
  <2>2. latest[v] = 0
    BY <2>1 DEF SerialInv, RowAsLeft
  <2>3. ASSUME NEW c \in Clients, SubmitOpensReview(c), req[c].video = v
        PROVE  FALSE
    BY <2>1, <2>3 DEF SubmitOpensReview, SerialInv, RowAsLeft, Submitting
  <2>4. \/ latest' = latest
        \/ \E c \in Clients : SubmitOpensReview(c)
    <3>1. \A w \in Videos, k \in Versions : MachineStep(w, k) => latest' = latest
      BY DEF MachineStep, Process, ApplyMachineResult
    <3>2. ASSUME NEW w \in Videos, NEW k \in Versions,
                 \/ ApproveReview(w, k) \/ RejectReview(w, k)
                 \/ ApproveAppeal(w, k) \/ RejectAppeal(w, k)
          PROVE  latest' = latest
      BY <3>2 DEF ApproveReview, RejectReview, ApproveAppeal, RejectAppeal
    <3> QED
      BY <3>1, <3>2, ReviewSteps
  <2> QED
    BY <1>0, <2>2, <2>3, <2>4 DEF SubmitOpensReview, TypeOK
<1> DEFINE P(c) ==
       /\ req[c].step \in Submitting =>
            /\ content[req[c].video] = req[c].content
            /\ ~HasOpen(req[c].video)
            /\ status[req[c].video] =
                 IF req[c].step = "submit_status" THEN "draft" ELSE "pending_review"
       /\ req[c].step = "appeal_write" => status[req[c].video] = "rejected"
<1>2. ASSUME NEW c \in Clients
      PROVE  P(c)'
  <2>1. P(c)
    BY DEF SerialInv, RowAsLeft
  <2>2. CASE ~AuthorStep(c) /\ req[c].step = "idle"
    <3>1. UNCHANGED req
      <4>1. \A d \in Clients : ~AuthorStep(d)
        BY <2>2 DEF Serial
      <4> QED
        BY <4>1 DEF Next, MachineStep, Process, ApplyMachineResult, ModeratorStep,
          ApproveReview, RejectReview, ApproveAppeal, RejectAppeal, TakeOffline,
          Restore, BeginBan, CommitBan, Unban, vars
    <3> QED
      BY <2>2, <3>1 DEF Submitting
  <2>3. CASE ~AuthorStep(c) /\ req[c].step # "idle"
    <3>1. req[c].video \in Videos
      BY <1>0, <2>3 DEF TypeOK
    <3>2. UNCHANGED req
      BY <2>3, <3>1, HeldRow
    <3>3. CASE req[c].step \in Submitting
      <4>1. /\ status'[req[c].video] = status[req[c].video]
            /\ content'[req[c].video] = content[req[c].video]
        BY <2>3, <3>1, <3>3, HeldRow
      <4>2. HasOpen(req[c].video)' = HasOpen(req[c].video)
        BY <2>3, <3>1, <3>2, <3>3, HeldRow
      <4> QED
        BY <2>1, <3>2, <3>3, <4>1, <4>2 DEF Submitting
    <3>4. CASE req[c].step = "appeal_write"
      BY <2>1, <2>3, <3>1, <3>2, <3>4, HeldRow DEF Submitting
    <3> QED
      BY <3>2, <3>3, <3>4
  <2>4. CASE AuthorStep(c)
    <3>0. /\ req \in [Clients -> Request]
          /\ status \in [Videos -> RowStatus]
          /\ content \in [Videos -> Contents \cup {NoContent}]
      BY <1>0 DEF TypeOK
    <3>1. ASSUME NEW v \in Videos, NEW x \in Contents,
                 CreateDraft(c, v, x) \/ UpdateDraft(c, v, x)
          PROVE  P(c)'
      BY <3>1 DEF CreateDraft, UpdateDraft, Admitted, Submitting
    <3>2. ASSUME NEW v \in Videos, Delete(c, v)
          PROVE  P(c)'
      BY <3>2 DEF Delete, Admitted, Submitting
    <3>3. ASSUME NEW v \in Videos, NEW x \in Contents,
                 CreatePublished(c, v, x) \/ UpdateForReview(c, v, x)
          PROVE  P(c)'
      <4>1. ~HasOpen(v)
        <5>1. CASE status[v] = "absent"
          BY <5>1 DEF HasOpen, SerialInv, RowAsLeft
        <5>2. CASE status[v] \in Resubmittable
          <6> SUFFICES ASSUME latest[v] > 0
                       PROVE  ~Open(review[v][latest[v]])
            BY DEF HasOpen
          <6>1. latest[v] \in Versions
            BY <1>0, ConstantsAssumption DEF TypeOK, Versions
          <6> QED
            BY <5>2, <6>1 DEF SerialInv, OpenReviewMatchesVideo, Resubmittable
        <5> QED
          BY <3>3, <5>1, <5>2 DEF CreatePublished, UpdateForReview
      <4>2. /\ Submit(c, "submit_review", v, x)
            /\ status' = [status EXCEPT ![v] = "pending_review"]
            /\ content' = [content EXCEPT ![v] = x]
            /\ UNCHANGED <<latest, review>>
        BY <3>3 DEF CreatePublished, UpdateForReview
      <4>3. ~HasOpen(v)'
        BY <4>1, <4>2 DEF HasOpen
      <4>4. /\ req'[c].video = v
            /\ req'[c].content = x
            /\ req'[c].step = "submit_review"
            /\ status'[v] = "pending_review"
            /\ content'[v] = x
        BY <3>0, <4>2 DEF Submit
      <4> QED
        BY <4>3, <4>4
    <3>4. ASSUME NEW v \in Videos, RetryCreate(c, v)
          PROVE  P(c)'
      BY <3>4 DEF RetryCreate, Serial
    <3>5. ASSUME NEW v \in Videos, SubmitDraft(c, v)
          PROVE  P(c)'
      <4>1. /\ req'[c].video = v
            /\ req'[c].content = content[v]
            /\ req'[c].step = "submit_status"
            /\ status'[v] = "draft"
            /\ UNCHANGED <<content, latest, review>>
        BY <3>0, <3>5 DEF SubmitDraft, Submit
      <4>2. ~HasOpen(v)'
        BY <3>5, <4>1 DEF SubmitDraft, SerialInv, RowAsLeft, HasOpen
      <4> QED
        BY <4>1, <4>2
    <3>6. CASE UpdateStatus(c)
      <4>1. /\ req'[c].video = req[c].video
            /\ req'[c].content = req[c].content
            /\ req'[c].step = "submit_review"
            /\ req[c].step \in Submitting
            /\ req[c].video \in Videos
            /\ status'[req[c].video] = "pending_review"
            /\ UNCHANGED <<content, latest, review>>
        BY <1>0, <3>0, <3>6 DEF UpdateStatus, Submit, Submitting, TypeOK
      <4>2. ~HasOpen(req[c].video)'
        BY <2>1, <4>1 DEF HasOpen
      <4> QED
        BY <2>1, <4>1, <4>2
    <3>7. CASE \/ SubmitForbidden(c) \/ SubmitJoinsOpenReview(c)
               \/ SubmitOpensReview(c) \/ WriteAppeal(c) \/ Abort(c)
      <4>1. Return(c)
        BY <3>7 DEF SubmitForbidden, SubmitJoinsOpenReview, SubmitOpensReview,
                    WriteAppeal, Abort
      <4> QED
        BY <3>0, <4>1 DEF Return, Idle, Submitting
    <3>8. ASSUME NEW v \in Videos, NEW k \in Versions, CreateAppeal(c, v, k)
          PROVE  P(c)'
      BY <3>0, <3>8 DEF CreateAppeal, Appeal, Submitting
    <3>9. CASE CheckAppealTarget(c)
      BY <3>0, <3>9 DEF CheckAppealTarget, Appeal, Return, Idle, Submitting
    <3> QED
      BY <2>4, <3>1, <3>2, <3>3, <3>4, <3>5, <3>6, <3>7, <3>8, <3>9 DEF AuthorStep
  <2> QED
    BY <2>2, <2>3, <2>4
<1> QED
  BY <1>1, <1>2 DEF RowAsLeft

\* A row that is or may return on show carries decided content.
LEMMA NextDecidedContent ==
  ASSUME Serial, SerialInv, [Next]_vars
  PROVE  DecidedContent'
<1>0. /\ status \in [Videos -> RowStatus]
      /\ content \in [Videos -> Contents \cup {NoContent}]
      /\ asset \in [Contents -> Asset]
      /\ review \in [Videos -> [Versions -> Review]]
      /\ \A v \in Videos : status[v] = "absent" <=> content[v] = NoContent
  BY DEF SerialInv, RacingInv, TypeOK
<1> DEFINE D == {"published", "offline", "rejected", "appeal_pending"}
<1>1. \A v \in Videos : Reviewed(v) \subseteq Reviewed(v)'
  BY ReviewedGrows
<1>2. ASSUME NEW v \in Videos, status'[v] \in D
      PROVE  content'[v] \in Reviewed(v)'
  <2>1. CASE /\ status[v] \in D
             /\ content'[v] = content[v]
    BY <1>1, <2>1 DEF SerialInv, DecidedContent
  <2>2. ASSUME NEW k \in Versions,
               ApproveReview(v, k) \/ RejectReview(v, k)
        PROVE  content'[v] \in Reviewed(v)'
    <3>1. /\ review[v][k].content = content[v]
          /\ content' = content
          /\ \E s \in {"published", "rejected"} : Close(v, k, s)
      BY <2>2, DecideReviewStep
    <3>2. /\ review'[v][k].status \in {"published", "rejected"}
          /\ review'[v][k].content = content[v]
      BY <1>0, <3>1 DEF Close
    <3> QED
      BY <3>1, <3>2 DEF Reviewed, Verdict
  <2>3. ASSUME NEW k \in Versions,
               ApproveAppeal(v, k) \/ RejectAppeal(v, k)
        PROVE  status[v] \in D /\ content'[v] = content[v]
    BY <2>3, DecideAppealStep
  <2> QED
    BY <1>2, <2>1, <2>2, <2>3, RowSteps
<1>3. ASSUME NEW x \in Contents, asset'[x].status = "published"
      PROVE  \E v \in Videos : x \in Reviewed(v)'
  <2>1. CASE asset[x].status = "published"
    BY <1>1, <2>1 DEF SerialInv, DecidedContent
  <2>2. ASSUME NEW v \in Videos, PublishTarget(v), UNCHANGED content
        PROVE  \/ asset[x].status = "published"
               \/ status'[v] = "published" /\ content'[v] = x
    BY <1>0, <1>3, <2>2 DEF PublishTarget
  <2>3. ASSUME NEW v \in Videos, NEW k \in Versions,
               ApproveReview(v, k) \/ ApproveAppeal(v, k)
        PROVE  PublishTarget(v) /\ UNCHANGED content
    BY <2>3 DEF ApproveReview, ApproveAppeal
  <2>4. ASSUME NEW v \in Videos, Restore(v)
        PROVE  PublishTarget(v) /\ UNCHANGED content
    BY <2>4 DEF Restore
  <2>5. ASSUME NEW v \in Videos, NEW k \in Versions,
               RejectReview(v, k) \/ RejectAppeal(v, k)
        PROVE  asset[x].status = "published"
    <3>1. RejectTarget(v)
      BY <2>5 DEF RejectReview, RejectAppeal
    <3> QED
      BY <1>0, <1>3, <3>1 DEF RejectTarget, MarkAsset
  <2>6. ASSUME NEW v \in Videos, TakeOffline(v)
        PROVE  asset[x].status = "published"
    BY <1>0, <1>3, <2>6 DEF TakeOffline, MarkAsset
  <2>7. ASSUME NEW v \in Videos, NEW k \in Versions, MachineStep(v, k)
        PROVE  asset[x].status = "published"
    BY <1>3, <2>7 DEF MachineStep, Process, ApplyMachineResult
  <2>8. ASSUME NEW c \in Clients, AuthorStep(c)
        PROVE  asset[x].status = "published"
    BY <1>0, <1>3, <2>8 DEF AuthorStep, CreateDraft, UpdateDraft,
         CreatePublished, RetryCreate, SubmitDraft, UpdateStatus,
         UpdateForReview, Delete, Abort, SubmitForbidden, BindAsset,
         SubmitJoinsOpenReview, SubmitOpensReview, CreateAppeal,
         CheckAppealTarget, WriteAppeal
  <2>9. CASE BeginBan \/ CommitBan \/ Unban \/ UNCHANGED vars
    <3>1. UNCHANGED asset
      BY <2>9 DEF BeginBan, CommitBan, Unban, vars
    <3> QED
      BY <1>3, <2>1, <3>1
  <2>10. ASSUME NEW v \in Videos, PublishTarget(v), UNCHANGED content
         PROVE  \E w \in Videos : x \in Reviewed(w)'
    BY <1>2, <2>1, <2>2, <2>10
  <2> QED
    BY <2>1, <2>3, <2>4, <2>5, <2>6, <2>7, <2>8, <2>9, <2>10 DEF Next, ModeratorStep
<1> QED
  BY <1>2, <1>3 DEF DecidedContent

\* An open review keeps matching its video.
LEMMA NextReviewMatches ==
  ASSUME Serial, SerialInv, [Next]_vars
  PROVE  OpenReviewMatchesVideo'
<1>0. /\ TypeOK /\ VersionsInOrder /\ VerdictsBeforeDecision
      /\ AppealsContestRejections
      /\ review \in [Videos -> [Versions -> Review]]
      /\ status \in [Videos -> RowStatus]
  BY DEF SerialInv, RacingInv, TypeOK
<1> SUFFICES ASSUME NEW v \in Videos, NEW k \in Versions, Open(review'[v][k])
             PROVE  \/ status'[v] = "deleted"
                    \/ /\ status'[v] = "pending_review"
                       /\ review'[v][k].content = content'[v]
  BY DEF OpenReviewMatchesVideo, Open
<1>1. CASE Open(review[v][k]) /\ review'[v][k].content = review[v][k].content
  <2>1. \/ status[v] = "deleted"
        \/ status[v] = "pending_review" /\ review[v][k].content = content[v]
    BY <1>1 DEF SerialInv, OpenReviewMatchesVideo
  <2>2. ASSUME NEW j \in Versions, ApproveReview(v, j) \/ RejectReview(v, j)
        PROVE  FALSE
    <3>1. Open(review[v][j]) /\ \E s \in {"published", "rejected"} : Close(v, j, s)
      BY <2>2, DecideReviewStep
    <3>2. j = k
      BY <1>1, <3>1, OldInvariant DEF OneOpenReview
    <3> QED
      BY <1>0, <3>1, <3>2 DEF Close, Open
  <2>3. ASSUME NEW j \in Versions, ApproveAppeal(v, j) \/ RejectAppeal(v, j)
        PROVE  FALSE
    BY <2>1, <2>3, DecideAppealStep
  <2>4. ASSUME NEW c \in Clients, UpdateStatus(c), req[c].video = v
        PROVE  FALSE
    BY <2>1, <2>4 DEF UpdateStatus, SerialInv, RowAsLeft, Submitting
  <2> QED
    BY <1>1, <2>1, <2>2, <2>3, <2>4, RowSteps DEF Resubmittable
<1>2. CASE UNCHANGED <<latest, review>>
  BY <1>1, <1>2
<1>3. ASSUME NEW c \in Clients, SubmitOpensReview(c)
      PROVE  \/ Open(review[v][k]) /\ review'[v][k].content = review[v][k].content
             \/ /\ status'[v] = "pending_review"
                /\ review'[v][k].content = content'[v]
  <2> DEFINE u == req[c].video
             n == latest[u] + 1
  <2>1. /\ u \in Videos
        /\ n \in Versions
        /\ review' = [review EXCEPT ![u][n] = NewReview(req[c].content)]
        /\ UNCHANGED <<status, content>>
        /\ req[c].step = "submit_review"
    BY <1>0, <1>3, ConstantsAssumption DEF SubmitOpensReview, TypeOK, Versions
  <2>2. status[u] = "pending_review" /\ content[u] = req[c].content
    BY <2>1 DEF SerialInv, RowAsLeft, Submitting
  <2> HIDE DEF u, n
  <2>3. CASE u = v /\ n = k
    BY <1>0, <2>1, <2>2, <2>3 DEF NewReview
  <2>4. CASE ~(u = v /\ n = k)
    BY <1>0, <2>1, <2>4
  <2> QED
    BY <2>3, <2>4
<1>4. ASSUME NEW w \in Videos, NEW j \in Versions, MachineStep(w, j)
      PROVE  Open(review[v][k]) /\ review'[v][k].content = review[v][k].content
  <2>1. PICK r \in Review :
           /\ review' = [review EXCEPT ![w][j] = r]
           /\ review[w][j].status = "pending"
           /\ r.content = review[w][j].content
    BY <1>0, <1>4, MachineStepReview
  <2> QED
    BY <1>0, <2>1 DEF Open
<1>5. ASSUME NEW w \in Videos, NEW j \in Versions,
             \/ ApproveReview(w, j) \/ RejectReview(w, j)
             \/ ApproveAppeal(w, j) \/ RejectAppeal(w, j)
      PROVE  Open(review[v][k]) /\ review'[v][k].content = review[v][k].content
  <2>1. PICK s \in {"published", "rejected"} : Close(w, j, s)
    BY <1>0, <1>5, DecisionReview
  <2> QED
    BY <1>0, <2>1 DEF Close, Open
<1> QED
  BY <1>1, <1>2, <1>3, <1>4, <1>5, ReviewSteps

\* The steps that change appeals.
LEMMA AppealSteps ==
  ASSUME SerialInv, [Next]_vars
  PROVE  \/ UNCHANGED appeal
         \/ \E v \in Videos, k \in Versions :
              /\ status[v] = "rejected"
              /\ status' = [status EXCEPT ![v] = "appeal_pending"]
              /\ appeal' = [appeal EXCEPT ![v][k] = "pending"]
         \/ \E v \in Videos, k \in Versions :
              ApproveAppeal(v, k) \/ RejectAppeal(v, k)
<1>1. ASSUME NEW c \in Clients, WriteAppeal(c)
      PROVE  \/ UNCHANGED appeal
             \/ \E v \in Videos, k \in Versions :
                  /\ status[v] = "rejected"
                  /\ status' = [status EXCEPT ![v] = "appeal_pending"]
                  /\ appeal' = [appeal EXCEPT ![v][k] = "pending"]
  <2>1. /\ req[c].video \in Videos
        /\ req[c].version \in Versions
    BY <1>1 DEF WriteAppeal, SerialInv, RacingInv, TypeOK, Appealing
  <2>2. status[req[c].video] = "rejected"
    BY <1>1 DEF WriteAppeal, SerialInv, RowAsLeft
  <2> QED
    BY <1>1, <2>1, <2>2 DEF WriteAppeal
<1>2. ASSUME NEW c \in Clients, AuthorStep(c)
      PROVE  UNCHANGED appeal \/ WriteAppeal(c)
  BY <1>2 DEF AuthorStep, CreateDraft, UpdateDraft, CreatePublished,
              RetryCreate, SubmitDraft, UpdateStatus, UpdateForReview, Delete,
              Abort, SubmitForbidden, SubmitJoinsOpenReview, SubmitOpensReview,
              CreateAppeal, CheckAppealTarget
<1>3. ASSUME NEW v \in Videos, ModeratorStep(v)
      PROVE  \/ UNCHANGED appeal
             \/ \E k \in Versions : ApproveAppeal(v, k) \/ RejectAppeal(v, k)
  BY <1>3 DEF ModeratorStep, TakeOffline, Restore, ApproveReview, RejectReview
<1>4. ASSUME NEW v \in Videos, NEW k \in Versions, MachineStep(v, k)
      PROVE  UNCHANGED appeal
  BY <1>4 DEF MachineStep, Process, ApplyMachineResult
<1>5. BeginBan \/ CommitBan \/ Unban \/ UNCHANGED vars => UNCHANGED appeal
  BY DEF BeginBan, CommitBan, Unban, vars
<1> QED
  BY <1>1, <1>2, <1>3, <1>4, <1>5 DEF Next

\* A pending appeal keeps holding its video, and stays the only one.
LEMMA NextAppealHolds ==
  ASSUME Serial, SerialInv, [Next]_vars
  PROVE  AppealHoldsVideo' /\ OnePendingAppeal'
<1>0. /\ status \in [Videos -> RowStatus]
      /\ appeal \in [Videos -> [Versions -> AppealStatus]]
  BY DEF SerialInv, RacingInv, TypeOK
\* A pending appeal that is not decided in this step holds the row.
<1>1. ASSUME NEW v \in Videos, NEW k \in Versions,
             appeal[v][k] = "pending", appeal'[v][k] = "pending"
      PROVE  status'[v] \in {"appeal_pending", "deleted"}
  <2>1. status[v] \in {"appeal_pending", "deleted"}
    BY <1>1 DEF SerialInv, AppealHoldsVideo
  <2>2. ASSUME NEW j \in Versions, ApproveAppeal(v, j) \/ RejectAppeal(v, j)
        PROVE  FALSE
    <3>1. /\ appeal[v][j] = "pending"
          /\ \E a \in {"approved", "rejected"} : appeal' = [appeal EXCEPT ![v][j] = a]
      BY <2>2, DecideAppealStep
    <3>2. j = k
      BY <1>1, <3>1 DEF SerialInv, OnePendingAppeal
    <3> QED
      BY <1>0, <1>1, <3>1, <3>2
  <2>3. ASSUME NEW j \in Versions, ApproveReview(v, j) \/ RejectReview(v, j)
        PROVE  FALSE
    BY <2>1, <2>3, DecideReviewStep
  <2>4. ASSUME NEW c \in Clients, UpdateStatus(c), req[c].video = v
        PROVE  FALSE
    BY <2>1, <2>4 DEF UpdateStatus, SerialInv, RowAsLeft, Submitting
  <2> QED
    BY <2>1, <2>2, <2>3, <2>4, RowSteps DEF Resubmittable
<1>2. ASSUME \A v \in Videos, k \in Versions :
               appeal'[v][k] = "pending" => appeal[v][k] = "pending"
      PROVE  AppealHoldsVideo' /\ OnePendingAppeal'
  <2>1. AppealHoldsVideo'
    BY <1>1, <1>2 DEF AppealHoldsVideo
  <2>2. OnePendingAppeal'
    BY <1>2 DEF SerialInv, OnePendingAppeal
  <2> QED
    BY <2>1, <2>2
<1>3. ASSUME NEW v \in Videos, NEW k \in Versions,
             status[v] = "rejected",
             status' = [status EXCEPT ![v] = "appeal_pending"],
             appeal' = [appeal EXCEPT ![v][k] = "pending"]
      PROVE  AppealHoldsVideo' /\ OnePendingAppeal'
  <2>1. \A j \in Versions : appeal[v][j] # "pending"
    BY <1>3 DEF SerialInv, AppealHoldsVideo
  <2>2. /\ status'[v] = "appeal_pending"
        /\ \A w \in Videos, j \in Versions :
             <<w, j>> # <<v, k>> => appeal'[w][j] = appeal[w][j]
    BY <1>0, <1>3
  <2>3. AppealHoldsVideo'
    BY <1>1, <2>2 DEF AppealHoldsVideo
  <2>4. OnePendingAppeal'
    BY <2>1, <2>2 DEF SerialInv, OnePendingAppeal
  <2> QED
    BY <2>3, <2>4
<1>4. ASSUME NEW v \in Videos, NEW k \in Versions,
             ApproveAppeal(v, k) \/ RejectAppeal(v, k)
      PROVE  \A w \in Videos, j \in Versions :
               appeal'[w][j] = "pending" => appeal[w][j] = "pending"
  <2>1. \E a \in {"approved", "rejected"} : appeal' = [appeal EXCEPT ![v][k] = a]
    BY <1>4, DecideAppealStep
  <2> QED
    BY <1>0, <2>1
<1> QED
  BY <1>2, <1>3, <1>4, AppealSteps

\* Every step preserves the serial invariant ...
LEMMA NextSerialInv ==
  ASSUME Serial
  PROVE  SerialInv /\ [Next]_vars => SerialInv'
<1> SUFFICES ASSUME SerialInv, [Next]_vars PROVE SerialInv'
  OBVIOUS
<1>1. RacingInv'
  BY NextRacingInv DEF SerialInv
<1>2. DecidedContent'
  BY NextDecidedContent
<1>3. OpenReviewMatchesVideo'
  BY NextReviewMatches
<1>4. AppealHoldsVideo' /\ OnePendingAppeal'
  BY NextAppealHolds
<1>5. RowAsLeft'
  BY NextRowAsLeft
<1> QED
  BY <1>1, <1>2, <1>3, <1>4, <1>5 DEF SerialInv

\* ... so it holds in every reachable state.
LEMMA SerialInvariant == Serial => (Spec => []SerialInv)
<1> SUFFICES ASSUME Serial PROVE Spec => []SerialInv
  OBVIOUS
<1>1. SerialInv /\ [Next]_vars => SerialInv'
  BY NextSerialInv
<1> QED
  BY InitSerialInv, <1>1, PTL DEF Spec

----------------------------------------------------------------------------
(* What the invariant gives.                                               *)

\* No content is public before a human has decided on it.
THEOREM PublicIsReviewed == Serial => (Spec => []PublishedWasReviewed)
<1>1. SerialInv => PublishedWasReviewed
  BY DEF SerialInv, DecidedContent, PublishedWasReviewed
<1> QED
  BY SerialInvariant, <1>1, PTL

\* No media file is served to the public before a human has decided on a
\* content that uses it.
THEOREM MediaStaysPrivate == Serial => (Spec => []UnreviewedMediaPrivate)
<1>1. SerialInv => UnreviewedMediaPrivate
  BY DEF SerialInv, DecidedContent, UnreviewedMediaPrivate, ServedPublicly
<1> QED
  BY SerialInvariant, <1>1, PTL

\* A moderator decides on what the row holds at that moment.
THEOREM ReviewMatches == Serial => (Spec => []OpenReviewMatchesVideo)
<1>1. SerialInv => OpenReviewMatchesVideo
  BY DEF SerialInv
<1> QED
  BY SerialInvariant, <1>1, PTL

\* A video under appeal stays as it was rejected.
THEOREM AppealHolds == Serial => (Spec => []AppealHoldsVideo)
<1>1. SerialInv => AppealHoldsVideo
  BY DEF SerialInv
<1> QED
  BY SerialInvariant, <1>1, PTL

\* A deleted video never comes back.
THEOREM DeletionIsFinal == Serial => (Spec => DeletedStaysDeleted)
<1> SUFFICES ASSUME Serial PROVE Spec => DeletedStaysDeleted
  OBVIOUS
<1> DEFINE A == \A v \in Videos : status[v] = "deleted" => status'[v] = "deleted"
<1>1. ASSUME SerialInv, [Next]_vars, NEW v \in Videos, status[v] = "deleted"
      PROVE  status'[v] = "deleted"
  <2>1. ASSUME NEW k \in Versions,
               \/ ApproveReview(v, k) \/ RejectReview(v, k)
               \/ ApproveAppeal(v, k) \/ RejectAppeal(v, k)
        PROVE  FALSE
    BY <1>1, <2>1, DecideReviewStep, DecideAppealStep
  <2>2. ASSUME NEW c \in Clients, UpdateStatus(c), req[c].video = v
        PROVE  FALSE
    BY <1>1, <2>2 DEF UpdateStatus, SerialInv, RowAsLeft, Submitting
  <2> QED
    BY <1>1, <2>1, <2>2, RowSteps DEF Resubmittable
<1>2. SerialInv /\ [Next]_vars => [A]_vars
  BY <1>1
<1>3. [][A]_vars => DeletedStaysDeleted
  BY PTL DEF DeletedStaysDeleted
<1> QED
  BY SerialInvariant, <1>2, <1>3, PTL DEF Spec

----------------------------------------------------------------------------
(* The moderation service implements the publication gate.                 *)

\* How what the public sees changes in a step.
LEMMA ShownSteps ==
  ASSUME SerialInv, [Next]_vars
  PROVE  \/ \A v \in Videos : status'[v] = "published" =>
              status[v] = "published" /\ content'[v] = content[v]
         \/ \E v \in Videos : Restore(v)
         \/ \E v \in Videos, k \in Versions : ApproveReview(v, k) \/ ApproveAppeal(v, k)
<1> SUFFICES ASSUME \A v \in Videos : ~Restore(v),
                    \A v \in Videos, k \in Versions :
                      ~ApproveReview(v, k) /\ ~ApproveAppeal(v, k),
                    NEW v \in Videos, status'[v] = "published"
             PROVE  status[v] = "published" /\ content'[v] = content[v]
  OBVIOUS
<1>0. status \in [Videos -> RowStatus]
  BY DEF SerialInv, RacingInv, TypeOK
<1>1. /\ status[v] \in {"published", "offline"}
      /\ content'[v] = content[v]
  <2>1. ASSUME NEW k \in Versions, RejectReview(v, k) \/ RejectAppeal(v, k)
        PROVE  FALSE
    <3>1. RejectTarget(v)
      BY <2>1 DEF RejectReview, RejectAppeal
    <3> QED
      BY <1>0, <3>1 DEF RejectTarget
  <2> QED
    BY <2>1, RowSteps
<1>2. ASSUME status[v] = "offline"
      PROVE  FALSE
  <2>1. ASSUME NEW c \in Clients, AuthorStep(c)
        PROVE  FALSE
    BY <1>0, <1>2, <2>1 DEF AuthorStep, CreateDraft, UpdateDraft,
       CreatePublished, RetryCreate, SubmitDraft, UpdateStatus,
       UpdateForReview, Delete, Abort, SubmitForbidden, SubmitJoinsOpenReview,
       SubmitOpensReview, CreateAppeal, CheckAppealTarget, WriteAppeal
  <2>2. ASSUME NEW w \in Videos, NEW k \in Versions, MachineStep(w, k)
        PROVE  FALSE
    BY <1>2, <2>2 DEF MachineStep, Process, ApplyMachineResult
  <2>3. ASSUME NEW w \in Videos, NEW k \in Versions,
               RejectReview(w, k) \/ RejectAppeal(w, k)
        PROVE  FALSE
    <3>1. RejectTarget(w)
      BY <2>3 DEF RejectReview, RejectAppeal
    <3> QED
      BY <1>0, <1>2, <3>1 DEF RejectTarget
  <2>4. ASSUME NEW w \in Videos, TakeOffline(w)
        PROVE  FALSE
    BY <1>0, <1>2, <2>4 DEF TakeOffline
  <2>5. ASSUME BeginBan \/ CommitBan \/ Unban \/ UNCHANGED vars
        PROVE  FALSE
    BY <1>0, <1>2, <2>5 DEF BeginBan, CommitBan, Unban, vars
  <2> QED
    BY <2>1, <2>2, <2>3, <2>4, <2>5 DEF Next, ModeratorStep
<1> QED
  BY <1>1, <1>2

\* A step of the system is a step of the gate, or leaves it alone.
LEMMA GateStep ==
  ASSUME SerialInv, SerialInv', [Next]_vars
  PROVE  [Gate!GateNext]_(Gate!gate)
<1> DEFINE judged == [v \in Videos |-> Reviewed(v)]
           shown  == [v \in Videos |-> IF status[v] = "published"
                                      THEN content[v] ELSE NoContent]
<1> USE DEF Gate!GateNext, Gate!gate, Gate!Judge, Gate!Show, Gate!Hide
<1>0. /\ status \in [Videos -> RowStatus]
      /\ content \in [Videos -> Contents \cup {NoContent}]
      /\ \A v \in Videos : status[v] # "absent" => content[v] \in Contents
  BY DEF SerialInv, RacingInv, TypeOK
\* Nothing is decided and nothing comes on show: Hide.
<1>1. ASSUME \A v \in Videos : Reviewed(v)' = Reviewed(v),
             \A v \in Videos : status'[v] = "published" =>
               status[v] = "published" /\ content'[v] = content[v]
      PROVE  Gate!GateNext
  <2>1. judged' = judged
    BY <1>1
  <2> DEFINE S == {v \in Videos : status'[v] # "published"}
  <2>2. shown' = [v \in Videos |-> IF v \in S THEN NoContent ELSE shown[v]]
    BY <1>1
  <2>3. S \in SUBSET Videos
    OBVIOUS
  <2> QED
    BY <2>1, <2>2, <2>3
\* The row of v comes on show with a content that has been decided on.
<1>2. ASSUME NEW v \in Videos,
             status[v] # "published", status[v] # "absent",
             status' = [status EXCEPT ![v] = "published"],
             UNCHANGED content,
             \/ judged' = judged
             \/ \E y \in Contents : judged' = [judged EXCEPT ![v] = @ \cup {y}]
      PROVE  Gate!Show(v, content[v])
  <2>1. content[v] \in judged'[v]
    BY <1>0, <1>2 DEF SerialInv, DecidedContent
  <2>2. shown[v] = NoContent
    BY <1>2
  <2>3. shown' = [shown EXCEPT ![v] = content[v]]
    BY <1>0, <1>2
  <2> QED
    BY <1>2, <2>1, <2>2, <2>3
<1>3. ASSUME NEW v \in Videos, Restore(v)
      PROVE  Gate!GateNext
  <2>1. /\ status[v] = "offline"
        /\ status' = [status EXCEPT ![v] = "published"]
        /\ UNCHANGED <<content, review>>
    BY <1>3 DEF Restore, PublishTarget
  <2>2. judged' = judged
    BY <2>1 DEF Reviewed, Verdict
  <2>3. Gate!Show(v, content[v])
    BY <1>2, <2>1, <2>2
  <2> QED
    BY <1>0, <2>1, <2>3
<1>4. ASSUME NEW v \in Videos, NEW k \in Versions,
             ApproveReview(v, k) \/ RejectReview(v, k),
             \A w \in Videos :
               Reviewed(w)' = IF w = v THEN Reviewed(v) \cup {review[v][k].content}
                                       ELSE Reviewed(w)
      PROVE  Gate!GateNext
  <2>1. /\ status[v] = "pending_review"
        /\ review[v][k].content = content[v]
        /\ UNCHANGED content
        /\ \/ status' = [status EXCEPT ![v] = "published"]
           \/ status' = [status EXCEPT ![v] = "rejected"]
    BY <1>4, DecideReviewStep
  <2>2. content[v] \in Contents
    BY <1>0, <2>1
  <2>3. judged' = [judged EXCEPT ![v] = @ \cup {content[v]}]
    BY <1>4, <2>1
  <2>4. CASE status' = [status EXCEPT ![v] = "published"]
    BY <1>2, <2>1, <2>2, <2>3, <2>4
  <2>5. CASE status' = [status EXCEPT ![v] = "rejected"]
    <3>1. shown' = shown
      BY <1>0, <2>1, <2>5
    <3> QED
      BY <2>2, <2>3, <3>1
  <2> QED
    BY <2>1, <2>4, <2>5
<1>5. ASSUME NEW v \in Videos, NEW k \in Versions,
             ApproveAppeal(v, k) \/ RejectAppeal(v, k),
             \A w \in Videos :
               Reviewed(w)' = IF w = v THEN Reviewed(v) \cup {review[v][k].content}
                                       ELSE Reviewed(w)
      PROVE  [Gate!GateNext]_(Gate!gate)
  <2>1. /\ status[v] = "appeal_pending"
        /\ review[v][k].status = "rejected"
        /\ UNCHANGED content
        /\ \/ status' = [status EXCEPT ![v] = "published"]
           \/ status' = [status EXCEPT ![v] = "rejected"]
    BY <1>5, DecideAppealStep
  <2>2. judged' = judged
    <3>1. review[v][k].content \in Reviewed(v)
      BY <2>1 DEF Reviewed, Verdict
    <3>2. \A w \in Videos : Reviewed(w)' = Reviewed(w)
      BY <1>5, <3>1
    <3> QED
      BY <3>2
  <2>3. CASE status' = [status EXCEPT ![v] = "published"]
    BY <1>0, <1>2, <2>1, <2>2, <2>3
  <2>4. CASE status' = [status EXCEPT ![v] = "rejected"]
    <3>1. shown' = shown
      BY <1>0, <2>1, <2>4
    <3> QED
      BY <2>2, <3>1
  <2> QED
    BY <2>1, <2>3, <2>4
<1>6. ASSUME NEW v \in Videos, NEW k \in Versions,
             ApproveReview(v, k) \/ RejectReview(v, k) \/ ApproveAppeal(v, k) \/ RejectAppeal(v, k)
      PROVE  \A w \in Videos :
               Reviewed(w)' = IF w = v THEN Reviewed(v) \cup {review[v][k].content}
                                       ELSE Reviewed(w)
  BY <1>6, DecisionJudges
<1>7. CASE \E v \in Videos, k \in Versions :
             \/ ApproveReview(v, k) \/ RejectReview(v, k)
             \/ ApproveAppeal(v, k) \/ RejectAppeal(v, k)
  BY <1>4, <1>5, <1>6, <1>7
<1>8. CASE ~\E v \in Videos, k \in Versions :
              \/ ApproveReview(v, k) \/ RejectReview(v, k)
              \/ ApproveAppeal(v, k) \/ RejectAppeal(v, k)
  BY <1>1, <1>3, <1>8, ReviewedGrows, ShownSteps
<1> QED
  BY <1>7, <1>8

\* At first nothing has been judged and nothing is shown.
LEMMA GateInit == Init => Gate!GateInit
  BY DEF Init, Gate!GateInit, Reviewed, Verdict, NoReview

\* What the public sees of an author's videos changes only as the publication
\* gate allows.
THEOREM ImplementsGate == Serial => (Spec => GateSpec)
<1> SUFFICES ASSUME Serial PROVE Spec => GateSpec
  OBVIOUS
<1>1. SerialInv /\ SerialInv' /\ [Next]_vars => [Gate!GateNext]_(Gate!gate)
  BY GateStep
<1> QED
  BY SerialInvariant, GateInit, <1>1, PTL DEF Spec, GateSpec, Gate!GateSpec
============================================================================
