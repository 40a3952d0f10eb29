------------------------------ MODULE MCServices ------------------------------
(***************************************************************************)
(* The services that stand beside the videos and the feed: the recommender *)
(* and what it learns of a user, accounts, the routes of administrators,   *)
(* uploads, and the writes under a key.                                    *)
(* They share no state; a behaviour runs one of them, the scene, so that   *)
(* their states add up instead of being multiplied.                        *)
(***************************************************************************)
EXTENDS Recommendation, InterestProfile, Accounts, AccessControl, Uploads, KeyedWrites

VARIABLE scene

servicesVars == <<recommendVars, interestVars, accountVars, accessVars, uploadVars, keyedVars, scene>>

\* The oldest video has an author of its own, so that a page can be interleaved.
MCAuthorBy == [v \in 1 .. VideoCount |-> IF v = 1 THEN "nora" ELSE "otto"]
MCAlike == [v \in 1 .. VideoCount |-> v % 2]

\* Keys are alike: the request that is watched begins with this one.
AKey == CHOOSE k \in Keys : TRUE

MCInit ==
  /\ RecommendInit /\ InterestInit /\ AccountsInit /\ AccessInit /\ UploadsInit /\ KeyedInit
  /\ scene \in {"recommend", "seen", "profile", "accounts", "access", "uploads", "writes"}
  /\ scene # "recommend" => heat = [v \in Candidates |-> 0]
  /\ scene # "access" => \A p \in People : person[p].role = "user"
  /\ scene = "writes" => IF watched.key = NoKey THEN watched.event = AKey ELSE watched.key = AKey
  /\ scene # "writes" => table = "report" /\ watched = CHOOSE r \in WriteRequests : Identified(r)

\* A duplicate of a view changes nothing a profile is computed from: the scene of the profile
\* has views without an identifier only.
MCNext ==
  /\ UNCHANGED scene
  /\ \/ /\ scene = "recommend" /\ RecommendNext
        /\ UNCHANGED <<interestVars, accountVars, accessVars, uploadVars, keyedVars>>
     \/ /\ scene \in {"seen", "profile"} /\ \E v \in Watchable : RecordView(v)
        /\ scene = "profile" => \A i \in DOMAIN views' : views'[i].request = NoRequestId
        /\ UNCHANGED <<recommendVars, accountVars, accessVars, uploadVars, keyedVars>>
     \/ /\ scene = "seen" /\ SeenSteps
        /\ UNCHANGED <<recommendVars, accountVars, accessVars, uploadVars, keyedVars>>
     \/ /\ scene = "profile" /\ ProfileSteps
        /\ UNCHANGED <<recommendVars, accountVars, accessVars, uploadVars, keyedVars>>
     \/ /\ scene = "accounts" /\ AccountsNext
        /\ UNCHANGED <<recommendVars, interestVars, accessVars, uploadVars, keyedVars>>
     \/ /\ scene = "access" /\ AccessNext
        /\ UNCHANGED <<recommendVars, interestVars, accountVars, uploadVars, keyedVars>>
     \/ /\ scene = "uploads" /\ UploadsNext
        /\ UNCHANGED <<recommendVars, interestVars, accountVars, accessVars, keyedVars>>
     \/ /\ scene = "writes" /\ KeyedNext
        /\ UNCHANGED <<recommendVars, interestVars, accountVars, accessVars, uploadVars>>

MCSpec == MCInit /\ [][MCNext]_servicesVars
============================================================================
