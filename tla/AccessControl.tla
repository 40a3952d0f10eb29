---------------------------- MODULE AccessControl ----------------------------
(***************************************************************************)
(* Who may use the routes of the administrators: access tokens, the live   *)
(* check of the account, the permissions of its roles, and the two routes  *)
(* that change them.  The role is kept twice, as a column of the account   *)
(* and as rows of admin_user_role.  A process that starts reads the column *)
(* to fill the rows, while others serve requests.                          *)
(***************************************************************************)
EXTENDS Integers, FiniteSets

CONSTANTS
  People, Root,   \* accounts, and the administrator of the configuration
  Desks,          \* requests under way at a time
  NoDecision

ASSUME AccessAssumption == Root \in People

Roles == {"reviewer", "moderator", "super_admin"}

VARIABLES
  person,   \* account.status and account.role
  grants,   \* admin_user_role: the roles of each account
  seeded,   \* admin_role and admin_role_permission are filled
  bearer,   \* an access token of the account that has not expired
  desk,     \* the requests
  assigned, \* the role that was last assigned to each account through the routes
  barred    \* the accounts whose last such decision was a ban

accessVars == <<person, grants, seeded, bearer, desk, assigned, barred>>

decisions == <<assigned, barred>>

Waiting == [step |-> "none"]

\* Before the first start of this version: administrators are known by the column alone.
AccessInit ==
  /\ person \in [People -> [status : {"normal"}, role : {"user", "admin"}]]
  /\ grants = [p \in People |-> {}]
  /\ seeded = FALSE
  /\ bearer = [p \in People |-> FALSE]
  /\ desk = [d \in Desks |-> Waiting]
  /\ assigned = [p \in People |-> NoDecision]
  /\ barred = {}
----------------------------------------------------------------------------
(* The start of a process, another one each time.                          *)

\* The two permissions that change accounts.
RolePermissions ==
  [r \in Roles |-> CASE r = "super_admin" -> {"user.ban", "role.assign"}
                     [] r = "moderator"   -> {"user.ban"}
                     [] r = "reviewer"    -> {}]

\* The API and the worker.
SeedRBAC ==
  /\ seeded' = TRUE
  /\ grants' = [p \in People |-> grants[p] \cup IF person[p].role = "admin" THEN {"super_admin"} ELSE {}]
  /\ UNCHANGED <<person, bearer, desk, decisions>>

\* The API alone: the configured administrator is made one again.
EnsureAdmin ==
  /\ seeded
  /\ person' = [person EXCEPT ![Root] = [status |-> "normal", role |-> "admin"]]
  /\ grants' = [grants EXCEPT ![Root] = @ \cup {"super_admin"}]
  /\ UNCHANGED <<seeded, bearer, desk, decisions>>
----------------------------------------------------------------------------
(* Tokens.                                                                 *)

SignAccessToken(p) == bearer' = [bearer EXCEPT ![p] = TRUE]

Login(p) ==
  /\ person[p].status = "normal" /\ ~bearer[p]
  /\ SignAccessToken(p)
  /\ UNCHANGED <<person, grants, seeded, desk, decisions>>

\* A token says who has it until it expires; nothing takes it back.
ExpireAccess(p) ==
  /\ bearer[p]
  /\ bearer' = [bearer EXCEPT ![p] = FALSE]
  /\ UNCHANGED <<person, grants, seeded, desk, decisions>>
----------------------------------------------------------------------------
(* A request to /api/admin/users.                                          *)

At(d, step) == desk[d].step = step

Proceed(d, step) == desk' = [desk EXCEPT ![d].step = step]

Dismiss(d) == desk' = [desk EXCEPT ![d] = Waiting]

ParseAndValidateToken(d) ==
  /\ At(d, "none")
  /\ \E p \in {q \in People : bearer[q]}, permission \in {"user.ban", "role.assign"} :
       desk' = [desk EXCEPT ![d] = [step |-> "account", by |-> p, permission |-> permission]]
  /\ UNCHANGED <<person, grants, seeded, bearer, decisions>>

\* NewJWTAuthWithAccount.
CheckAccount(d) ==
  /\ At(d, "account")
  /\ IF person[desk[d].by].status = "normal" THEN Proceed(d, "permission") ELSE Dismiss(d)
  /\ UNCHANGED <<person, grants, seeded, bearer, decisions>>

HasPermission(p, permission) == \E r \in grants[p] : permission \in RolePermissions[r]

RequirePermission(d) ==
  /\ At(d, "permission")
  /\ IF HasPermission(desk[d].by, desk[d].permission) THEN Proceed(d, "write") ELSE Dismiss(d)
  /\ UNCHANGED <<person, grants, seeded, bearer, decisions>>

\* Mutant: the column of the account keeps the former role.
AssignGrant(d) ==
  /\ At(d, "write") /\ desk[d].permission = "role.assign"
  /\ \E p \in People, r \in Roles :
       /\ grants' = [grants EXCEPT ![p] = {r}]
       /\ assigned' = [assigned EXCEPT ![p] = r]
  /\ Dismiss(d)
  /\ UNCHANGED <<person, seeded, bearer, barred>>

\* The roles an account had are deleted.
AssignRole(d) ==
  /\ At(d, "write") /\ desk[d].permission = "role.assign"
  /\ \E p \in People, r \in Roles :
       /\ grants' = [grants EXCEPT ![p] = {r}]
       /\ person' = [person EXCEPT ![p] = [status |-> person[p].status, role |-> r]]
       /\ assigned' = [assigned EXCEPT ![p] = r]
  /\ Dismiss(d)
  /\ UNCHANGED <<seeded, bearer, barred>>

\* The account alone; what becomes of its videos and comments is in the modules about these.
SetUserBanned(d) ==
  /\ At(d, "write") /\ desk[d].permission = "user.ban"
  /\ \E p \in People, banned \in BOOLEAN :
       /\ person' = [person EXCEPT ![p] = [status |-> IF banned THEN "banned" ELSE "normal",
                                            role   |-> person[p].role]]
       /\ barred' = IF banned THEN barred \cup {p} ELSE barred \ {p}
  /\ Dismiss(d)
  /\ UNCHANGED <<grants, seeded, bearer, assigned>>

\* An invalid body, a query that fails, a timeout, or a process that stops.
DropRequest(d) ==
  /\ ~At(d, "none")
  /\ Dismiss(d)
  /\ UNCHANGED <<person, grants, seeded, bearer, decisions>>

AccessNext ==
  \/ SeedRBAC \/ EnsureAdmin
  \/ \E p \in People : Login(p) \/ ExpireAccess(p)
  \/ \E d \in Desks :
       \/ ParseAndValidateToken(d) \/ CheckAccount(d) \/ RequirePermission(d)
       \/ AssignRole(d) \/ SetUserBanned(d) \/ DropRequest(d)

AccessSpec == AccessInit /\ [][AccessNext]_accessVars
----------------------------------------------------------------------------
(* Properties.                                                             *)

AccessTypeOK ==
  /\ person \in [People -> [status : {"normal", "banned"}, role : Roles \cup {"user", "admin"}]]
  /\ grants \in [People -> SUBSET Roles]
  /\ assigned \in [People -> Roles \cup {NoDecision}]
  /\ barred \subseteq People

\* What was last decided on an account stands, the configured administrator aside: it has the
\* role it was assigned and no other, and it is banned or not, whatever processes start, read
\* the column of its role and grant anew while requests of demoted administrators still run.
DecisionsStand ==
  \A p \in People \ {Root} :
    /\ assigned[p] # NoDecision => grants[p] = {assigned[p]}
    /\ person[p].status = IF p \in barred THEN "banned" ELSE "normal"

\* Inductive: the column a starting process reads names no administrator to make anew.
AccessInv ==
  /\ AccessTypeOK /\ DecisionsStand
  /\ \A p \in People \ {Root} : assigned[p] # NoDecision => person[p].role # "admin"
=============================================================================
