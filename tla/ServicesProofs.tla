---------------------------- MODULE ServicesProofs ----------------------------
(***************************************************************************)
(* Theorems about the services beside the videos and the feed, for every   *)
(* number of accounts, requests, rows, keys and events: each rests on the  *)
(* inductive invariant of its module.                                      *)
(***************************************************************************)
EXTENDS AccessControl, Accounts, Uploads, KeyedWrites, InterestProfile,
        FiniteSetTheorems, TLAPS

----------------------------------------------------------------------------
(* AccessControl: the decisions of administrators.                         *)

LEMMA AccessInitial == AccessInit => AccessInv
<1> SUFFICES ASSUME AccessInit PROVE AccessInv
  OBVIOUS
<1>1. person \in [People -> [status : {"normal", "banned"}, role : Roles \cup {"user", "admin"}]]
  BY DEF AccessInit
<1>2. AccessTypeOK
  BY <1>1 DEF AccessInit, AccessTypeOK
<1>3. \A p \in People : person[p].status = "normal" /\ assigned[p] = NoDecision
  BY DEF AccessInit
<1> QED BY <1>2, <1>3 DEF AccessInv, DecisionsStand, AccessInit

\* A process that starts grants nothing to an account whose role was assigned.
LEMMA InvSeed == AccessInv /\ SeedRBAC => AccessInv'
<1> SUFFICES ASSUME AccessInv, SeedRBAC PROVE AccessInv'
  OBVIOUS
<1>0. AccessTypeOK /\ UNCHANGED <<person, assigned, barred>>
  BY DEF AccessInv, SeedRBAC, decisions
<1>1. grants' \in [People -> SUBSET Roles]
  BY <1>0 DEF SeedRBAC, AccessTypeOK, Roles
<1>2. \A p \in People \ {Root} : assigned[p] # NoDecision => grants'[p] = grants[p]
  BY DEF SeedRBAC, AccessInv
<1>3. AccessTypeOK'
  BY <1>0, <1>1 DEF AccessTypeOK
<1> QED BY <1>0, <1>2, <1>3 DEF AccessInv, DecisionsStand

\* The configured administrator is the only account that is made one again.
LEMMA InvEnsure == AccessInv /\ EnsureAdmin => AccessInv'
<1> SUFFICES ASSUME AccessInv, EnsureAdmin PROVE AccessInv'
  OBVIOUS
<1>0. AccessTypeOK /\ UNCHANGED <<assigned, barred>>
  BY DEF AccessInv, EnsureAdmin, decisions
<1>1. AccessTypeOK'
  BY <1>0 DEF EnsureAdmin, AccessTypeOK, Roles
<1>2. \A p \in People \ {Root} : person'[p] = person[p] /\ grants'[p] = grants[p]
  BY <1>0 DEF EnsureAdmin, AccessTypeOK
<1> QED BY <1>0, <1>1, <1>2 DEF AccessInv, DecisionsStand

\* The column, the rows and the decision change together.
LEMMA InvAssign ==
  ASSUME AccessInv, NEW d \in Desks, AssignRole(d)
  PROVE  AccessInv'
<1>0. AccessTypeOK /\ barred' = barred
  BY DEF AccessInv, AssignRole
<1>1. PICK q \in People, r \in Roles :
        /\ grants' = [grants EXCEPT ![q] = {r}]
        /\ person' = [person EXCEPT ![q] = [status |-> person[q].status, role |-> r]]
        /\ assigned' = [assigned EXCEPT ![q] = r]
  BY DEF AssignRole
<1>2. AccessTypeOK'
  BY <1>0, <1>1 DEF AccessTypeOK
<1>3. r # "admin"
  BY DEF Roles
<1>4. /\ grants'[q] = {r} /\ assigned'[q] = r
      /\ person'[q].role = r /\ person'[q].status = person[q].status
  BY <1>0, <1>1 DEF AccessTypeOK
<1>5. \A p \in People \ {q} :
        grants'[p] = grants[p] /\ assigned'[p] = assigned[p] /\ person'[p] = person[p]
  BY <1>0, <1>1 DEF AccessTypeOK
<1>6. DecisionsStand'
  <2> SUFFICES ASSUME NEW p \in People \ {Root}
               PROVE  /\ assigned'[p] # NoDecision => grants'[p] = {assigned'[p]}
                      /\ person'[p].status = IF p \in barred' THEN "banned" ELSE "normal"
    BY DEF DecisionsStand
  <2>1. CASE p = q
    BY <1>0, <1>4, <2>1 DEF AccessInv, DecisionsStand
  <2>2. CASE p # q
    BY <1>0, <1>5, <2>2 DEF AccessInv, DecisionsStand
  <2> QED BY <2>1, <2>2
<1>7. \A p \in People \ {Root} : assigned'[p] # NoDecision => person'[p].role # "admin"
  BY <1>3, <1>4, <1>5 DEF AccessInv
<1> QED BY <1>2, <1>6, <1>7 DEF AccessInv

LEMMA InvBan ==
  ASSUME AccessInv, NEW d \in Desks, SetUserBanned(d)
  PROVE  AccessInv'
<1>0. AccessTypeOK /\ grants' = grants /\ assigned' = assigned
  BY DEF AccessInv, SetUserBanned
<1>1. PICK q \in People, banned \in BOOLEAN :
        /\ person' = [person EXCEPT ![q] = [status |-> IF banned THEN "banned" ELSE "normal",
                                            role   |-> person[q].role]]
        /\ barred' = IF banned THEN barred \cup {q} ELSE barred \ {q}
  BY DEF SetUserBanned
<1>2. /\ person[q].role \in Roles \cup {"user", "admin"}
      /\ (IF banned THEN "banned" ELSE "normal") \in {"normal", "banned"}
  BY <1>0 DEF AccessTypeOK
<1>3. person' \in [People -> [status : {"normal", "banned"}, role : Roles \cup {"user", "admin"}]]
  BY <1>0, <1>1, <1>2 DEF AccessTypeOK
<1>4. AccessTypeOK'
  BY <1>0, <1>1, <1>3 DEF AccessTypeOK
<1>5. \A p \in People : person'[p].role = person[p].role
  BY <1>0, <1>1 DEF AccessTypeOK
<1>6. person'[q].status = IF q \in barred' THEN "banned" ELSE "normal"
  BY <1>0, <1>1 DEF AccessTypeOK
<1>7. \A p \in People \ {q} : person'[p] = person[p] /\ (p \in barred' <=> p \in barred)
  BY <1>0, <1>1 DEF AccessTypeOK
<1>8. DecisionsStand'
  BY <1>0, <1>6, <1>7 DEF AccessInv, DecisionsStand
<1> QED BY <1>0, <1>4, <1>5, <1>8 DEF AccessInv

\* What the other steps leave alone.
LEMMA InvStutters == AccessInv /\ UNCHANGED <<person, grants, decisions>> => AccessInv'
BY DEF AccessInv, AccessTypeOK, DecisionsStand, decisions

LEMMA AccessStep == AccessInv /\ [AccessNext]_accessVars => AccessInv'
<1> SUFFICES ASSUME AccessInv, [AccessNext]_accessVars PROVE AccessInv'
  OBVIOUS
<1>1. CASE SeedRBAC BY <1>1, InvSeed
<1>2. CASE EnsureAdmin BY <1>2, InvEnsure
<1>3. ASSUME NEW p \in People, Login(p) \/ ExpireAccess(p) PROVE AccessInv'
  BY <1>3, InvStutters DEF Login, ExpireAccess
<1>4. ASSUME NEW d \in Desks, AssignRole(d) PROVE AccessInv'
  BY <1>4, InvAssign
<1>5. ASSUME NEW d \in Desks, SetUserBanned(d) PROVE AccessInv'
  BY <1>5, InvBan
<1>6. ASSUME NEW d \in Desks,
             ParseAndValidateToken(d) \/ CheckAccount(d) \/ RequirePermission(d) \/ DropRequest(d)
      PROVE  AccessInv'
  BY <1>6, InvStutters DEF ParseAndValidateToken, CheckAccount, RequirePermission, DropRequest
<1>7. CASE UNCHANGED accessVars
  BY <1>7, InvStutters DEF accessVars, decisions
<1> QED BY <1>1, <1>2, <1>3, <1>4, <1>5, <1>6, <1>7 DEF AccessNext

\* The inductive invariant, for every number of accounts and requests.
THEOREM AccessHolds == AccessSpec => []AccessInv
BY AccessInitial, AccessStep, PTL DEF AccessSpec

\* The role that was last assigned and the last ban or pardon stand, whatever starts or runs
\* meanwhile.
THEOREM DecisionsHold == AccessSpec => []DecisionsStand
<1>1. AccessInv => DecisionsStand
  BY DEF AccessInv
<1> QED BY <1>1, AccessHolds, PTL

----------------------------------------------------------------------------
(* Accounts: links and logins.                                             *)

SpentMark == [times : Nat, late : BOOLEAN]

\* What issuing a link does to the links before it.
LEMMA SaveTokens ==
  ASSUME AccountsTypeOK, Len(spent) = Len(tokens),
         NEW user \in Emails, NEW purpose \in Purposes, NEW subject \in Subjects \cup {NoSubject},
         SaveActionToken(user, purpose, subject)
  PROVE  LET n == Len(tokens) + 1 IN
         /\ tokens' \in Seq(Token) /\ spent' \in Seq(SpentMark)
         /\ n \in Nat /\ n \notin Issued /\ Issued' = Issued \cup {n} /\ Len(spent') = Len(tokens')
         /\ \A i \in Issued : i < n
         /\ \A i \in Issued :
              /\ tokens'[i] \in Token /\ tokens'[i].user = tokens[i].user
              /\ tokens'[i].purpose = tokens[i].purpose /\ tokens'[i].subject = tokens[i].subject
              /\ tokens'[i].state = IF tokens[i].user = user /\ tokens[i].purpose = purpose
                                    THEN "deleted" ELSE tokens[i].state
              /\ spent'[i] = spent[i]
         /\ tokens'[n] = [user |-> user, purpose |-> purpose, subject |-> subject, state |-> "unused"]
         /\ spent'[n] = [times |-> 0, late |-> FALSE]
<1> DEFINE n == Len(tokens) + 1
           Old(i) == IF tokens[i].user = user /\ tokens[i].purpose = purpose
                     THEN [tokens[i] EXCEPT !.state = "deleted"] ELSE tokens[i]
           olds == [i \in Issued |-> Old(i)]
           new  == [user |-> user, purpose |-> purpose, subject |-> subject, state |-> "unused"]
           mark == [times |-> 0, late |-> FALSE]
<1>1. /\ tokens \in Seq(Token) /\ Len(tokens) \in Nat
      /\ spent \in Seq(SpentMark) /\ \A i \in Issued : tokens[i] \in Token
  BY DEF AccountsTypeOK, SpentMark, Issued
<1>2. \A i \in Issued : Old(i) \in Token /\ Old(i).user = tokens[i].user
                        /\ Old(i).purpose = tokens[i].purpose /\ Old(i).subject = tokens[i].subject
                        /\ Old(i).state = IF tokens[i].user = user /\ tokens[i].purpose = purpose
                                          THEN "deleted" ELSE tokens[i].state
  BY <1>1 DEF Token
<1>3. olds \in Seq(Token) /\ Len(olds) = Len(tokens)
  <2>1. olds \in [1 .. Len(tokens) -> Token]
    BY <1>2 DEF Issued
  <2>2. olds \in Seq(Token)
    BY <1>1, <2>1
  <2>3. DOMAIN olds = 1 .. Len(tokens)
    BY <2>1
  <2> QED BY <1>1, <2>2, <2>3
<1>4. new \in Token /\ mark \in SpentMark
  BY DEF Token, SpentMark
<1>5. tokens' = Append(olds, new) /\ spent' = Append(spent, mark)
  BY DEF SaveActionToken
<1> HIDE DEF new, mark, olds
<1>6. /\ tokens' \in Seq(Token) /\ Len(tokens') = n /\ tokens'[n] = new
      /\ \A i \in 1 .. Len(tokens) : tokens'[i] = olds[i]
  BY <1>1, <1>3, <1>4, <1>5
<1>7. /\ spent' \in Seq(SpentMark) /\ Len(spent') = n /\ spent'[n] = mark
      /\ \A i \in 1 .. Len(tokens) : spent'[i] = spent[i]
  BY <1>1, <1>4, <1>5
<1>8. \A i \in Issued : olds[i] = Old(i)
  BY DEF olds
<1>9. Issued' = Issued \cup {n} /\ n \notin Issued /\ \A i \in Issued : i < n
  BY <1>1, <1>6 DEF Issued
<1>10. ASSUME NEW i \in Issued
       PROVE  /\ tokens'[i] = Old(i) /\ spent'[i] = spent[i] /\ tokens'[i] \in Token
  BY <1>2, <1>6, <1>7, <1>8 DEF Issued
<1> HIDE DEF Old
<1>11. Len(spent') = Len(tokens') /\ n \in Nat
  BY <1>1, <1>6, <1>7
<1> QED BY <1>2, <1>6, <1>7, <1>9, <1>10, <1>11 DEF new, mark

ActionType == [Browsers -> {Idle} \cup LinkStep \cup LoginStep]
AccountType == [Emails -> {NoAccount} \cup [password : Nat, verified : BOOLEAN]]

LEMMA AccountsInitial == AccountsInit => AccountsInv
<1> SUFFICES ASSUME AccountsInit PROVE AccountsInv
  OBVIOUS
<1>1. Issued = {} /\ tokens = <<>> /\ spent = <<>>
  BY DEF AccountsInit, Issued
<1>2. AccountsTypeOK
  BY <1>1 DEF AccountsInit, AccountsTypeOK
<1>3. LinksSpentOnce /\ OpenLinks /\ SessionsFollowIdentity
  BY <1>1 DEF LinksSpentOnce, OpenLinks, SessionsFollowIdentity
<1>4. PasswordsByLink
  BY DEF AccountsInit, PasswordsByLink
<1>5. \A b \in Browsers : LinkInHand(b) /\ LoginInHand(b)
  BY DEF AccountsInit, LinkInHand, LoginInHand, Doing
<1>6. \A s \in Subjects : identity[s] = NoAccount
  BY DEF AccountsInit
<1> QED BY <1>1, <1>2, <1>3, <1>4, <1>5, <1>6 DEF AccountsInv

\* A step that issues and spends no link: accounts stay registered, a subject that is linked stays
\* so, and a request that moves knows what its new step needs.
LEMMA LinksRest ==
  ASSUME AccountsInv, UNCHANGED <<tokens, spent>>,
         account' \in AccountType, identity' \in [Subjects -> Emails \cup {NoAccount}], action' \in ActionType,
         \A e \in Emails : account[e] # NoAccount => account'[e] # NoAccount,
         \A s \in Subjects : \/ identity'[s] = identity[s]
                             \/ identity[s] = NoAccount /\ Registered(identity'[s]),
         PasswordsByLink',
         \A b \in Browsers : action'[b] = action[b] \/ (LinkInHand(b)' /\ LoginInHand(b)')
  PROVE  AccountsInv'
<1>0. \A e : Registered(e) => Registered(e)'
  BY DEF Registered
<1>1. AccountsTypeOK'
  BY DEF AccountsInv, AccountsTypeOK, AccountType, ActionType
<1>2. Issued' = Issued
  BY DEF Issued
<1>3. (LinksSpentOnce /\ OpenLinks)'
  BY <1>2 DEF AccountsInv, LinksSpentOnce, OpenLinks
<1>4. \A i \in Issued :
        /\ Registered(tokens[i].user)
        /\ tokens[i].purpose = "oauth_session" =>
             tokens[i].subject \in Subjects /\ tokens[i].user = identity[tokens[i].subject]
  BY DEF AccountsInv, SessionsFollowIdentity
<1>5. \A s \in Subjects : identity[s] # NoAccount => identity'[s] = identity[s]
  OBVIOUS
<1>6. SessionsFollowIdentity'
  <2>1. \A i \in Issued : tokens[i].user # NoAccount
    BY <1>4, AccountsAssumption DEF Registered
  <2> QED BY <1>2, <1>4, <1>5, <2>1 DEF SessionsFollowIdentity
<1>7. (\A i \in Issued : Registered(tokens[i].user))'
  BY <1>2, <1>4 DEF Registered
<1>8. (\A s \in Subjects : identity[s] # NoAccount => Registered(identity[s]))'
  BY DEF AccountsInv, Registered
<1>9. ASSUME NEW b \in Browsers PROVE LinkInHand(b)' /\ LoginInHand(b)'
  <2>1. CASE action'[b] = action[b]
    <3>1. LinkInHand(b) /\ LoginInHand(b)
      BY DEF AccountsInv
    <3>2. LinkInHand(b)'
      BY <1>2, <2>1, <3>1 DEF LinkInHand
    <3>3. Doing(b, "issue") => action[b].subject \in Subjects
      BY DEF Doing, AccountsInv, AccountsTypeOK, LinkStep, LoginStep, Purposes
    <3>4. Doing(b, "issue") => Registered(action[b].user) /\ identity[action[b].subject] = action[b].user
      BY <3>1 DEF LoginInHand
    <3>5. Doing(b, "issue") => identity'[action[b].subject] = action[b].user
      BY <3>3, <3>4, <1>5, AccountsAssumption DEF Registered
    <3>6. LoginInHand(b)'
      BY <1>0, <2>1, <3>1, <3>5 DEF LoginInHand, Doing
    <3> QED BY <3>2, <3>6
  <2> QED BY <2>1
<1> QED BY <1>1, <1>2, <1>3, <1>4, <1>6, <1>7, <1>8, <1>9 DEF AccountsInv

\* The steps of links that leave the tokens alone.
LEMMA LinkRequests ==
  ASSUME AccountsInv, NEW b \in Browsers,
         \/ \E i \in Issued : TakeToken(b, i)
         \/ VerifyEmail(b) \/ ResetPassword(b) \/ ExchangeOAuthSession(b) \/ StopAction(b)
  PROVE  AccountsInv'
<1>0. /\ AccountsTypeOK /\ account \in AccountType /\ action \in ActionType
      /\ identity \in [Subjects -> Emails \cup {NoAccount}] /\ PasswordsByLink
  BY DEF AccountsInv, AccountsTypeOK, AccountType, ActionType
<1>1. ASSUME NEW i \in Issued, TakeToken(b, i) PROVE AccountsInv'
  <2>1. i \in Nat /\ Issued' = Issued
    BY <1>0, <1>1 DEF Issued, AccountsTypeOK, TakeToken
  <2>2. [step |-> "spend", token |-> i] \in LinkStep
    BY <2>1 DEF LinkStep
  <2>3. action' \in ActionType /\ action'[b] = [step |-> "spend", token |-> i]
        /\ \A c \in Browsers \ {b} : action'[c] = action[c]
    BY <1>0, <1>1, <2>2 DEF ActionType, TakeToken
  <2>4. LinkInHand(b)' /\ LoginInHand(b)'
    BY <1>1, <2>1, <2>3 DEF LinkInHand, LoginInHand, Doing, TakeToken
  <2>5. PasswordsByLink'
    BY <1>0, <1>1, <2>1 DEF PasswordsByLink, TakeToken
  <2> QED BY <1>0, <1>1, <2>3, <2>4, <2>5, LinksRest DEF TakeToken
<1>2. ASSUME action' = [action EXCEPT ![b] = Idle]
      PROVE  /\ action' \in ActionType /\ action'[b] = Idle
             /\ \A c \in Browsers : action'[c] = action[c] \/ (LinkInHand(c)' /\ LoginInHand(c)')
  <2>1. action' \in ActionType /\ action'[b] = Idle /\ \A c \in Browsers \ {b} : action'[c] = action[c]
    BY <1>0, <1>2 DEF ActionType
  <2> QED BY <2>1 DEF LinkInHand, LoginInHand, Doing
<1>3. CASE ExchangeOAuthSession(b) \/ StopAction(b)
  <2>1. UNCHANGED <<account, identity, tokens, spent>> /\ action' = [action EXCEPT ![b] = Idle]
    BY <1>3 DEF ExchangeOAuthSession, StopAction
  <2>2. PasswordsByLink'
    BY <1>0, <2>1 DEF PasswordsByLink, Issued
  <2> QED BY <1>0, <1>2, <2>1, <2>2, LinksRest
<1>4. ASSUME NEW purpose \in {"verify_email", "reset_password"}, Doing(b, purpose)
      PROVE  /\ action[b].token \in Issued /\ spent[action[b].token].times = 1
             /\ tokens[action[b].token].purpose = purpose /\ Registered(UserOf(b))
  <2>1. LinkInHand(b)
    BY DEF AccountsInv
  <2> QED BY <1>4, <2>1 DEF LinkInHand, Doing, UserOf, Purposes, AccountsInv
<1>5. CASE VerifyEmail(b)
  <2>1. Doing(b, "verify_email") /\ UNCHANGED <<identity, tokens, spent>>
        /\ action' = [action EXCEPT ![b] = Idle]
    BY <1>5 DEF VerifyEmail
  <2>2. Registered(UserOf(b))
    BY <1>4, <2>1
  <2>3. account[UserOf(b)] \in [password : Nat, verified : BOOLEAN] /\ UserOf(b) \in Emails
    BY <1>0, <2>2 DEF Registered, AccountType
  <2>4. PICK a \in [password : Nat, verified : BOOLEAN] :
          a.password = account[UserOf(b)].password /\ account' = [account EXCEPT ![UserOf(b)] = a]
    BY <1>5, <2>3 DEF VerifyEmail
  <2>5. account' \in AccountType /\ \A e \in Emails : account[e] # NoAccount => account'[e] # NoAccount
    BY <1>0, <2>3, <2>4, AccountsAssumption DEF AccountType
  <2>6. \A e \in Emails : account'[e] # NoAccount => account[e] # NoAccount /\ account'[e].password = account[e].password
    BY <1>0, <2>2, <2>3, <2>4 DEF AccountType, Registered
  <2>7. PasswordsByLink'
    BY <1>0, <2>1, <2>6 DEF PasswordsByLink, Issued
  <2> QED BY <1>0, <1>2, <2>1, <2>5, <2>7, LinksRest
<1>6. CASE ResetPassword(b)
  <2> DEFINE t == action[b].token
  <2>1. Doing(b, "reset_password") /\ UNCHANGED <<identity, tokens, spent>>
        /\ action' = [action EXCEPT ![b] = Idle]
    BY <1>6 DEF ResetPassword
  <2>2. /\ t \in Issued /\ spent[t].times = 1 /\ tokens[t].purpose = "reset_password"
        /\ Registered(UserOf(b)) /\ tokens[t].user = UserOf(b)
    BY <1>4, <2>1 DEF UserOf
  <2>3. /\ account[UserOf(b)] \in [password : Nat, verified : BOOLEAN] /\ UserOf(b) \in Emails
        /\ t \in Nat
    BY <1>0, <2>2 DEF Registered, AccountType, Issued, AccountsTypeOK
  <2>4. PICK a \in [password : Nat, verified : BOOLEAN] :
          a.password = t /\ account' = [account EXCEPT ![UserOf(b)] = a]
    BY <1>6, <2>3 DEF ResetPassword
  <2>5. account' \in AccountType /\ \A e \in Emails : account[e] # NoAccount => account'[e] # NoAccount
    BY <1>0, <2>3, <2>4, AccountsAssumption DEF AccountType
  <2>6. account'[UserOf(b)].password = t /\ \A e \in Emails \ {UserOf(b)} : account'[e] = account[e]
    BY <1>0, <2>3, <2>4 DEF AccountType
  <2>7. PasswordsByLink'
    BY <1>0, <2>1, <2>2, <2>6 DEF PasswordsByLink, Issued
  <2> QED BY <1>0, <1>2, <2>1, <2>5, <2>7, LinksRest
<1> QED BY <1>1, <1>3, <1>5, <1>6

\* A new account has no password.
LEMMA AccountCreated ==
  ASSUME AccountsInv, NEW e \in Emails, account[e] = NoAccount,
         account' = [account EXCEPT ![e] = NewAccount], UNCHANGED <<tokens, spent>>
  PROVE  /\ account' \in AccountType /\ account'[e] # NoAccount
         /\ \A f \in Emails : account[f] # NoAccount => account'[f] # NoAccount
         /\ PasswordsByLink'
<1>1. account \in AccountType /\ PasswordsByLink
  BY DEF AccountsInv, AccountsTypeOK, AccountType
<1>2. NewAccount \in [password : Nat, verified : BOOLEAN] /\ NewAccount.password = 0
  BY DEF NewAccount
<1>3. account' \in AccountType /\ account'[e] = NewAccount /\ \A f \in Emails \ {e} : account'[f] = account[f]
  BY <1>1, <1>2 DEF AccountType
<1>4. NewAccount # NoAccount
  BY <1>2, AccountsAssumption
<1>5. PasswordsByLink'
  BY <1>1, <1>2, <1>3 DEF PasswordsByLink, Issued
<1> QED BY <1>3, <1>4, <1>5

LEMMA InvRegister ==
  ASSUME AccountsInv, NEW e \in Emails, Register(e)
  PROVE  AccountsInv'
<1>1. /\ account[e] = NoAccount /\ account' = [account EXCEPT ![e] = NewAccount]
      /\ UNCHANGED <<identity, tokens, action, spent>>
  BY DEF Register
<1>2. identity \in [Subjects -> Emails \cup {NoAccount}] /\ action \in ActionType
  BY DEF AccountsInv, AccountsTypeOK, ActionType
<1> QED BY <1>1, <1>2, AccountCreated, LinksRest

\* What a login that has begun holds.
LEMMA LoginHolds ==
  ASSUME AccountsInv, NEW b \in Browsers, NEW step \in LoginSteps, Doing(b, step)
  PROVE  /\ action[b] \in LoginStep
         /\ action[b].subject \in Subjects /\ action[b].email \in Emails
         /\ action[b].user \in Emails \cup {NoAccount} /\ LoginInHand(b)
<1>1. action[b] \in LinkStep \cup LoginStep /\ action[b].step = step
  BY DEF Doing, AccountsInv, AccountsTypeOK
<1>2. action[b] \in LoginStep
  BY <1>1 DEF LoginSteps, LinkStep, Purposes
<1> QED BY <1>2 DEF LoginStep, AccountsInv

\* Where GoTo leads.
LEMMA GoToMoves ==
  ASSUME AccountsInv, NEW b \in Browsers, action[b] \in LoginStep,
         NEW step \in LoginSteps, NEW user \in Emails \cup {NoAccount}, GoTo(b, step, user)
  PROVE  /\ action' \in ActionType
         /\ action'[b].step = step /\ action'[b].user = user /\ action'[b].subject = action[b].subject
         /\ \A c \in Browsers \ {b} : action'[c] = action[c]
<1>1. action \in ActionType
  BY DEF AccountsInv, AccountsTypeOK, ActionType
<1>2. PICK a \in LoginStep : /\ a.step = step /\ a.user = user /\ a.subject = action[b].subject
                             /\ action' = [action EXCEPT ![b] = a]
  <2> DEFINE a == [action[b] EXCEPT !.step = step, !.user = user]
  <2>1. a \in LoginStep /\ a.step = step /\ a.user = user /\ a.subject = action[b].subject
    BY DEF LoginStep
  <2>2. action' = [action EXCEPT ![b] = a]
    BY <1>1 DEF GoTo, ActionType
  <2> QED BY <2>1, <2>2
<1> QED BY <1>1, <1>2 DEF ActionType

\* The steps of a login that only read, or create an account.
LEMMA InvLogin ==
  ASSUME AccountsInv, NEW b \in Browsers,
         Callback(b) \/ FindIdentity(b) \/ FindAccount(b) \/ CreateAccount(b)
  PROVE  AccountsInv'
<1>0. /\ AccountsTypeOK /\ account \in AccountType /\ action \in ActionType
      /\ identity \in [Subjects -> Emails \cup {NoAccount}] /\ PasswordsByLink
  BY DEF AccountsInv, AccountsTypeOK, AccountType, ActionType
<1>1. ASSUME action'[b] = Idle \/ action'[b].step \in {"identity", "account", "create"}
      PROVE  LinkInHand(b)' /\ LoginInHand(b)'
  BY <1>1 DEF LinkInHand, LoginInHand, Doing, Purposes
<1>3. CASE Callback(b)
  <2>1. PICK s \in Subjects, e \in Emails :
          action' = [action EXCEPT ![b] = [step |-> "identity", subject |-> s, email |-> e, user |-> NoAccount]]
    BY <1>3 DEF Callback
  <2>2. [step |-> "identity", subject |-> s, email |-> e, user |-> NoAccount] \in LoginStep
    BY DEF LoginStep, LoginSteps
  <2>3. action' \in ActionType /\ action'[b].step = "identity" /\ \A c \in Browsers \ {b} : action'[c] = action[c]
    BY <1>0, <2>1, <2>2 DEF ActionType
  <2>4. PasswordsByLink'
    BY <1>0, <1>3 DEF Callback, PasswordsByLink, Issued
  <2> QED BY <1>0, <1>1, <1>3, <2>3, <2>4, LinksRest DEF Callback
<1>4. CASE FindIdentity(b)
  <2>1. action[b] \in LoginStep /\ action[b].subject \in Subjects
    BY <1>4, LoginHolds DEF FindIdentity, LoginSteps
  <2>2. PasswordsByLink'
    BY <1>0, <1>4 DEF FindIdentity, PasswordsByLink, Issued
  <2>3. CASE identity[action[b].subject] # NoAccount
    <3> DEFINE user == identity[action[b].subject]
    <3>1. user \in Emails /\ GoTo(b, "issue", user) /\ Registered(user)
      BY <1>0, <1>4, <2>1, <2>3 DEF FindIdentity, AccountsInv
    <3>2. /\ action' \in ActionType /\ action'[b].step = "issue" /\ action'[b].user = user
          /\ action'[b].subject = action[b].subject
          /\ \A c \in Browsers \ {b} : action'[c] = action[c]
      BY <2>1, <3>1, GoToMoves DEF LoginSteps
    <3>3. LinkInHand(b)' /\ LoginInHand(b)'
      BY <1>4, <3>1, <3>2 DEF FindIdentity, LinkInHand, LoginInHand, Doing, Purposes, Registered
    <3> QED BY <1>0, <1>4, <2>2, <3>2, <3>3, LinksRest DEF FindIdentity
  <2>4. CASE identity[action[b].subject] = NoAccount
    <3>1. /\ action' \in ActionType /\ action'[b].step = "account"
          /\ \A c \in Browsers \ {b} : action'[c] = action[c]
      BY <1>4, <2>1, <2>4, GoToMoves DEF FindIdentity, LoginSteps
    <3> QED BY <1>0, <1>1, <1>4, <2>2, <3>1, LinksRest DEF FindIdentity
  <2> QED BY <2>3, <2>4
<1>5. CASE FindAccount(b)
  <2>1. action[b] \in LoginStep /\ action[b].email \in Emails
    BY <1>5, LoginHolds DEF FindAccount, LoginSteps
  <2>2. PasswordsByLink'
    BY <1>0, <1>5 DEF FindAccount, PasswordsByLink, Issued
  <2>3. CASE account[action[b].email] # NoAccount
    <3> DEFINE user == action[b].email
    <3>1. user \in Emails /\ GoTo(b, "mark", user) /\ Registered(user)
      BY <1>5, <2>1, <2>3 DEF FindAccount, Registered
    <3>2. /\ action' \in ActionType /\ action'[b].step = "mark" /\ action'[b].user = user
          /\ \A c \in Browsers \ {b} : action'[c] = action[c]
      BY <2>1, <3>1, GoToMoves DEF LoginSteps
    <3>3. LinkInHand(b)' /\ LoginInHand(b)'
      BY <1>5, <3>1, <3>2 DEF FindAccount, LinkInHand, LoginInHand, Doing, Purposes, Registered
    <3> QED BY <1>0, <1>5, <2>2, <3>2, <3>3, LinksRest DEF FindAccount
  <2>4. CASE account[action[b].email] = NoAccount
    <3>1. /\ action' \in ActionType /\ action'[b].step = "create"
          /\ \A c \in Browsers \ {b} : action'[c] = action[c]
      BY <1>5, <2>1, <2>4, GoToMoves DEF FindAccount, LoginSteps
    <3> QED BY <1>0, <1>1, <1>5, <2>2, <3>1, LinksRest DEF FindAccount
  <2> QED BY <2>3, <2>4
<1>6. CASE CreateAccount(b)
  <2>1. action[b] \in LoginStep /\ action[b].email \in Emails /\ UNCHANGED <<identity, tokens, spent>>
    BY <1>6, LoginHolds DEF CreateAccount, LoginSteps
  <2>2. CASE account[action[b].email] = NoAccount
    <3> DEFINE user == action[b].email
    <3>1. account' = [account EXCEPT ![user] = NewAccount] /\ GoTo(b, "mark", user)
      BY <1>6, <2>2 DEF CreateAccount
    <3>2. /\ account' \in AccountType /\ account'[user] # NoAccount /\ PasswordsByLink'
          /\ \A f \in Emails : account[f] # NoAccount => account'[f] # NoAccount
      BY <2>1, <2>2, <3>1, AccountCreated
    <3>3. /\ action' \in ActionType /\ action'[b].step = "mark" /\ action'[b].user = user
          /\ \A c \in Browsers \ {b} : action'[c] = action[c]
      BY <2>1, <3>1, GoToMoves DEF LoginSteps
    <3>4. LinkInHand(b)' /\ LoginInHand(b)'
      BY <2>1, <3>2, <3>3 DEF LinkInHand, LoginInHand, Doing, Purposes, Registered
    <3> QED BY <1>0, <2>1, <3>2, <3>3, <3>4, LinksRest
  <2>3. CASE account[action[b].email] # NoAccount
    <3>1. action' = [action EXCEPT ![b] = Idle] /\ account' = account
      BY <1>6, <2>3 DEF CreateAccount
    <3>2. action' \in ActionType /\ action'[b] = Idle /\ \A c \in Browsers \ {b} : action'[c] = action[c]
      BY <1>0, <3>1 DEF ActionType
    <3>3. PasswordsByLink'
      BY <1>0, <2>1, <3>1 DEF PasswordsByLink, Issued
    <3> QED BY <1>0, <1>1, <2>1, <3>1, <3>2, <3>3, LinksRest
  <2> QED BY <2>2, <2>3
<1> QED BY <1>3, <1>4, <1>5, <1>6

\* The steps that mark the account and link the subject.
LEMMA InvLink ==
  ASSUME AccountsInv, NEW b \in Browsers, MarkVerified(b) \/ LinkIdentity(b)
  PROVE  AccountsInv'
<1>0. /\ AccountsTypeOK /\ account \in AccountType /\ action \in ActionType
      /\ identity \in [Subjects -> Emails \cup {NoAccount}] /\ PasswordsByLink
  BY DEF AccountsInv, AccountsTypeOK, AccountType, ActionType
<1>1. CASE MarkVerified(b)
  <2> DEFINE user == action[b].user
  <2>1. Doing(b, "mark") /\ action[b] \in LoginStep /\ Registered(user)
    BY <1>1, LoginHolds DEF MarkVerified, LoginSteps, LoginInHand
  <2>2. account[user] \in [password : Nat, verified : BOOLEAN] /\ user \in Emails
    BY <1>0, <2>1 DEF Registered, AccountType
  <2>3. PICK a \in [password : Nat, verified : BOOLEAN] :
          a.password = account[user].password /\ account' = [account EXCEPT ![user] = a]
    BY <1>1, <2>2 DEF MarkVerified
  <2>4. account' \in AccountType /\ \A e \in Emails : account[e] # NoAccount => account'[e] # NoAccount
    BY <1>0, <2>2, <2>3, AccountsAssumption DEF AccountType
  <2>5. \A e \in Emails : account'[e] # NoAccount => account[e] # NoAccount /\ account'[e].password = account[e].password
    BY <1>0, <2>1, <2>2, <2>3 DEF AccountType, Registered
  <2>6. PasswordsByLink'
    BY <1>0, <1>1, <2>5 DEF PasswordsByLink, Issued, MarkVerified
  <2>7. /\ action' \in ActionType /\ action'[b].step = "link" /\ action'[b].user = user
        /\ \A c \in Browsers \ {b} : action'[c] = action[c]
    BY <1>1, <2>1, <2>2, GoToMoves DEF MarkVerified, LoginSteps
  <2>8. LinkInHand(b)' /\ LoginInHand(b)'
    BY <2>1, <2>2, <2>4, <2>7 DEF LinkInHand, LoginInHand, Doing, Purposes, Registered
  <2> QED BY <1>0, <1>1, <2>4, <2>6, <2>7, <2>8, LinksRest DEF MarkVerified
<1>2. CASE LinkIdentity(b)
  <2> DEFINE s == action[b].subject
  <2>1. /\ Doing(b, "link") /\ action[b] \in LoginStep /\ s \in Subjects
        /\ Registered(action[b].user) /\ UNCHANGED <<account, tokens, spent>>
    BY <1>2, LoginHolds DEF LinkIdentity, LoginSteps, LoginInHand
  <2>2. PasswordsByLink'
    BY <1>0, <2>1 DEF PasswordsByLink, Issued
  <2>3. PICK user \in Emails :
          /\ Registered(user) /\ GoTo(b, "issue", user)
          /\ identity'[s] = user /\ identity' \in [Subjects -> Emails \cup {NoAccount}]
          /\ \A r \in Subjects : \/ identity'[r] = identity[r]
                                 \/ identity[r] = NoAccount /\ Registered(identity'[r])
    <3>1. CASE identity[s] = NoAccount
      <4>1. identity' = [identity EXCEPT ![s] = action[b].user] /\ GoTo(b, "issue", action[b].user)
        BY <1>2, <3>1 DEF LinkIdentity, Link
      <4> QED BY <1>0, <2>1, <3>1, <4>1 DEF Registered
    <3>2. CASE identity[s] # NoAccount
      <4>1. identity' = identity /\ GoTo(b, "issue", identity[s])
        BY <1>2, <3>2 DEF LinkIdentity
      <4>2. Registered(identity[s]) /\ identity[s] \in Emails
        BY <2>1, <3>2 DEF AccountsInv, Registered
      <4> QED BY <1>0, <4>1, <4>2
    <3> QED BY <3>1, <3>2
  <2>4. /\ action' \in ActionType /\ action'[b].step = "issue" /\ action'[b].user = user
        /\ action'[b].subject = s /\ \A c \in Browsers \ {b} : action'[c] = action[c]
    BY <2>1, <2>3, GoToMoves DEF LoginSteps
  <2>5. LinkInHand(b)' /\ LoginInHand(b)'
    BY <2>1, <2>3, <2>4 DEF LinkInHand, LoginInHand, Doing, Purposes, Registered
  <2> QED BY <1>0, <2>1, <2>2, <2>3, <2>4, <2>5, LinksRest
<1> QED BY <1>1, <1>2

\* A link whose state is written is the same link.
LEMMA LinkMarked ==
  ASSUME AccountsInv, NEW i \in Issued, NEW st \in {"unused", "expired", "used", "deleted"},
         tokens' = [tokens EXCEPT ![i].state = st]
  PROVE  /\ tokens' \in Seq(Token) /\ Issued' = Issued /\ Len(tokens') = Len(tokens)
         /\ tokens'[i].state = st
         /\ \A j \in Issued : /\ tokens'[j].user = tokens[j].user /\ tokens'[j].purpose = tokens[j].purpose
                              /\ tokens'[j].subject = tokens[j].subject
                              /\ j # i => tokens'[j].state = tokens[j].state
<1>1. tokens \in Seq(Token) /\ i \in 1 .. Len(tokens)
  BY DEF AccountsInv, AccountsTypeOK, Issued
<1>2. PICK t \in Token : /\ t.user = tokens[i].user /\ t.purpose = tokens[i].purpose
                         /\ t.subject = tokens[i].subject /\ t.state = st
                         /\ tokens' = [tokens EXCEPT ![i] = t]
  <2> DEFINE t == [tokens[i] EXCEPT !.state = st]
  <2>1. tokens[i] \in Token
    BY <1>1
  <2>2. t \in Token /\ t.user = tokens[i].user /\ t.purpose = tokens[i].purpose
        /\ t.subject = tokens[i].subject /\ t.state = st
    BY <2>1 DEF Token
  <2>3. tokens' = [tokens EXCEPT ![i] = t]
    OBVIOUS
  <2> QED BY <2>2, <2>3
<1>3. /\ tokens' \in Seq(Token) /\ Len(tokens') = Len(tokens) /\ tokens'[i] = t
      /\ \A j \in 1 .. Len(tokens) : j # i => tokens'[j] = tokens[j]
  BY <1>1, <1>2
<1> QED BY <1>1, <1>2, <1>3 DEF Issued

LEMMA InvExpire ==
  ASSUME AccountsInv, NEW i \in Issued, ExpireToken(i)
  PROVE  AccountsInv'
<1>1. /\ tokens[i].state = "unused" /\ tokens' = [tokens EXCEPT ![i].state = "expired"]
      /\ UNCHANGED <<account, identity, action, spent>>
  BY DEF ExpireToken
<1>2. /\ tokens' \in Seq(Token) /\ Issued' = Issued /\ Len(tokens') = Len(tokens)
      /\ tokens'[i].state = "expired"
      /\ \A j \in Issued : /\ tokens'[j].user = tokens[j].user /\ tokens'[j].purpose = tokens[j].purpose
                           /\ tokens'[j].subject = tokens[j].subject
                           /\ j # i => tokens'[j].state = tokens[j].state
  BY <1>1, LinkMarked
<1>3. AccountsTypeOK'
  BY <1>1, <1>2 DEF AccountsInv, AccountsTypeOK
<1>4. (LinksSpentOnce /\ SessionsFollowIdentity /\ PasswordsByLink)'
  BY <1>1, <1>2 DEF AccountsInv, LinksSpentOnce, SessionsFollowIdentity, PasswordsByLink
<1>5. OpenLinks'
  BY <1>1, <1>2 DEF AccountsInv, OpenLinks
<1>6. (\A b \in Browsers : LinkInHand(b) /\ LoginInHand(b))'
  BY <1>1, <1>2 DEF AccountsInv, LinkInHand, LoginInHand, Doing, Registered
<1>7. (\A j \in Issued : Registered(tokens[j].user))'
  BY <1>1, <1>2 DEF AccountsInv, Registered
<1>8. (\A j \in Issued : tokens[j].purpose = "oauth_session" => tokens[j].subject \in Subjects)'
  BY <1>1, <1>2 DEF AccountsInv
<1>9. (\A s \in Subjects : identity[s] # NoAccount => Registered(identity[s]))'
  BY <1>1 DEF AccountsInv, Registered
<1>10. (Len(spent) = Len(tokens))'
  BY <1>1, <1>2 DEF AccountsInv
<1> QED BY <1>3, <1>4, <1>5, <1>6, <1>7, <1>8, <1>9, <1>10 DEF AccountsInv

\* A link that is spent has not been spent, and is the newest of its purpose: the second of two
\* browsers that took it finds it used.
LEMMA InvSpend ==
  ASSUME AccountsInv, NEW b \in Browsers, SpendToken(b)
  PROVE  AccountsInv'
<1>1. PICK t \in Issued : t = action[b].token /\ Doing(b, "spend") /\ t \in Nat
                        /\ UNCHANGED <<account, identity>>
  BY DEF SpendToken, AccountsInv, AccountsTypeOK, LinkInHand, Doing, Issued
<1>2. /\ AccountsTypeOK /\ tokens \in Seq(Token) /\ spent \in Seq(SpentMark) /\ action \in ActionType
      /\ Len(spent) = Len(tokens) /\ tokens[t] \in Token
  BY <1>1 DEF AccountsInv, AccountsTypeOK, ActionType, SpentMark, Issued
<1>3. CASE tokens[t].state \in {"used", "deleted"}
  <2>1. action' = [action EXCEPT ![b] = Idle] /\ UNCHANGED <<tokens, spent>>
    BY <1>1, <1>3 DEF SpendToken
  <2>2. action' \in ActionType /\ action'[b] = Idle /\ \A c \in Browsers \ {b} : action'[c] = action[c]
    BY <1>2, <2>1 DEF ActionType
  <2>3. LinkInHand(b)' /\ LoginInHand(b)'
    BY <2>2 DEF LinkInHand, LoginInHand, Doing
  <2>4. PasswordsByLink'
    BY <1>1, <2>1 DEF AccountsInv, PasswordsByLink, Issued
  <2>5. account' \in AccountType /\ identity' \in [Subjects -> Emails \cup {NoAccount}]
    BY <1>1, <1>2 DEF AccountsTypeOK, AccountType
  <2> QED BY <1>1, <2>1, <2>2, <2>3, <2>4, <2>5, LinksRest
<1>4. CASE tokens[t].state \in {"unused", "expired"}
  <2>1. /\ tokens' = [tokens EXCEPT ![t].state = "used"] /\ spent' = Consumed(t)
        /\ action' = [action EXCEPT ![b].step = tokens[t].purpose]
    BY <1>1, <1>4 DEF SpendToken
  <2>2. /\ tokens' \in Seq(Token) /\ Issued' = Issued /\ Len(tokens') = Len(tokens)
        /\ tokens'[t].state = "used"
        /\ \A j \in Issued : /\ tokens'[j].user = tokens[j].user /\ tokens'[j].purpose = tokens[j].purpose
                             /\ tokens'[j].subject = tokens[j].subject
                             /\ j # t => tokens'[j].state = tokens[j].state
    BY <1>1, <2>1, LinkMarked
  <2>3. /\ spent[t] \in SpentMark /\ spent[t].times = 0 /\ ~spent[t].late
        /\ \A j \in Issued : j > t => ~(tokens[j].user = tokens[t].user /\ tokens[j].purpose = tokens[t].purpose)
    BY <1>1, <1>2, <1>4 DEF AccountsInv, OpenLinks, LinksSpentOnce, Issued
  <2>4. PICK m \in SpentMark : m.times = 1 /\ ~m.late /\ spent' = [spent EXCEPT ![t] = m]
    <3> DEFINE m == [times |-> spent[t].times + 1,
                     late |-> spent[t].late \/ \E j \in Issued : j > t /\ tokens[j].user = tokens[t].user
                                                                /\ tokens[j].purpose = tokens[t].purpose]
    <3>1. m.times = 1 /\ m.late = FALSE
      BY <2>3 DEF SpentMark
    <3>2. m \in SpentMark
      BY <3>1 DEF SpentMark
    <3>3. spent' = [spent EXCEPT ![t] = m]
      BY <2>1 DEF Consumed
    <3> QED BY <3>1, <3>2, <3>3
  <2>5. /\ spent' \in Seq(SpentMark) /\ Len(spent') = Len(spent) /\ spent'[t].times = 1 /\ ~spent'[t].late
        /\ \A j \in Issued : j # t => spent'[j] = spent[j]
    BY <1>1, <1>2, <2>4 DEF Issued
  <2>6. PICK a \in LinkStep : /\ a.step = tokens[t].purpose /\ a.token = t
                              /\ action' = [action EXCEPT ![b] = a]
    <3> DEFINE a == [action[b] EXCEPT !.step = tokens[t].purpose]
    <3>1. action[b] \in LinkStep
      BY <1>1, <1>2 DEF ActionType, Doing, LoginStep, LoginSteps
    <3>2. a \in LinkStep /\ a.step = tokens[t].purpose /\ a.token = t
      BY <1>1, <1>2, <3>1 DEF LinkStep, Token
    <3>3. action' = [action EXCEPT ![b] = a]
      BY <2>1
    <3> QED BY <3>2, <3>3
  <2>7. /\ action' \in ActionType /\ action'[b].step \in Purposes /\ action'[b].token = t
        /\ action'[b].step = tokens[t].purpose
        /\ \A c \in Browsers \ {b} : action'[c] = action[c]
    BY <1>2, <2>6 DEF ActionType, Token
  <2>8. AccountsTypeOK' /\ (Len(spent) = Len(tokens))'
    BY <1>1, <1>2, <2>2, <2>5, <2>7 DEF AccountsTypeOK, ActionType, SpentMark
  <2>9. LinksSpentOnce'
    BY <2>2, <2>5 DEF AccountsInv, LinksSpentOnce
  <2>10. SessionsFollowIdentity'
    BY <1>1, <2>2 DEF AccountsInv, SessionsFollowIdentity
  <2>11. PasswordsByLink'
    <3>1. PasswordsByLink /\ account' = account
      BY <1>1 DEF AccountsInv
    <3>2. \A j \in Issued : spent[j].times = 1 => spent'[j].times = 1
      BY <2>5
    <3> QED BY <2>2, <3>1, <3>2 DEF PasswordsByLink
  <2>12. OpenLinks'
    BY <2>2, <2>5 DEF AccountsInv, OpenLinks
  <2>13. ASSUME NEW c \in Browsers PROVE (LinkInHand(c) /\ LoginInHand(c))'
    <3>1. CASE c = b
      <4>1. LinkInHand(b)'
        BY <1>1, <2>2, <2>5, <2>7 DEF LinkInHand
      <4>2. LoginInHand(b)'
        BY <2>7 DEF LoginInHand, Doing, Purposes
      <4> QED BY <3>1, <4>1, <4>2
    <3>2. CASE c # b
      <4>1. LinkInHand(c) /\ LoginInHand(c) /\ action'[c] = action[c]
        BY <2>7, <3>2 DEF AccountsInv
      <4>2. LinkInHand(c)'
        BY <2>2, <2>5, <4>1 DEF LinkInHand
      <4>3. LoginInHand(c)'
        BY <1>1, <4>1 DEF LoginInHand, Doing, Registered
      <4> QED BY <4>2, <4>3
    <3> QED BY <3>1, <3>2
  <2>14. (\A j \in Issued : Registered(tokens[j].user))'
    BY <1>1, <2>2 DEF AccountsInv, Registered
  <2>15. (\A j \in Issued : tokens[j].purpose = "oauth_session" => tokens[j].subject \in Subjects)'
    BY <2>2 DEF AccountsInv
  <2>16. (\A s \in Subjects : identity[s] # NoAccount => Registered(identity[s]))'
    BY <1>1 DEF AccountsInv, Registered
  <2> QED BY <2>8, <2>9, <2>10, <2>11, <2>12, <2>13, <2>14, <2>15, <2>16 DEF AccountsInv
<1> QED BY <1>2, <1>3, <1>4 DEF Token

\* A link that is issued is the newest of its purpose, and the ones before it are deleted.
LEMMA InvIssue ==
  ASSUME AccountsInv, UNCHANGED <<account, identity>>,
         NEW user, Registered(user), NEW purpose \in Purposes, NEW subject \in Subjects \cup {NoSubject},
         purpose = "oauth_session" => subject \in Subjects /\ identity[subject] = user,
         SaveActionToken(user, purpose, subject),
         action' \in ActionType, \A b \in Browsers : action'[b] \in {action[b], Idle}
  PROVE  AccountsInv'
<1> DEFINE n == Len(tokens) + 1
<1>1. AccountsTypeOK /\ Len(spent) = Len(tokens) /\ user \in Emails
  BY DEF AccountsInv, Registered
<1>2. /\ tokens' \in Seq(Token) /\ spent' \in Seq(SpentMark)
      /\ n \in Nat /\ n \notin Issued /\ Issued' = Issued \cup {n} /\ Len(spent') = Len(tokens')
      /\ \A i \in Issued : i < n
      /\ \A i \in Issued :
           /\ tokens'[i] \in Token /\ tokens'[i].user = tokens[i].user
           /\ tokens'[i].purpose = tokens[i].purpose /\ tokens'[i].subject = tokens[i].subject
           /\ tokens'[i].state = IF tokens[i].user = user /\ tokens[i].purpose = purpose
                                 THEN "deleted" ELSE tokens[i].state
           /\ spent'[i] = spent[i]
      /\ tokens'[n] = [user |-> user, purpose |-> purpose, subject |-> subject, state |-> "unused"]
      /\ spent'[n] = [times |-> 0, late |-> FALSE]
  BY <1>1, SaveTokens
<1> HIDE DEF n
<1>3. AccountsTypeOK'
  BY <1>1, <1>2 DEF AccountsTypeOK, ActionType, SpentMark
<1>4. LinksSpentOnce'
  BY <1>2 DEF AccountsInv, LinksSpentOnce
<1>5. SessionsFollowIdentity'
  BY <1>2 DEF AccountsInv, SessionsFollowIdentity
<1>6. PasswordsByLink'
  BY <1>2 DEF AccountsInv, PasswordsByLink
<1>7. OpenLinks'
  <2>1. ASSUME NEW i \in Issued', tokens'[i].state \in {"unused", "expired"}
        PROVE  /\ spent'[i].times = 0
               /\ \A j \in Issued' : j > i => tokens'[j].user # tokens'[i].user
                                              \/ tokens'[j].purpose # tokens'[i].purpose
    <3>1. CASE i = n
      <4>1. \A j \in Issued : j \in Nat /\ j < n
        BY <1>1, <1>2 DEF AccountsTypeOK, Issued
      <4>2. \A j \in Issued' : ~(j > i)
        BY <1>2, <3>1, <4>1
      <4>3. spent'[i].times = 0
        BY <1>2, <3>1
      <4> QED BY <4>2, <4>3
    <3>2. CASE i \in Issued
      <4>1. ~(tokens[i].user = user /\ tokens[i].purpose = purpose) /\ tokens[i].state \in {"unused", "expired"}
        BY <1>2, <2>1, <3>2
      <4>2. /\ spent[i].times = 0
            /\ \A j \in Issued : j > i => tokens[j].user # tokens[i].user
                                           \/ tokens[j].purpose # tokens[i].purpose
        BY <3>2, <4>1 DEF AccountsInv, OpenLinks
      <4> QED BY <1>2, <3>2, <4>1, <4>2
    <3> QED BY <1>2, <3>1, <3>2
  <2> QED BY <2>1 DEF OpenLinks
<1>8. ASSUME NEW b \in Browsers PROVE (LinkInHand(b) /\ LoginInHand(b))'
  <2>1. CASE action'[b] = action[b]
    <3>1. LinkInHand(b) /\ LoginInHand(b)
      BY DEF AccountsInv
    <3>2. LinkInHand(b)'
      BY <1>2, <2>1, <3>1 DEF LinkInHand
    <3>3. LoginInHand(b)'
      BY <2>1, <3>1 DEF LoginInHand, Doing, Registered
    <3> QED BY <3>2, <3>3
  <2>2. CASE action'[b] = Idle
    BY <2>2 DEF LinkInHand, LoginInHand, Doing
  <2> QED BY <2>1, <2>2
<1>9. (\A i \in Issued : Registered(tokens[i].user))'
  BY <1>2 DEF AccountsInv, Registered
<1>10. (\A i \in Issued : tokens[i].purpose = "oauth_session" => tokens[i].subject \in Subjects)'
  BY <1>2 DEF AccountsInv
<1>11. (\A s \in Subjects : identity[s] # NoAccount => Registered(identity[s]))'
  BY DEF AccountsInv, Registered
<1> QED BY <1>2, <1>3, <1>4, <1>5, <1>6, <1>7, <1>8, <1>9, <1>10, <1>11 DEF AccountsInv

\* The three kinds of link.
LEMMA InvSend ==
  ASSUME AccountsInv,
         \/ \E e \in Emails : SendEmailVerification(e) \/ RequestPasswordReset(e)
         \/ \E b \in Browsers : IssueSession(b)
  PROVE  AccountsInv'
<1>1. action \in ActionType
  BY DEF AccountsInv, AccountsTypeOK, ActionType
<1>2. CASE \E e \in Emails : SendEmailVerification(e)
  BY <1>1, <1>2, InvIssue DEF SendEmailVerification, Registered, Purposes
<1>3. CASE \E e \in Emails : RequestPasswordReset(e)
  BY <1>1, <1>3, InvIssue DEF RequestPasswordReset, Registered, Purposes
<1>4. ASSUME NEW b \in Browsers, IssueSession(b) PROVE AccountsInv'
  <2>1. /\ Doing(b, "issue") /\ action' = [action EXCEPT ![b] = Idle] /\ UNCHANGED <<account, identity>>
        /\ SaveActionToken(action[b].user, "oauth_session", action[b].subject)
    BY <1>4 DEF IssueSession
  <2>2. action[b].subject \in Subjects /\ LoginInHand(b)
    BY <2>1, LoginHolds DEF LoginSteps
  <2>3. Registered(action[b].user) /\ identity[action[b].subject] = action[b].user
    BY <2>1, <2>2 DEF LoginInHand
  <2>4. action' \in ActionType /\ \A c \in Browsers : action'[c] \in {action[c], Idle}
    BY <1>1, <2>1 DEF ActionType
  <2>5. "oauth_session" \in Purposes
    BY DEF Purposes
  <2> QED BY <2>1, <2>2, <2>3, <2>4, <2>5, InvIssue
<1> QED BY <1>2, <1>3, <1>4

LEMMA AccountsStep == AccountsInv /\ [AccountsNext]_accountVars => AccountsInv'
<1> SUFFICES ASSUME AccountsInv, [AccountsNext]_accountVars PROVE AccountsInv'
  OBVIOUS
<1>1. CASE UNCHANGED accountVars
  <2>1. /\ account \in AccountType /\ action \in ActionType
        /\ identity \in [Subjects -> Emails \cup {NoAccount}] /\ PasswordsByLink
    BY DEF AccountsInv, AccountsTypeOK, AccountType, ActionType
  <2>2. PasswordsByLink'
    BY <1>1, <2>1 DEF accountVars, PasswordsByLink, Issued
  <2> QED BY <1>1, <2>1, <2>2, LinksRest DEF accountVars
<1>2. CASE AccountsNext
  BY <1>2, InvRegister, InvSend, InvExpire, InvSpend, LinkRequests, InvLogin, InvLink DEF AccountsNext
<1> QED BY <1>1, <1>2

\* Whatever the requests of any number of browsers do between each other's queries.
THEOREM AccountsHold == AccountsSpec => []AccountsInv
<1> QED BY AccountsInitial, AccountsStep, PTL DEF AccountsSpec

\* ConsumeActionToken: no link is spent twice, or after a newer one was sent.
THEOREM LinksHold == AccountsSpec => []LinksSpentOnce
<1>1. AccountsInv => LinksSpentOnce
  BY DEF AccountsInv
<1> QED BY <1>1, AccountsHold, PTL

\* OAuthCallback: a session is that of the account its subject is linked to.
THEOREM SessionsHold == AccountsSpec => []SessionsFollowIdentity
<1>1. AccountsInv => SessionsFollowIdentity
  BY DEF AccountsInv
<1> QED BY <1>1, AccountsHold, PTL

\* ResetPassword: the password of an account was set by a link sent to it for that.
THEOREM PasswordsHold == AccountsSpec => []PasswordsByLink
<1>1. AccountsInv => PasswordsByLink
  BY DEF AccountsInv
<1> QED BY <1>1, AccountsHold, PTL

----------------------------------------------------------------------------
(* Uploads.                                                                *)

\* An upload moves one file, its own; what the others have stays as it is.
OneMoves(n) ==
  /\ upload' \in [UploadNames -> [step : UploadSteps, kind : Kinds, ext : Extensions]]
  /\ file' \in [UploadNames -> {NoFile, "partial", "raw", "checked", "faststart"}]
  /\ \A m \in UploadNames \ {n} :
       /\ upload'[m] = upload[m] /\ file'[m] = file[m]
       /\ m \in asset' <=> m \in asset
       /\ m \in tempFile' <=> m \in tempFile
       /\ m \in stopped' <=> m \in stopped

LEMMA UploadsInitial == UploadsInit => UploadsInv
<1> SUFFICES ASSUME UploadsInit PROVE UploadsInv
  OBVIOUS
<1>1. UploadsTypeOK
  BY DEF UploadsInit, UploadsTypeOK, UploadSteps, Kinds, Extensions
<1> QED BY <1>1 DEF UploadsInv, UploadsInit, UploadOk, Whole

LEMMA OthersStay ==
  ASSUME UploadsInv, NEW n \in UploadNames, OneMoves(n), UploadOk(n)',
         asset' \subseteq UploadNames, tempFile' \subseteq UploadNames, stopped' \subseteq UploadNames
  PROVE  UploadsInv'
<1>1. UploadsTypeOK'
  BY DEF OneMoves, UploadsTypeOK
<1>2. ASSUME NEW m \in UploadNames PROVE UploadOk(m)'
  <2>1. CASE m = n BY <2>1
  <2>2. CASE m # n
    BY <2>2 DEF UploadsInv, OneMoves, UploadOk, Whole
  <2> QED BY <2>1, <2>2
<1> QED BY <1>1, <1>2 DEF UploadsInv

LEMMA UploadStep ==
  ASSUME UploadsInv, NEW n \in UploadNames,
         \/ SaveUploadedFile(n) \/ ValidateVideo(n) \/ CreateTemp(n) \/ Faststart(n)
         \/ RecordAsset(n) \/ StopUpload(n)
  PROVE  UploadsInv'
<1>0. UploadsTypeOK /\ UploadOk(n)
  BY DEF UploadsInv
<1> USE UploadsAssumption DEF UploadsTypeOK, Put, Step, RemoveFile
<1>1. CASE SaveUploadedFile(n)
  <2>1. OneMoves(n) /\ UploadOk(n)'
    BY <1>0, <1>1 DEF SaveUploadedFile, OneMoves, UploadOk, Whole, UploadSteps, Kinds, Extensions
  <2> QED BY <1>0, <1>1, <2>1, OthersStay DEF SaveUploadedFile
<1>2. CASE ValidateVideo(n)
  <2>1. OneMoves(n) /\ UploadOk(n)'
    BY <1>0, <1>2 DEF ValidateVideo, OneMoves, UploadOk, Whole, UploadSteps, Kinds, Extensions
  <2> QED BY <1>0, <1>2, <2>1, OthersStay DEF ValidateVideo
<1>3. CASE CreateTemp(n)
  <2>1. OneMoves(n) /\ UploadOk(n)'
    BY <1>0, <1>3 DEF CreateTemp, OneMoves, UploadOk, Whole, UploadSteps
  <2> QED BY <1>0, <1>3, <2>1, OthersStay DEF CreateTemp
<1>4. CASE Faststart(n)
  <2>1. OneMoves(n) /\ UploadOk(n)'
    BY <1>0, <1>4 DEF Faststart, OneMoves, UploadOk, Whole, UploadSteps
  <2> QED BY <1>0, <1>4, <2>1, OthersStay DEF Faststart
<1>5. CASE RecordAsset(n)
  <2>1. OneMoves(n) /\ UploadOk(n)'
    BY <1>0, <1>5 DEF RecordAsset, OneMoves, UploadOk, Whole, UploadSteps
  <2> QED BY <1>0, <1>5, <2>1, OthersStay DEF RecordAsset
<1>6. CASE StopUpload(n)
  <2>1. OneMoves(n) /\ UploadOk(n)'
    BY <1>0, <1>6 DEF StopUpload, OneMoves, UploadOk, Whole, UploadSteps
  <2> QED BY <1>0, <1>6, <2>1, OthersStay DEF StopUpload
<1> QED BY <1>1, <1>2, <1>3, <1>4, <1>5, <1>6

\* What each step of an upload has on the disk, for every number of uploads.
THEOREM UploadsHold == UploadsSpec => []UploadsInv
<1>1. UploadsInv /\ [UploadsNext]_uploadVars => UploadsInv'
  <2> SUFFICES ASSUME UploadsInv, [UploadsNext]_uploadVars PROVE UploadsInv'
    OBVIOUS
  <2>1. CASE UploadsNext
    BY <2>1, UploadStep DEF UploadsNext
  <2>2. CASE UNCHANGED uploadVars
    BY <2>2 DEF uploadVars, UploadsInv, UploadsTypeOK, UploadOk, Whole
  <2> QED BY <2>1, <2>2
<1> QED BY <1>1, UploadsInitial, PTL DEF UploadsSpec

\* A row of media_asset has a whole file behind it, and a file without a row is on its way or was
\* left by a step that stopped.
THEOREM AssetsHold == UploadsSpec => []AssetsMatchFiles
<1>1. UploadsInv => AssetsMatchFiles
  <2> SUFFICES ASSUME UploadsInv, NEW n \in UploadNames
               PROVE  /\ n \in asset =>
                           \/ upload[n].kind = "cover" /\ file[n] = "raw"
                           \/ upload[n].kind = "video"
                              /\ file[n] = IF upload[n].ext = "mp4" THEN "faststart" ELSE "checked"
                      /\ (file[n] # NoFile \/ n \in tempFile) /\ upload[n].step = "failed" => n \in stopped
    BY DEF AssetsMatchFiles
  <2>1. upload[n].kind \in Kinds /\ UploadOk(n)
    BY DEF UploadsInv, UploadsTypeOK
  <2> QED BY <2>1 DEF UploadOk, Whole, Kinds
<1> QED BY <1>1, UploadsHold, PTL

----------------------------------------------------------------------------
(* KeyedWrites: the unique indexes.                                        *)

\* The newest of some rows is one of them.
LEMMA NewestIsMember ==
  ASSUME NEW n \in Nat, NEW S \in SUBSET (1 .. n), S # {}
  PROVE  Max(S) \in S
<1> DEFINE Above == {u \in Nat : \A y \in S : u >= y}
<1>1. n \in Above
  OBVIOUS
<1>2. PICK u \in Above : \A w \in Above : <<w, u>> \notin OpToRel(<, Nat)
  BY <1>1, NatLessThanWellFounded, WFMin
<1>3. u \in S
  <2> SUFFICES ASSUME u \notin S PROVE FALSE
    OBVIOUS
  <2>1. \A y \in S : y \in Nat /\ u >= y /\ u # y
    OBVIOUS
  <2>2. u \in Nat /\ u - 1 \in Nat /\ u - 1 < u
    <3>1. PICK y \in S : y \in 1 .. n
      OBVIOUS
    <3> QED BY <2>1, <3>1
  <2>3. u - 1 \in Above
    BY <2>1, <2>2
  <2>4. <<u - 1, u>> \in OpToRel(<, Nat)
    BY <2>2 DEF OpToRel
  <2> QED BY <1>2, <2>3, <2>4
<1> QED BY <1>3 DEF Max

WritingType == [Clients -> [step : {"none"}] \cup [step : {"insert", "find"}, request : WriteRequests]]

\* The rows that stand against a request keep standing against it.
LEMMA ClashesStay ==
  ASSUME \A i \in DOMAIN rows : /\ i \in DOMAIN rows'
                                /\ rows'[i].key = rows[i].key /\ rows'[i].event = rows[i].event,
         NEW r
  PROVE  Clashing(r) \subseteq Clashing(r)'
BY DEF Clashing

\* A step keeps the invariant that drops no row and changes none of its keys, and leaves a request
\* to look for its row only where there is one.
LEMMA KeyedKept ==
  ASSUME KeyedInv, UNCHANGED <<table, watched>>, rows' \in Seq(KeyedRow), KeysUnique',
         \A i \in DOMAIN rows : /\ i \in DOMAIN rows'
                                /\ rows'[i].key = rows[i].key /\ rows'[i].event = rows[i].event,
         answers' \subseteq answers \cup Clashing(watched)',
         writing' \in WritingType,
         \A c \in Clients : \/ writing'[c] = writing[c]
                            \/ (writing[c].step = "find" => Clashing(writing[c].request) # {})'
  PROVE  KeyedInv'
<1>1. \A r : Clashing(r) \subseteq Clashing(r)'
  BY ClashesStay
<1>2. KeyedTypeOK'
  <2>1. WriteRequests' = WriteRequests
    BY DEF WriteRequests
  <2> QED BY <2>1 DEF KeyedInv, KeyedTypeOK, WritingType, Identified
<1>3. (answers \subseteq Clashing(watched))'
  <2>1. Clashing(watched) \subseteq Clashing(watched)'
    BY <1>1 DEF Clashing
  <2> QED BY <2>1 DEF KeyedInv
<1>4. ASSUME NEW c \in Clients
      PROVE  (writing[c].step = "find" => Clashing(writing[c].request) # {})'
  <2>1. CASE writing'[c] = writing[c]
    <3>1. writing[c].step = "find" => Clashing(writing[c].request) # {}
      BY DEF KeyedInv
    <3>2. PICK r : r = writing[c].request
      OBVIOUS
    <3>3. writing[c].step = "find" => Clashing(r)' # {}
      BY <1>1, <3>1, <3>2
    <3> QED BY <2>1, <3>2, <3>3 DEF Clashing
  <2> QED BY <2>1
<1> QED BY <1>2, <1>3, <1>4 DEF KeyedInv

LEMMA KeyedInitial == KeyedInit => KeyedInv
<1> SUFFICES ASSUME KeyedInit PROVE KeyedInv
  OBVIOUS
<1>1. rows = <<>> /\ DOMAIN rows = {}
  BY DEF KeyedInit
<1>2. KeyedTypeOK
  BY <1>1 DEF KeyedInit, KeyedTypeOK, NotWriting
<1> QED BY <1>1, <1>2 DEF KeyedInit, KeyedInv, KeysUnique, NotWriting

\* Where the rows are not written.
LEMMA KeyedSame ==
  ASSUME KeyedInv, UNCHANGED <<table, rows, watched>>,
         answers' \subseteq answers \cup Clashing(watched), writing' \in WritingType,
         \A c \in Clients : \/ writing'[c] = writing[c]
                            \/ (writing[c].step = "find" => Clashing(writing[c].request) # {})'
  PROVE  KeyedInv'
<1>1. rows' \in Seq(KeyedRow) /\ KeysUnique'
  BY DEF KeyedInv, KeyedTypeOK, KeysUnique
<1>2. Clashing(watched)' = Clashing(watched)
  BY DEF Clashing
<1> QED BY <1>1, <1>2, KeyedKept

\* A request that is answered, by a row that stands against it.
LEMMA Answered ==
  ASSUME KeyedInv, NEW c \in Clients, NEW r, NEW i \in Clashing(r),
         UNCHANGED <<table, rows, watched>>, Answer(c, r, i)
  PROVE  KeyedInv'
<1>1. answers' \subseteq answers \cup Clashing(watched) /\ writing' = [writing EXCEPT ![c] = NotWriting]
  BY DEF Answer
<1>2. /\ writing' \in WritingType /\ writing'[c].step = "none"
      /\ \A d \in Clients \ {c} : writing'[d] = writing[d]
  BY <1>1 DEF KeyedInv, KeyedTypeOK, WritingType, NotWriting
<1> QED BY <1>1, <1>2, KeyedSame

LEMMA Started ==
  ASSUME KeyedInv, NEW c \in Clients, NEW r \in WriteRequests,
         UNCHANGED <<table, rows, watched>>, StartInsert(c, r)
  PROVE  KeyedInv'
<1>1. answers' = answers /\ writing' = [writing EXCEPT ![c] = [step |-> "insert", request |-> r]]
  BY DEF StartInsert
<1>2. /\ writing' \in WritingType /\ writing'[c].step = "insert"
      /\ \A d \in Clients \ {c} : writing'[d] = writing[d]
  BY <1>1 DEF KeyedInv, KeyedTypeOK, WritingType
<1> QED BY <1>1, <1>2, KeyedSame

\* The insert: a row no index stands against, or the index answers.
LEMMA InvCreateKeyed ==
  ASSUME KeyedInv, NEW c \in Clients, CreateKeyed(c)
  PROVE  KeyedInv'
<1>0. KeyedTypeOK /\ KeysUnique /\ UNCHANGED <<table, watched>> /\ writing[c].step = "insert"
  BY DEF KeyedInv, CreateKeyed
<1>1. PICK r \in WriteRequests : r = writing[c].request /\ writing[c] = [step |-> "insert", request |-> r]
  BY <1>0 DEF KeyedTypeOK
<1>2. CASE Clashing(r) = {} /\ rows' = Append(rows, Row(r)) /\ Answer(c, r, Len(rows) + 1)
  <2> DEFINE n == Len(rows) + 1
  <2>1. rows \in Seq(KeyedRow) /\ Len(rows) \in Nat /\ DOMAIN rows = 1 .. Len(rows)
    BY <1>0 DEF KeyedTypeOK
  <2>2. Row(r) \in KeyedRow /\ Row(r).key = r.key /\ Row(r).event = r.event
    BY DEF Row, KeyedRow, WriteRequests
  <2>3. /\ rows' \in Seq(KeyedRow) /\ DOMAIN rows' = DOMAIN rows \cup {n} /\ n \notin DOMAIN rows
        /\ rows'[n] = Row(r) /\ \A i \in DOMAIN rows : rows'[i] = rows[i]
    BY <1>2, <2>1, <2>2
  <2> HIDE DEF n
  <2> DEFINE SameKeys(k) == \/ rows[k].key # NoKey /\ rows[k].key = r.key
                            \/ rows[k].event # NoKey /\ rows[k].event = r.event
  <2>4. \A i \in DOMAIN rows : ~SameKeys(i)
    BY <1>2 DEF Clashing
  <2>5. KeysUnique'
    <3> SUFFICES ASSUME NEW i \in DOMAIN rows', NEW j \in DOMAIN rows',
                        \/ rows'[i].key # NoKey /\ rows'[i].key = rows'[j].key
                        \/ rows'[i].event # NoKey /\ rows'[i].event = rows'[j].event
                 PROVE  i = j
      BY DEF KeysUnique
    <3>1. CASE i \in DOMAIN rows /\ j \in DOMAIN rows
      BY <1>0, <2>3, <3>1 DEF KeysUnique
    <3>0. rows'[n].key = r.key /\ rows'[n].event = r.event
      BY <2>2, <2>3
    <3>2. CASE i = n /\ j \in DOMAIN rows
      <4>1. rows'[j] = rows[j] /\ ~SameKeys(j)
        BY <2>3, <2>4, <3>2
      <4>2. rows'[i].key = r.key /\ rows'[i].event = r.event
        BY <3>0, <3>2
      <4>3. SameKeys(j)
        BY <4>1, <4>2
      <4> QED BY <4>1, <4>3
    <3>3. CASE i \in DOMAIN rows /\ j = n
      <4>1. rows'[i] = rows[i] /\ ~SameKeys(i)
        BY <2>3, <2>4, <3>3
      <4>2. rows'[j].key = r.key /\ rows'[j].event = r.event
        BY <3>0, <3>3
      <4>3. SameKeys(i)
        BY <4>1, <4>2
      <4> QED BY <4>1, <4>3
    <3> QED BY <2>3, <3>1, <3>2, <3>3
  <2>6. answers' \subseteq answers \cup Clashing(watched)'
    <3>1. r = watched /\ (r.key # NoKey \/ r.event # NoKey) => n \in Clashing(watched)'
      BY <1>0, <2>2, <2>3 DEF Clashing
    <3>2. answers' = answers \cup (IF r = watched THEN {n} ELSE {}) /\ Identified(watched)
      BY <1>0, <1>2 DEF Answer, KeyedTypeOK, n
    <3> QED BY <3>1, <3>2 DEF Identified
  <2>7. /\ writing' \in WritingType /\ writing'[c].step = "none"
        /\ \A d \in Clients \ {c} : writing'[d] = writing[d]
    BY <1>0, <1>2 DEF Answer, KeyedTypeOK, WritingType, NotWriting
  <2> QED BY <1>0, <2>3, <2>5, <2>6, <2>7, KeyedKept
<1>3. CASE Clashing(r) # {} /\ writing' = [writing EXCEPT ![c].step = "find"] /\ UNCHANGED <<rows, answers>>
  <2>1. writing' = [writing EXCEPT ![c] = [step |-> "find", request |-> r]]
    <3>1. [writing[c] EXCEPT !.step = "find"] = [step |-> "find", request |-> r]
      BY <1>1
    <3>2. writing' = [writing EXCEPT ![c] = [writing[c] EXCEPT !.step = "find"]]
      BY <1>3
    <3> QED BY <3>1, <3>2
  <2>2. /\ writing' \in WritingType /\ writing'[c] = [step |-> "find", request |-> r]
        /\ \A d \in Clients \ {c} : writing'[d] = writing[d]
    BY <1>0, <2>1 DEF KeyedTypeOK, WritingType
  <2>3. Clashing(r)' = Clashing(r)
    BY <1>3 DEF Clashing
  <2>4. (Clashing(writing[c].request) # {})'
    BY <1>3, <2>2, <2>3 DEF Clashing
  <2> QED BY <1>0, <1>3, <2>2, <2>4, KeyedSame
<1> QED BY <1>1, <1>2, <1>3 DEF CreateKeyed

\* A row that is read or resolved keeps its keys.
LEMMA InvRowsMarked ==
  ASSUME KeyedInv, MarkRead \/ ResolveReport
  PROVE  KeyedInv'
<1>0. rows \in Seq(KeyedRow) /\ KeysUnique /\ writing \in WritingType /\ UNCHANGED <<table, writing, watched, answers>>
  BY DEF KeyedInv, KeyedTypeOK, WritingType, MarkRead, ResolveReport
<1>1. /\ rows' \in Seq(KeyedRow) /\ DOMAIN rows' = DOMAIN rows
      /\ \A i \in DOMAIN rows : rows'[i].key = rows[i].key /\ rows'[i].event = rows[i].event
  <2>1. CASE MarkRead
    <3>1. PICK ids \in SUBSET DOMAIN rows :
            rows' = [i \in DOMAIN rows |-> IF i \in ids THEN [rows[i] EXCEPT !.read = TRUE] ELSE rows[i]]
      BY <2>1 DEF MarkRead
    <3>2. \A i \in DOMAIN rows : /\ rows[i] \in KeyedRow
                                 /\ rows'[i] = IF i \in ids THEN [rows[i] EXCEPT !.read = TRUE] ELSE rows[i]
      BY <1>0, <3>1
    <3>3. \A i \in DOMAIN rows : /\ rows'[i] \in KeyedRow
                                 /\ rows'[i].key = rows[i].key /\ rows'[i].event = rows[i].event
      BY <3>2 DEF KeyedRow
    <3>4. Len(rows) \in Nat /\ DOMAIN rows = 1 .. Len(rows)
      BY <1>0
    <3>5. DOMAIN rows' = 1 .. Len(rows) /\ rows' \in [1 .. Len(rows) -> KeyedRow]
      BY <3>1, <3>3, <3>4
    <3> QED BY <3>3, <3>4, <3>5
  <2>2. CASE ResolveReport
    <3>1. PICK i \in DOMAIN rows : rows' = [rows EXCEPT ![i].status = "resolved"]
      BY <2>2 DEF ResolveReport
    <3>2. PICK row \in KeyedRow : /\ row.key = rows[i].key /\ row.event = rows[i].event
                                  /\ rows' = [rows EXCEPT ![i] = row]
      <4> DEFINE row == [rows[i] EXCEPT !.status = "resolved"]
      <4>0. rows[i] \in KeyedRow
        BY <1>0
      <4>1. row \in KeyedRow /\ row.key = rows[i].key /\ row.event = rows[i].event
        BY <4>0 DEF KeyedRow
      <4>2. rows' = [rows EXCEPT ![i] = row]
        BY <3>1
      <4> QED BY <4>1, <4>2
    <3> QED BY <1>0, <3>2
  <2> QED BY <2>1, <2>2
<1>2. KeysUnique'
  BY <1>0, <1>1 DEF KeysUnique
<1> QED BY <1>0, <1>1, <1>2, KeyedKept

LEMMA KeyedStep == KeyedInv /\ [KeyedNext]_keyedVars => KeyedInv'
<1> SUFFICES ASSUME KeyedInv, [KeyedNext]_keyedVars PROVE KeyedInv'
  OBVIOUS
<1>0. writing \in WritingType
  BY DEF KeyedInv, KeyedTypeOK, WritingType
<1>1. ASSUME NEW c \in Clients, CreateFromEvent(c) \/ CreateQoSReport(c) \/ CreateReport(c)
      PROVE  KeyedInv'
  BY <1>1, Started, Answered DEF CreateFromEvent, CreateQoSReport, CreateReport
<1>2. ASSUME NEW c \in Clients, FindExisting(c) PROVE KeyedInv'
  <2> DEFINE r == writing[c].request
  <2>1. rows \in Seq(KeyedRow) /\ Clashing(r) # {} /\ UNCHANGED <<table, rows, watched>>
        /\ Answer(c, r, Max(Clashing(r)))
    BY <1>2 DEF FindExisting, KeyedInv, KeyedTypeOK
  <2>2. Len(rows) \in Nat /\ Clashing(r) \subseteq 1 .. Len(rows)
    BY <2>1 DEF Clashing
  <2>3. Max(Clashing(r)) \in Clashing(r)
    BY <2>1, <2>2, NewestIsMember
  <2> QED BY <2>1, <2>3, Answered
<1>3. ASSUME NEW c \in Clients, GiveUpWrite(c) PROVE KeyedInv'
  <2>1. /\ writing' \in WritingType /\ writing'[c].step = "none"
        /\ \A d \in Clients \ {c} : writing'[d] = writing[d]
    BY <1>0, <1>3 DEF GiveUpWrite, WritingType, NotWriting
  <2> QED BY <1>3, <2>1, KeyedSame DEF GiveUpWrite
<1>4. CASE UNCHANGED keyedVars
  BY <1>0, <1>4, KeyedSame DEF keyedVars
<1> QED BY <1>1, <1>2, <1>3, <1>4, InvCreateKeyed, InvRowsMarked DEF KeyedNext

\* The unique indexes hold, and a request that looks for its row finds one.
THEOREM KeyedHold == KeyedSpec => []KeyedInv
<1> QED BY KeyedInitial, KeyedStep, PTL DEF KeyedSpec

\* CreateFromActorEvent, CreateQoSReport and CreateReport: a request sent again is answered with
\* the row it has, for every number of clients, keys and repetitions.
THEOREM RepeatsHold == KeyedSpec => []RepeatsAnswered
<1>1. KeyedInv => RepeatsAnswered
  <2> SUFFICES ASSUME KeyedInv, ~Mixed(watched) PROVE Cardinality(answers) <= 1
    BY DEF RepeatsAnswered
  <2>1. Identified(watched) /\ answers \subseteq Clashing(watched) /\ KeysUnique
    BY DEF KeyedInv, KeyedTypeOK
  <2>2. \A i \in Clashing(watched) : /\ i \in DOMAIN rows
                                     /\ rows[i].key = watched.key /\ rows[i].event = watched.event
    BY DEF Mixed, Clashing
  <2>3. \A i, j \in answers : i = j
    BY <2>1, <2>2 DEF Identified, KeysUnique
  <2>4. answers = {} \/ \E i : answers = {i}
    BY <2>3
  <2>5. Cardinality({}) = 0 /\ \A i : Cardinality({i}) = 1
    BY FS_EmptySet, FS_Singleton
  <2>6. Cardinality(answers) = 0 \/ Cardinality(answers) = 1
    BY <2>4, <2>5, Zenon
  <2> QED BY <2>6
<1> QED BY <1>1, KeyedHold, PTL

----------------------------------------------------------------------------
(* InterestProfile: the filter of seen videos and the profile.             *)

Computers == {"worker", "request"}
Work == [of : Nat, views : SUBSET Nat, likes : SUBSET Watchable, step : {"likes", "save"}, fresh : BOOLEAN]
ComputingType == [Computers -> {NoWork} \cup Work]

\* What is derived from the signals changes with them only.
LEMMA SameSignals ==
  ASSUME UNCHANGED <<views, liked>>
  PROVE  /\ PositiveViews' = PositiveViews /\ PositiveLikes' = PositiveLikes
         /\ Recorded' = Recorded
BY DEF PositiveViews, PositiveLikes, Filtered, Recorded

\* An event that is recorded is the newest; an exposure is no signal.
LEMMA Appended ==
  ASSUME InterestTypeOK, NEW view \in View, views' = Append(views, view)
  PROVE  LET n == Len(views) + 1 IN
         /\ views' \in Seq(View) /\ n \in Nat /\ n \notin Recorded
         /\ Recorded' = Recorded \cup {n} /\ views'[n] = view
         /\ \A i \in Recorded : views'[i] = views[i]
         /\ view.type = "exposed" /\ liked' = liked =>
              PositiveViews' = PositiveViews /\ PositiveLikes' = PositiveLikes
<1> DEFINE n == Len(views) + 1
<1>1. views \in Seq(View) /\ Len(views) \in Nat
  BY DEF InterestTypeOK
<1>2. /\ views' \in Seq(View) /\ n \in Nat /\ n \notin Recorded
      /\ Recorded' = Recorded \cup {n} /\ views'[n] = view
      /\ \A i \in Recorded : views'[i] = views[i]
  BY <1>1 DEF Recorded
<1> HIDE DEF n
<1>3. ASSUME view.type = "exposed", liked' = liked
      PROVE  PositiveViews' = PositiveViews /\ PositiveLikes' = PositiveLikes
  <2>1. Filtered' = Filtered
    BY <1>2, <1>3 DEF Filtered
  <2>2. PositiveViews' = PositiveViews
    BY <1>2, <1>3, <2>1 DEF PositiveViews
  <2> QED BY <1>3, <2>1, <2>2 DEF PositiveLikes
<1> QED BY <1>2, <1>3 DEF n

LEMMA ReadsAreRecorded ==
  ASSUME InterestTypeOK
  PROVE  PositiveViews \in SUBSET Nat /\ PositiveLikes \in SUBSET Watchable
BY DEF InterestTypeOK, PositiveViews, PositiveLikes, Recorded

LEMMA InterestInitial == InterestInit => InterestInv
<1> SUFFICES ASSUME InterestInit PROVE InterestInv
  OBVIOUS
<1>1. views = <<>> /\ Recorded = {}
  BY DEF InterestInit, Recorded
<1>2. InterestTypeOK
  BY <1>1 DEF InterestInit, InterestTypeOK
<1> QED BY <1>1, <1>2 DEF InterestInit, InterestInv, ExposedIsSeen, ReadsStand, ProfileStands

\* The computations that a change overtakes.
LEMMA OutdatedReads ==
  ASSUME InterestTypeOK, computing' = Outdated
  PROVE  /\ computing' \in ComputingType
         /\ \A c \in Computers : computing'[c] # NoWork => computing'[c].fresh = FALSE
<1>1. computing \in ComputingType
  BY DEF InterestTypeOK, ComputingType, Computers, Work
<1>2. ASSUME NEW c \in Computers
      PROVE  computing'[c] \in {NoWork} \cup Work /\ (computing'[c] # NoWork => computing'[c].fresh = FALSE)
  <2>1. computing'[c] = IF computing[c] = NoWork THEN NoWork ELSE [computing[c] EXCEPT !.fresh = FALSE]
    BY <1>1 DEF Outdated, ComputingType
  <2> QED BY <1>1, <2>1 DEF ComputingType, Work
<1>3. DOMAIN computing' = Computers /\ computing' = [c \in Computers |-> computing'[c]]
  BY <1>1 DEF Outdated, ComputingType
<1> QED BY <1>2, <1>3 DEF ComputingType

\* The event of a view is due to both groups.
LEMMA InvRecordView ==
  ASSUME InterestInv, NEW v \in Watchable, RecordView(v)
  PROVE  InterestInv'
<1>0. /\ InterestTypeOK /\ ExposedIsSeen /\ ProfileStands
      /\ UNCHANGED <<liked, seen, profile, likeChanges, forgotten, overtaken, silent>>
  BY DEF InterestInv, RecordView
<1>1. PICK type \in Types, id \in RequestIds \cup {NoRequestId} :
        LET view == [video |-> v, type |-> type, request |-> id]
            n    == Len(views) + 1
        IN  \/ /\ marking' = marking \cup {i \in Recorded : views[i] = view}
               /\ UNCHANGED <<views, exposures, due, computing>>
            \/ /\ views' = Append(views, view)
               /\ due' = [g \in DOMAIN due |-> due[g] \cup {n}]
               /\ marking' = IF MarksSeen(type) THEN marking \cup {n} ELSE marking
               /\ computing' = Outdated
  BY DEF RecordView
<1> DEFINE view == [video |-> v, type |-> type, request |-> id]
           n    == Len(views) + 1
<1>2. CASE /\ marking' = marking \cup {i \in Recorded : views[i] = view}
           /\ UNCHANGED <<views, exposures, due, computing>>
  <2>1. /\ PositiveViews' = PositiveViews /\ PositiveLikes' = PositiveLikes
        /\ Recorded' = Recorded
    BY <1>0, <1>2, SameSignals
  <2>2. InterestTypeOK'
    BY <1>0, <1>2, <2>1 DEF InterestTypeOK
  <2>3. ExposedIsSeen'
    BY <1>0, <1>2, <2>1 DEF ExposedIsSeen
  <2>4. (\A c \in {"worker", "request"} : ReadsStand(c))'
    BY <1>2, <2>1 DEF InterestInv, ReadsStand
  <2>5. ProfileStands'
    BY <1>0, <1>2, <2>1 DEF ProfileStands, Agrees
  <2> QED BY <2>2, <2>3, <2>4, <2>5 DEF InterestInv
<1>3. CASE /\ views' = Append(views, view)
           /\ due' = [g \in DOMAIN due |-> due[g] \cup {n}]
           /\ marking' = IF MarksSeen(type) THEN marking \cup {n} ELSE marking
           /\ computing' = Outdated
  <2>1. view \in View /\ view.type = type
    BY DEF View
  <2>2. /\ views' \in Seq(View) /\ n \in Nat /\ n \notin Recorded
        /\ Recorded' = Recorded \cup {n} /\ views'[n] = view
        /\ \A i \in Recorded : views'[i] = views[i]
        /\ type = "exposed" => PositiveViews' = PositiveViews /\ PositiveLikes' = PositiveLikes
    BY <1>0, <1>3, <2>1, Appended
  <2>3. /\ computing' \in ComputingType
        /\ \A c \in Computers : computing'[c] # NoWork => computing'[c].fresh = FALSE
    BY <1>0, <1>3, OutdatedReads
  <2>4. /\ due' \in [{"feature", "recommendation"} -> SUBSET Recorded']
        /\ \A g \in {"feature", "recommendation"} : due'[g] = due[g] \cup {n}
    BY <1>0, <1>3, <2>2 DEF InterestTypeOK
  <2> HIDE DEF n, view
  <2>5. InterestTypeOK'
    BY <1>0, <1>3, <2>2, <2>3, <2>4 DEF InterestTypeOK, ComputingType, Computers, Work
  <2>6. ExposedIsSeen'
    BY <1>0, <2>2, <2>4 DEF ExposedIsSeen
  <2>7. (\A c \in {"worker", "request"} : ReadsStand(c))'
    BY <2>3 DEF ReadsStand, Computers
  <2>8. ProfileStands'
    <3>1. CASE type = "exposed"
      <4>1. due["feature"] \subseteq Recorded
        BY <1>0 DEF InterestTypeOK
      <4> QED BY <1>0, <2>2, <2>4, <3>1, <4>1 DEF ProfileStands, Agrees
    <3>2. CASE type # "exposed"
      <4>1. AffectsInterestProfile(type)
        BY <3>2 DEF Types, AffectsInterestProfile, IsNegativeFeedback
      <4> QED BY <2>1, <2>2, <2>4, <4>1 DEF ProfileStands, Agrees
    <3> QED BY <3>1, <3>2
  <2> QED BY <2>5, <2>6, <2>7, <2>8 DEF InterestInv
<1> QED BY <1>1, <1>2, <1>3

\* The internal path changes no signal.
LEMMA InvSaveExposure ==
  ASSUME InterestInv, NEW v \in Watchable, SaveExposure(v)
  PROVE  InterestInv'
<1>0. InterestTypeOK /\ ExposedIsSeen /\ ProfileStands
  BY DEF InterestInv
<1>1. PICK id \in RequestIds :
        /\ views' = Append(views, [video |-> v, type |-> "exposed", request |-> id])
        /\ forgotten' = forgotten \cup {v}
        /\ UNCHANGED <<liked, due, marking, seen, profile, computing, likeChanges, overtaken, silent>>
  BY DEF SaveExposure
<1> DEFINE view == [video |-> v, type |-> "exposed", request |-> id]
           n == Len(views) + 1
<1>2. view \in View /\ view.type = "exposed" /\ view.video = v
  BY DEF View, Types
<1>3. /\ views' \in Seq(View) /\ n \in Nat /\ n \notin Recorded
      /\ Recorded' = Recorded \cup {n} /\ views'[n] = view
      /\ \A i \in Recorded : views'[i] = views[i]
      /\ PositiveViews' = PositiveViews /\ PositiveLikes' = PositiveLikes
  BY <1>0, <1>1, <1>2, Appended
<1> HIDE DEF n, view
<1>4. InterestTypeOK'
  BY <1>0, <1>1, <1>3 DEF InterestTypeOK
<1>5. ExposedIsSeen'
  BY <1>0, <1>1, <1>2, <1>3 DEF ExposedIsSeen
<1>6. (\A c \in {"worker", "request"} : ReadsStand(c))'
  BY <1>1, <1>3 DEF InterestInv, ReadsStand
<1>7. ProfileStands'
  <2>1. due["feature"] \subseteq Recorded
    BY <1>0 DEF InterestTypeOK
  <2> QED BY <1>0, <1>1, <1>3, <2>1 DEF ProfileStands, Agrees
<1> QED BY <1>4, <1>5, <1>6, <1>7 DEF InterestInv

\* A signal that changes drops the row, or is noted as unknown to it.
LEMMA InvChangeSignal ==
  ASSUME InterestInv, NEW v \in Watchable, ChangeLike(v) \/ ChangeSilently(v)
  PROVE  InterestInv'
<1>0. /\ InterestTypeOK /\ ExposedIsSeen /\ ProfileStands /\ computing' = Outdated
      /\ liked' \in {liked \ {v}, liked \cup {v}}
      /\ UNCHANGED <<views, exposures, due, marking, seen, forgotten>>
      /\ silent' \subseteq silent \cup {v}
  BY DEF InterestInv, ChangeLike, ChangeSilently, ChangeSignal
<1>1. /\ computing' \in ComputingType
      /\ \A c \in Computers : computing'[c] # NoWork => computing'[c].fresh = FALSE
  BY <1>0, OutdatedReads
<1>2. InterestTypeOK'
  BY <1>0, <1>1 DEF InterestTypeOK, ComputingType, Computers, Work, Recorded
<1>3. ExposedIsSeen'
  BY <1>0 DEF ExposedIsSeen, Recorded
<1>4. (\A c \in {"worker", "request"} : ReadsStand(c))'
  BY <1>1 DEF ReadsStand, Computers
<1>5. ProfileStands'
  <2>1. CASE ChangeLike(v)
    BY <2>1 DEF ChangeLike, ProfileStands
  <2>2. CASE ChangeSilently(v)
    <3>1. UNCHANGED <<profile, overtaken>> /\ silent' = silent \cup {v}
      BY <2>2 DEF ChangeSilently
    <3>2. PositiveViews' = PositiveViews
      BY <1>0 DEF PositiveViews, Filtered, Recorded
    <3>3. \A w \in Watchable : w # v => (w \in PositiveLikes' <=> w \in PositiveLikes)
      BY <1>0 DEF PositiveLikes, Filtered, Recorded
    <3>4. Agrees => Agrees'
      BY <3>1, <3>2, <3>3 DEF Agrees
    <3> QED BY <1>0, <3>1, <3>4 DEF ProfileStands
  <2> QED BY <2>1, <2>2
<1> QED BY <1>2, <1>3, <1>4, <1>5 DEF InterestInv

\* The marks leave the profile alone.
LEMMA InvMarks ==
  ASSUME InterestInv,
         ExpireSeen \/ \E i \in Recorded : MarkSeen(i) \/ Compensate(i) \/ GiveUpMark(i)
  PROVE  InterestInv'
<1>0. /\ InterestTypeOK /\ ExposedIsSeen /\ ProfileStands
      /\ UNCHANGED <<views, liked, exposures, profile, computing, likeChanges, overtaken, silent>>
  BY DEF InterestInv, MarkSeen, Compensate, GiveUpMark, ExpireSeen
<1>1. /\ PositiveViews' = PositiveViews /\ PositiveLikes' = PositiveLikes
      /\ Recorded' = Recorded
  BY <1>0, SameSignals
<1>2. /\ due' \in [{"feature", "recommendation"} -> SUBSET Recorded] /\ due'["feature"] = due["feature"]
      /\ marking' \subseteq marking
  BY <1>0 DEF InterestTypeOK, MarkSeen, Compensate, GiveUpMark, ExpireSeen
<1>3. InterestTypeOK'
  BY <1>0, <1>1, <1>2 DEF InterestTypeOK
<1>4. ExposedIsSeen'
  <2>1. /\ seen \cup forgotten \subseteq (seen \cup forgotten)'
        /\ \/ due'["recommendation"] = due["recommendation"]
           \/ \E i \in Recorded :
                /\ due'["recommendation"] = due["recommendation"] \ {i}
                /\ views[i].type = "exposed" => views[i].video \in (seen \cup forgotten)'
    BY <1>0 DEF InterestTypeOK, MarkSeen, Compensate, GiveUpMark, ExpireSeen, Compensates
  <2> QED BY <1>0, <1>1, <2>1 DEF ExposedIsSeen
<1>5. (\A c \in {"worker", "request"} : ReadsStand(c))'
  BY <1>0, <1>1 DEF InterestInv, ReadsStand
<1>6. ProfileStands'
  BY <1>0, <1>1, <1>2 DEF ProfileStands, Agrees
<1> QED BY <1>3, <1>4, <1>5, <1>6 DEF InterestInv

\* The steps that refresh the profile.
LEMMA InvCompute ==
  ASSUME InterestInv, NEW c \in Computers,
         ReadViews(c) \/ ReadLikes(c) \/ SaveProfile(c) \/ StopComputing(c)
  PROVE  InterestInv'
<1>0. /\ InterestTypeOK /\ ExposedIsSeen /\ ProfileStands /\ \A d \in Computers : ReadsStand(d)
      /\ computing \in ComputingType
      /\ UNCHANGED <<views, liked, exposures, marking, seen, likeChanges, forgotten>>
      /\ silent' \subseteq silent
  BY DEF InterestInv, ReadViews, ReadLikes, SaveProfile, StopComputing, InterestTypeOK, ComputingType,
         Computers, Work
<1>1. /\ PositiveViews' = PositiveViews /\ PositiveLikes' = PositiveLikes
      /\ Recorded' = Recorded
  BY <1>0, SameSignals
<1>2. PositiveViews \in SUBSET Nat /\ PositiveLikes \in SUBSET Watchable
  BY <1>0, ReadsAreRecorded
<1>3. /\ due' \in [{"feature", "recommendation"} -> SUBSET Recorded]
      /\ due'["recommendation"] = due["recommendation"]
  BY <1>0 DEF InterestTypeOK, ReadViews, ReadLikes, SaveProfile, StopComputing
<1>4. PICK work \in {NoWork} \cup Work :
        /\ computing' = [computing EXCEPT ![c] = work]
        /\ work # NoWork /\ work.fresh => /\ work.views = PositiveViews
                                          /\ work.step = "save" => work.likes = PositiveLikes
  <2>1. CASE ReadViews(c)
    <3>1. PICK n \in Nat :
            computing' = [computing EXCEPT ![c] = [of |-> n, views |-> PositiveViews, likes |-> {},
                                                   step |-> "likes", fresh |-> TRUE]]
      BY <1>0, <2>1 DEF ReadViews, InterestTypeOK, Recorded
    <3> DEFINE work == [of |-> n, views |-> PositiveViews, likes |-> {}, step |-> "likes", fresh |-> TRUE]
    <3>2. work \in Work /\ work.views = PositiveViews /\ work.step # "save"
      BY <1>2 DEF Work
    <3>3. computing' = [computing EXCEPT ![c] = work]
      BY <3>1
    <3> HIDE DEF work
    <3> QED BY <3>2, <3>3
  <2>2. CASE ReadLikes(c)
    <3> DEFINE work == [computing[c] EXCEPT !.likes = PositiveLikes, !.step = "save"]
    <3>1. computing[c] \in Work /\ computing' = [computing EXCEPT ![c] = work] /\ computing[c] # NoWork
      BY <1>0, <2>2 DEF ReadLikes, ComputingType
    <3>2. /\ work \in Work /\ work.views = computing[c].views /\ work.fresh = computing[c].fresh
          /\ work.likes = PositiveLikes
      BY <1>2, <3>1 DEF Work
    <3>3. ReadsStand(c)
      BY <1>0
    <3> QED BY <3>1, <3>2, <3>3 DEF ReadsStand
  <2>3. CASE SaveProfile(c) \/ StopComputing(c)
    BY <2>3 DEF SaveProfile, StopComputing
  <2> QED BY <2>1, <2>2, <2>3
<1>5. computing' \in ComputingType /\ computing'[c] = work
      /\ \A d \in Computers \ {c} : computing'[d] = computing[d]
  BY <1>0, <1>4 DEF ComputingType
<1>6. InterestTypeOK'
  BY <1>0, <1>1, <1>3, <1>5 DEF InterestTypeOK, ComputingType, Computers, Work
<1>7. ExposedIsSeen'
  BY <1>0, <1>1, <1>3 DEF ExposedIsSeen
<1>8. ASSUME NEW d \in Computers PROVE ReadsStand(d)'
  <2>1. CASE d = c
    BY <1>1, <1>4, <1>5, <2>1 DEF ReadsStand
  <2>2. CASE d # c
    BY <1>0, <1>1, <1>5, <2>2 DEF ReadsStand
  <2> QED BY <2>1, <2>2
<1>9. ProfileStands'
  <2>1. CASE ReadViews(c) \/ ReadLikes(c)
    BY <1>0, <1>1, <2>1 DEF ProfileStands, Agrees, ReadViews, ReadLikes
  <2>2. CASE SaveProfile(c)
    <3>1. /\ computing[c] # NoWork /\ computing[c].step = "save" /\ overtaken' = ~computing[c].fresh
          /\ profile' = [views |-> computing[c].views, likes |-> computing[c].likes]
      BY <2>2 DEF SaveProfile
    <3>2. computing[c].fresh \in BOOLEAN
      BY <1>0, <3>1 DEF ComputingType, Work
    <3>3. CASE computing[c].fresh
      BY <1>0, <1>1, <3>1, <3>3 DEF ReadsStand, ProfileStands, Agrees
    <3>4. CASE ~computing[c].fresh
      BY <3>1, <3>4 DEF ProfileStands, Agrees
    <3> QED BY <3>3, <3>4
  <2>3. CASE StopComputing(c)
    BY <1>0, <1>1, <2>3 DEF ProfileStands, Agrees, StopComputing
  <2> QED BY <2>1, <2>2, <2>3
<1> QED BY <1>6, <1>7, <1>8, <1>9 DEF InterestInv, Computers

LEMMA InvPassOver ==
  ASSUME InterestInv, NEW i \in Recorded, PassOver(i)
  PROVE  InterestInv'
<1>0. /\ InterestTypeOK /\ ExposedIsSeen /\ ProfileStands
      /\ UNCHANGED <<views, liked, exposures, marking, seen, profile, computing, likeChanges, forgotten, overtaken, silent>>
  BY DEF InterestInv, PassOver
<1>1. /\ PositiveViews' = PositiveViews /\ PositiveLikes' = PositiveLikes
      /\ Recorded' = Recorded
  BY <1>0, SameSignals
<1>2. /\ due' \in [{"feature", "recommendation"} -> SUBSET Recorded]
      /\ due'["feature"] = due["feature"] \ {i} /\ due'["recommendation"] = due["recommendation"]
      /\ ~AffectsInterestProfile(views[i].type)
  BY <1>0 DEF PassOver, InterestTypeOK
<1>3. InterestTypeOK' /\ ExposedIsSeen'
  BY <1>0, <1>1, <1>2 DEF InterestTypeOK, ExposedIsSeen
<1>4. (\A c \in {"worker", "request"} : ReadsStand(c))'
  BY <1>0, <1>1 DEF InterestInv, ReadsStand
<1>5. ProfileStands'
  BY <1>0, <1>1, <1>2 DEF ProfileStands, Agrees
<1> QED BY <1>3, <1>4, <1>5 DEF InterestInv

LEMMA InterestStep == InterestInv /\ [InterestNext]_interestVars => InterestInv'
<1> SUFFICES ASSUME InterestInv, [InterestNext]_interestVars PROVE InterestInv'
  OBVIOUS
<1>1. CASE UNCHANGED interestVars
  <2>1. /\ PositiveViews' = PositiveViews /\ PositiveLikes' = PositiveLikes
        /\ Recorded' = Recorded
    BY <1>1, SameSignals DEF interestVars
  <2>2. InterestTypeOK' /\ ExposedIsSeen'
    BY <1>1, <2>1 DEF interestVars, InterestInv, InterestTypeOK, ExposedIsSeen
  <2>3. (\A c \in {"worker", "request"} : ReadsStand(c))'
    BY <1>1, <2>1 DEF interestVars, InterestInv, ReadsStand
  <2>4. ProfileStands'
    BY <1>1, <2>1 DEF interestVars, InterestInv, ProfileStands, Agrees
  <2> QED BY <2>2, <2>3, <2>4 DEF InterestInv
<1>2. DOMAIN computing = Computers
  BY DEF InterestInv, InterestTypeOK, Computers
<1> QED BY <1>1, <1>2, InvRecordView, InvSaveExposure, InvChangeSignal, InvMarks, InvCompute, InvPassOver
        DEF InterestNext, SeenSteps, ProfileSteps

\* However the events are handled, the signals change with or without an invalidation, and the
\* profile is computed by the worker and by requests.
THEOREM InterestHolds == InterestSpec => []InterestInv
<1> QED BY InterestInitial, InterestStep, PTL DEF InterestSpec

\* saveUserInterestVector and InvalidateUserInterest: the row follows the signals, but for those
\* that the governance service changed since it was written.
THEOREM ProfileHolds == InterestSpec => []ProfileFollowsSignals
<1>1. InterestInv => ProfileFollowsSignals
  BY DEF InterestInv, ProfileStands, ProfileFollowsSignals
<1> QED BY <1>1, InterestHolds, PTL

\* HandleViewEventRecorded of the recommendation group: an exposed video is marked seen.
THEOREM ExposuresHold == InterestSpec => []ExposedIsSeen
<1>1. InterestInv => ExposedIsSeen
  BY DEF InterestInv
<1> QED BY <1>1, InterestHolds, PTL
=============================================================================
