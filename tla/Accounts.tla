------------------------------- MODULE Accounts -------------------------------
(***************************************************************************)
(* Accounts, the identities of other providers linked to them, and the     *)
(* action tokens sent as links: to verify an address, to reset a password  *)
(* and to open the session of an OAuth login.  Requests run their queries  *)
(* one by one, next to each other, and may stop between any two.           *)
(***************************************************************************)
EXTENDS Integers, FiniteSets, Sequences

CONSTANTS
  Emails,      \* account.account is unique: an account is known by it
  Subjects,    \* subjects of one provider
  Browsers,    \* each runs one request at a time
  NoAccount, NoSubject, Idle,
  MaxTokens    \* bound: tokens issued

ASSUME AccountsAssumption ==
  /\ NoAccount \notin Emails \cup [password : Nat, verified : BOOLEAN]
  /\ NoSubject \notin Subjects
  /\ MaxTokens \in Nat

VARIABLES
  account,   \* the row of each address: the link that set its password (0: none) and the mark
             \* that the address is verified
  identity,  \* account_external_identity: the account of each subject
  tokens,    \* account_action_token, in the order of issue
  action,    \* the request of each browser
  spent      \* how often each token was consumed, and whether a newer one had been issued

accountVars == <<account, identity, tokens, action, spent>>

Issued == 1 .. Len(tokens)
Doing(b, step) == action[b] # Idle /\ action[b].step = step
NewAccount == [password |-> 0, verified |-> FALSE]

AccountsInit ==
  /\ account = [e \in Emails |-> NoAccount]
  /\ identity = [s \in Subjects |-> NoAccount]
  /\ tokens = <<>> /\ spent = <<>>
  /\ action = [b \in Browsers |-> Idle]
----------------------------------------------------------------------------
(* Tokens.                                                                 *)

\* SaveActionToken: what was issued before, for the user and the purpose, is used up and deleted.
SaveActionToken(user, purpose, subject) ==
  /\ Len(tokens) < MaxTokens
  /\ tokens' = Append([i \in Issued |->
                         IF tokens[i].user = user /\ tokens[i].purpose = purpose
                         THEN [tokens[i] EXCEPT !.state = "deleted"] ELSE tokens[i]],
                      [user |-> user, purpose |-> purpose, subject |-> subject, state |-> "unused"])
  /\ spent' = Append(spent, [times |-> 0, late |-> FALSE])

\* Only an address that lacks the mark is sent this link,
SendEmailVerification(e) ==
  /\ account[e] # NoAccount /\ ~account[e].verified
  /\ SaveActionToken(e, "verify_email", NoSubject)
  /\ UNCHANGED <<account, identity, action>>

\* and only one that has it this one.
RequestPasswordReset(e) ==
  /\ account[e] # NoAccount /\ account[e].verified
  /\ SaveActionToken(e, "reset_password", NoSubject)
  /\ UNCHANGED <<account, identity, action>>

ExpireToken(i) ==
  /\ tokens[i].state = "unused"
  /\ tokens' = [tokens EXCEPT ![i].state = "expired"]
  /\ UNCHANGED <<account, identity, action, spent>>

\* ConsumeActionToken, its two statements: the row is read,
TakeToken(b, i) ==
  /\ action[b] = Idle
  /\ tokens[i].state = "unused"
  /\ action' = [action EXCEPT ![b] = [step |-> "spend", token |-> i]]
  /\ UNCHANGED <<account, identity, tokens, spent>>

Consumed(i) ==
  [spent EXCEPT ![i] =
     [times |-> @.times + 1,
      late  |-> @.late \/ \E j \in Issued : j > i /\ tokens[j].user = tokens[i].user
                                             /\ tokens[j].purpose = tokens[i].purpose]]

\* Mutant: the row is updated by its id alone.
SpendTaken(b) ==
  /\ Doing(b, "spend")
  /\ LET i == action[b].token IN
       /\ tokens[i].state # "deleted"
       /\ tokens' = [tokens EXCEPT ![i].state = "used"]
       /\ spent' = Consumed(i)
       /\ action' = [action EXCEPT ![b].step = tokens[i].purpose]
  /\ UNCHANGED <<account, identity>>

\* and updated where used_at is still null; no row is an invalid token.
SpendToken(b) ==
  /\ Doing(b, "spend")
  /\ LET i == action[b].token IN
       \/ /\ tokens[i].state \in {"unused", "expired"}
          /\ tokens' = [tokens EXCEPT ![i].state = "used"]
          /\ spent' = Consumed(i)
          /\ action' = [action EXCEPT ![b].step = tokens[i].purpose]
       \/ /\ tokens[i].state \in {"used", "deleted"}
          /\ action' = [action EXCEPT ![b] = Idle]
          /\ UNCHANGED <<tokens, spent>>
  /\ UNCHANGED <<account, identity>>

UserOf(b) == tokens[action[b].token].user

\* What a spent link is for; the session it opens is no row.
VerifyEmail(b) ==
  /\ Doing(b, "verify_email")
  /\ account' = [account EXCEPT ![UserOf(b)].verified = TRUE]
  /\ action' = [action EXCEPT ![b] = Idle]
  /\ UNCHANGED <<identity, tokens, spent>>

ResetPassword(b) ==
  /\ Doing(b, "reset_password")
  /\ account' = [account EXCEPT ![UserOf(b)].password = action[b].token]
  /\ action' = [action EXCEPT ![b] = Idle]
  /\ UNCHANGED <<identity, tokens, spent>>

ExchangeOAuthSession(b) ==
  /\ Doing(b, "oauth_session")
  /\ action' = [action EXCEPT ![b] = Idle]
  /\ UNCHANGED <<account, identity, tokens, spent>>
----------------------------------------------------------------------------
(* Registration and OAuth.                                                 *)

\* Register; the link it sends is SendEmailVerification.
Register(e) ==
  /\ account[e] = NoAccount
  /\ account' = [account EXCEPT ![e] = NewAccount]
  /\ UNCHANGED <<identity, tokens, action, spent>>

GoTo(b, step, user) == action' = [action EXCEPT ![b].step = step, ![b].user = user]

\* OAuthCallback: the provider gives a subject with a verified address, which may have changed.
Callback(b) ==
  /\ action[b] = Idle
  /\ \E s \in Subjects, e \in Emails :
       action' = [action EXCEPT ![b] = [step |-> "identity", subject |-> s, email |-> e,
                                        user |-> NoAccount]]
  /\ UNCHANGED <<account, identity, tokens, spent>>

FindIdentity(b) ==
  /\ Doing(b, "identity")
  /\ IF identity[action[b].subject] # NoAccount
     THEN GoTo(b, "issue", identity[action[b].subject])
     ELSE GoTo(b, "account", NoAccount)
  /\ UNCHANGED <<account, identity, tokens, spent>>

FindAccount(b) ==
  /\ Doing(b, "account")
  /\ IF account[action[b].email] # NoAccount
     THEN GoTo(b, "mark", action[b].email)
     ELSE GoTo(b, "create", NoAccount)
  /\ UNCHANGED <<account, identity, tokens, spent>>

\* An address that has been registered meanwhile is an error.
CreateAccount(b) ==
  /\ Doing(b, "create")
  /\ \/ /\ account[action[b].email] = NoAccount
        /\ account' = [account EXCEPT ![action[b].email] = NewAccount]
        /\ GoTo(b, "mark", action[b].email)
     \/ /\ account[action[b].email] # NoAccount
        /\ action' = [action EXCEPT ![b] = Idle]
        /\ UNCHANGED account
  /\ UNCHANGED <<identity, tokens, spent>>

MarkVerified(b) ==
  /\ Doing(b, "mark")
  /\ account' = [account EXCEPT ![action[b].user].verified = TRUE]
  /\ GoTo(b, "link", action[b].user)
  /\ UNCHANGED <<identity, tokens, spent>>

Link(b, user) == identity' = [identity EXCEPT ![action[b].subject] = user]

\* LinkExternalIdentity; the account of an identity that exists by now is taken instead.
LinkIdentity(b) ==
  /\ Doing(b, "link")
  /\ \/ /\ identity[action[b].subject] = NoAccount
        /\ Link(b, action[b].user)
        /\ GoTo(b, "issue", action[b].user)
     \/ /\ identity[action[b].subject] # NoAccount
        /\ GoTo(b, "issue", identity[action[b].subject])
        /\ UNCHANGED identity
  /\ UNCHANGED <<account, tokens, spent>>

\* Mutant: the session is that of the address the provider gave.
IssueToAddress(b) ==
  /\ Doing(b, "issue")
  /\ SaveActionToken(action[b].email, "oauth_session", action[b].subject)
  /\ action' = [action EXCEPT ![b] = Idle]
  /\ UNCHANGED <<account, identity>>

IssueSession(b) ==
  /\ Doing(b, "issue")
  /\ SaveActionToken(action[b].user, "oauth_session", action[b].subject)
  /\ action' = [action EXCEPT ![b] = Idle]
  /\ UNCHANGED <<account, identity>>

\* A query fails, the request times out or the process stops.
StopAction(b) ==
  /\ action[b] # Idle
  /\ action' = [action EXCEPT ![b] = Idle]
  /\ UNCHANGED <<account, identity, tokens, spent>>

AccountsNext ==
  \/ \E e \in Emails : Register(e) \/ SendEmailVerification(e) \/ RequestPasswordReset(e)
  \/ \E i \in Issued : ExpireToken(i) \/ \E b \in Browsers : TakeToken(b, i)
  \/ \E b \in Browsers :
       \/ SpendToken(b) \/ VerifyEmail(b) \/ ResetPassword(b) \/ ExchangeOAuthSession(b)
       \/ StopAction(b)
       \/ Callback(b) \/ FindIdentity(b) \/ FindAccount(b) \/ CreateAccount(b)
       \/ MarkVerified(b) \/ LinkIdentity(b) \/ IssueSession(b)

AccountsSpec == AccountsInit /\ [][AccountsNext]_accountVars
----------------------------------------------------------------------------
(* Properties.                                                             *)

\* A link is spent once, whoever opens it twice at a time, and never after a newer one of the
\* same purpose has been sent to the same account.
LinksSpentOnce == \A i \in Issued : spent[i].times <= 1 /\ ~spent[i].late

\* The session an OAuth login is given is the one of the account its subject is linked to,
\* though two logins of the subject, with two addresses, created and linked accounts together.
SessionsFollowIdentity ==
  \A i \in Issued :
    tokens[i].purpose = "oauth_session" => tokens[i].user = identity[tokens[i].subject]

\* A password was set by a link that was sent to this account to reset it, and was consumed.
PasswordsByLink ==
  \A e \in Emails :
    account[e] # NoAccount /\ account[e].password # 0 =>
      LET i == account[e].password
      IN  /\ i \in Issued /\ spent[i].times = 1
          /\ tokens[i].user = e /\ tokens[i].purpose = "reset_password"

Purposes   == {"verify_email", "reset_password", "oauth_session"}
Token      == [user : Emails, purpose : Purposes, subject : Subjects \cup {NoSubject},
               state : {"unused", "expired", "used", "deleted"}]
LinkStep   == [step : Purposes \cup {"spend"}, token : Nat]
LoginSteps == {"identity", "account", "create", "mark", "link", "issue"}
LoginStep  == [step : LoginSteps, subject : Subjects, email : Emails, user : Emails \cup {NoAccount}]

AccountsTypeOK ==
  /\ account \in [Emails -> {NoAccount} \cup [password : Nat, verified : BOOLEAN]]
  /\ identity \in [Subjects -> Emails \cup {NoAccount}]
  /\ tokens \in Seq(Token)
  /\ spent \in Seq([times : Nat, late : BOOLEAN])
  /\ action \in [Browsers -> {Idle} \cup LinkStep \cup LoginStep]

Registered(e) == e \in Emails /\ account[e] # NoAccount

\* A link that may still be spent has not been, and is the newest of its purpose.
OpenLinks ==
  \A i \in Issued :
    tokens[i].state \in {"unused", "expired"} =>
      /\ spent[i].times = 0
      /\ \A j \in Issued : j > i => tokens[j].user # tokens[i].user
                                     \/ tokens[j].purpose # tokens[i].purpose

\* A browser with a link in hand has spent it, or is about to.
LinkInHand(b) ==
  action[b] # Idle /\ action[b].step \in Purposes \cup {"spend"} =>
    /\ action[b].token \in Issued
    /\ action[b].step # "spend" => /\ tokens[action[b].token].purpose = action[b].step
                                   /\ spent[action[b].token].times = 1

\* A login that goes on has an account, and one that is answered that of its subject.
LoginInHand(b) ==
  /\ Doing(b, "mark") \/ Doing(b, "link") \/ Doing(b, "issue") => Registered(action[b].user)
  /\ Doing(b, "issue") => identity[action[b].subject] = action[b].user

\* Inductive: who has an account, which links may still be spent, and what each request knows.
AccountsInv ==
  /\ AccountsTypeOK
  /\ Len(spent) = Len(tokens)
  /\ LinksSpentOnce /\ OpenLinks /\ SessionsFollowIdentity /\ PasswordsByLink
  /\ \A b \in Browsers : LinkInHand(b) /\ LoginInHand(b)
  /\ \A i \in Issued : Registered(tokens[i].user)
  /\ \A i \in Issued : tokens[i].purpose = "oauth_session" => tokens[i].subject \in Subjects
  /\ \A s \in Subjects : identity[s] # NoAccount => Registered(identity[s])
============================================================================
