------------------------------ MODULE Accounts ------------------------------
(***************************************************************************)
(* Registration, login by password, login through a provider, refresh and  *)
(* logout: AuthService and OAuthService over the tables users, wallets,    *)
(* wallet_transactions, auth_identities and refresh_tokens.                *)
(*                                                                         *)
(* A request is a session.  Statements outside a transaction commit at     *)
(* once; registration is one transaction, whose rows nobody sees before    *)
(* COMMIT, except through the two UNIQUE indexes: an INSERT of a key that  *)
(* an open transaction has inserted waits for it, and fails if the key is  *)
(* committed.  Rows of users, wallets and identities are never deleted.    *)
(* Names, avatars, roles, last_login_at and the signatures of tokens are   *)
(* left out.                                                               *)
(***************************************************************************)
EXTENDS Integers, Sequences, FiniteSets

CONSTANTS
  Sessions,
  Emails,
  ExternalIds,     \* accounts at the providers: (provider, provider_user_id)
  signupBonus,
  MaxUsers, MaxTokens,   \* bounds on the ids handed out
  MaxFaults        \* bound: lost connections, cancelled contexts, crashes

VARIABLES
  db,       \* the committed rows of users, auth_identities and wallets
  tx,       \* the rows inserted by the open transaction of each session
  tokens,   \* refresh_tokens
  userSeq,  \* the id sequence of users; a rollback does not turn it back
  pc, req,  \* where a request is, and what it knows
  faults

vars == <<db, tx, tokens, userSeq, pc, req, faults>>

NULL == <<>>

ASSUME AccountsConstantsOK ==
  /\ NULL \notin Emails /\ NULL \notin ExternalIds
  /\ signupBonus \in Nat /\ MaxUsers \in Nat /\ MaxTokens \in Nat /\ MaxFaults \in Nat

UserIds == 1..MaxUsers

\* A wallet with its journal, as registration leaves it.
SignupWallet(id) ==
  [user |-> id, balance |-> signupBonus,
   journal |-> <<[amount |-> signupBonus, after |-> signupBonus]>>]

UserRows     == [id: UserIds, email: {NULL} \cup Emails, password: BOOLEAN]
IdentityRows == [account: ExternalIds, user: UserIds]
WalletRows   == {SignupWallet(id) : id \in UserIds}

Tables == [users: SUBSET UserRows, identities: SUBSET IdentityRows, wallets: SUBSET WalletRows]

NoRows == [users |-> {}, identities |-> {}, wallets |-> {}]

Requests == [account: {NULL} \cup ExternalIds, email: {NULL} \cup Emails, user: {0} \cup UserIds,
             token: {0} \cup 1..MaxTokens]

NoRequest == [account |-> NULL, email |-> NULL, user |-> 0, token |-> 0]

TypeOK ==
  /\ db \in Tables
  /\ tx \in [Sessions -> Tables]
  /\ tokens \in SUBSET [id: 1..MaxTokens, user: UserIds, revoked: BOOLEAN, expired: BOOLEAN]
  /\ userSeq \in 0..MaxUsers
  /\ pc \in [Sessions -> {"idle", "lookup", "link", "create", "identity", "commit", "issue",
                          "access", "revoke"}]
  /\ req \in [Sessions -> Requests]
  /\ faults \in 0..MaxFaults

Init ==
  /\ db = NoRows
  /\ tx = [s \in Sessions |-> NoRows]
  /\ tokens = {}
  /\ userSeq = 0
  /\ pc = [s \in Sessions |-> "idle"]
  /\ req = [s \in Sessions |-> NoRequest]
  /\ faults = 0

EmailsIn(rows)   == {u.email : u \in rows.users} \ {NULL}
AccountsIn(rows) == {i.account : i \in rows.identities}

Goto(s, label) == pc' = [pc EXCEPT ![s] = label]

Finish(s) ==
  /\ Goto(s, "idle")
  /\ req' = [req EXCEPT ![s] = NoRequest]
  /\ tx' = [tx EXCEPT ![s] = NoRows]

-----------------------------------------------------------------------------
(***************************************************************************)
(* The requests and their reads.                                           *)
(***************************************************************************)

Arrive(s, label, request) ==
  /\ pc[s] = "idle"
  /\ Goto(s, label)
  /\ req' = [req EXCEPT ![s] = request]
  /\ UNCHANGED <<db, tx, tokens, userSeq, faults>>

Register(s, email) == Arrive(s, "create", [NoRequest EXCEPT !.email = email])

\* A missing user, a user without a password and a wrong one are refused.
Login(s, email) ==
  \E u \in db.users :
    /\ u.email = email
    /\ u.password
    /\ Arrive(s, "issue", [NoRequest EXCEPT !.user = u.id])

\* LoginOrRegister, scenario 1: the account is known.
LoginByIdentity(s, account) ==
  \E i \in db.identities :
    /\ i.account = account
    /\ Arrive(s, "issue", [NoRequest EXCEPT !.account = account, !.user = i.user])

\* It is not: look for the e-mail the provider reports, if it does.
LoginOrRegister(s, account, email) ==
  /\ account \notin AccountsIn(db)
  /\ Arrive(s, IF email = NULL THEN "create" ELSE "lookup",
            [NoRequest EXCEPT !.account = account, !.email = email])

\* Scenario 2 or 3.
LooksUpEmail(s) ==
  /\ pc[s] = "lookup"
  /\ \/ \E u \in db.users : /\ u.email = req[s].email
                            /\ Goto(s, "link")
                            /\ req' = [req EXCEPT ![s].user = u.id]
     \/ /\ req[s].email \notin EmailsIn(db)
        /\ Goto(s, "create")
        /\ UNCHANGED req
  /\ UNCHANGED <<db, tx, tokens, userSeq, faults>>

-----------------------------------------------------------------------------
(***************************************************************************)
(* Inserts under a UNIQUE index.                                           *)
(***************************************************************************)

MutantSeesCommittedOnly(s) == req[s].email \notin EmailsIn(db)

EmailIsFree(s) ==
  /\ req[s].email \notin EmailsIn(db)
  /\ \A t \in Sessions : req[s].email \notin EmailsIn(tx[t])

AccountIsFree(s) ==
  /\ req[s].account \notin AccountsIn(db)
  /\ \A t \in Sessions : req[s].account \notin AccountsIn(tx[t])

MutantOnConflictDoNothing(s) ==
  /\ pc[s] = "link"
  /\ db' = IF AccountIsFree(s)
             THEN [db EXCEPT !.identities = @ \cup {[account |-> req[s].account, user |-> req[s].user]}]
             ELSE db
  /\ Goto(s, "issue")
  /\ UNCHANGED <<tx, tokens, userSeq, req, faults>>

\* Scenario 2: one INSERT, committed at once.
LinkIdentity(s) ==
  /\ pc[s] = "link"
  /\ AccountIsFree(s)
  /\ db' = [db EXCEPT !.identities = @ \cup {[account |-> req[s].account, user |-> req[s].user]}]
  /\ Goto(s, "issue")
  /\ UNCHANGED <<tx, tokens, userSeq, req, faults>>

\* Where a registration goes after the wallet.
AfterWallet(s) == IF req[s].account = NULL THEN "commit" ELSE "identity"

MutantUserOutsideTx(s) ==
  /\ pc[s] = "create"
  /\ userSeq < MaxUsers
  /\ EmailIsFree(s)
  /\ userSeq' = userSeq + 1
  /\ db' = [db EXCEPT !.users = @ \cup {[id |-> userSeq', email |-> req[s].email,
                                        password |-> req[s].account = NULL]}]
  /\ tx' = [tx EXCEPT ![s].wallets = {SignupWallet(userSeq')}]
  /\ req' = [req EXCEPT ![s].user = userSeq']
  /\ Goto(s, AfterWallet(s))
  /\ UNCHANGED <<tokens, faults>>

\* The user, then the wallet, its lock, the bonus and the journal row, which
\* concern a user nobody else can name yet: one step.
CreateUser(s) ==
  /\ pc[s] = "create"
  /\ userSeq < MaxUsers
  /\ EmailIsFree(s)
  /\ userSeq' = userSeq + 1
  /\ tx' = [tx EXCEPT ![s].users = {[id |-> userSeq', email |-> req[s].email,
                                     password |-> req[s].account = NULL]},
                      ![s].wallets = {SignupWallet(userSeq')}]
  /\ req' = [req EXCEPT ![s].user = userSeq']
  /\ Goto(s, AfterWallet(s))
  /\ UNCHANGED <<db, tokens, faults>>

CreateIdentity(s) ==
  /\ pc[s] = "identity"
  /\ AccountIsFree(s)
  /\ tx' = [tx EXCEPT ![s].identities = {[account |-> req[s].account, user |-> req[s].user]}]
  /\ Goto(s, "commit")
  /\ UNCHANGED <<db, tokens, userSeq, req, faults>>

Commit(s) ==
  /\ pc[s] = "commit"
  /\ db' = [users      |-> db.users \cup tx[s].users,
            identities |-> db.identities \cup tx[s].identities,
            wallets    |-> db.wallets \cup tx[s].wallets]
  /\ tx' = [tx EXCEPT ![s] = NoRows]
  /\ Goto(s, "issue")
  /\ UNCHANGED <<tokens, userSeq, req, faults>>

MutantKeepsTxOpen(s) == Goto(s, "idle") /\ UNCHANGED <<req, tx>>

Rollback(s) == Finish(s)

\* ErrConflict: the key has been committed by somebody else; the request fails.
\* So does one that meets the bound on user ids.
Conflict(s) ==
  /\ \/ pc[s] = "create" /\ (req[s].email \in EmailsIn(db) \/ userSeq = MaxUsers)
     \/ pc[s] \in {"link", "identity"} /\ req[s].account \in AccountsIn(db)
  /\ Rollback(s)
  /\ UNCHANGED <<db, tokens, userSeq, faults>>

-----------------------------------------------------------------------------
(***************************************************************************)
(* Tokens.                                                                 *)
(***************************************************************************)

MutantBeforeInsert(s) == pc[s] \in {"create", "issue"}

MutantBeforeCommit(s) == pc[s] \in {"commit", "issue"}

MayIssue(s) == pc[s] = "issue"

\* The refresh token is stored, the response carries it and an access token.
issueTokens(s) ==
  /\ MayIssue(s)
  /\ \E id \in 1..MaxTokens :
       /\ \A t \in tokens : t.id # id
       /\ tokens' = tokens \cup {[id |-> id, user |-> req[s].user,
                                  revoked |-> FALSE, expired |-> FALSE]}
  /\ Finish(s)
  /\ UNCHANGED <<db, userSeq, faults>>

\* The bound on token ids: like an error of the INSERT.
NoTokenLeft(s) ==
  /\ pc[s] = "issue"
  /\ Cardinality(tokens) = MaxTokens
  /\ Finish(s)
  /\ UNCHANGED <<db, tokens, userSeq, faults>>

\* Refresh reads and checks the token, then reads its user; no rotation.
Refresh(s) ==
  \E t \in tokens :
    /\ ~t.revoked
    /\ ~t.expired
    /\ Arrive(s, "access", [NoRequest EXCEPT !.user = t.user, !.token = t.id])

SignAccess(s) ==
  /\ pc[s] = "access"
  /\ \E u \in db.users : u.id = req[s].user
  /\ Finish(s)
  /\ UNCHANGED <<db, tokens, userSeq, faults>>

Logout(s) ==
  \E t \in tokens : Arrive(s, "revoke", [NoRequest EXCEPT !.token = t.id])

Revoke(s) ==
  /\ pc[s] = "revoke"
  /\ tokens' = {IF t.id = req[s].token THEN [t EXCEPT !.revoked = TRUE] ELSE t : t \in tokens}
  /\ Finish(s)
  /\ UNCHANGED <<db, userSeq, faults>>

\* The clock passes expires_at.
Expire ==
  /\ \E t \in tokens : tokens' = (tokens \ {t}) \cup {[t EXCEPT !.expired = TRUE]}
  /\ UNCHANGED <<db, tx, userSeq, pc, req, faults>>

-----------------------------------------------------------------------------
\* Client gone, connection lost, process killed: the open transaction is rolled
\* back, what was committed stays.
Fault(s) ==
  /\ pc[s] # "idle"
  /\ faults < MaxFaults
  /\ faults' = faults + 1
  /\ Rollback(s)
  /\ UNCHANGED <<db, tokens, userSeq>>

\* AuthHandler.Register and Login.
PasswordRequest(s) == \E email \in Emails : Register(s, email) \/ Login(s, email)

\* OAuthHandler.Callback: an account at a provider, with an address or without.
CallbackRequest(s) ==
  \E account \in ExternalIds :
    \/ LoginByIdentity(s, account)
    \/ \E email \in {NULL} \cup Emails : LoginOrRegister(s, account, email)

\* AuthHandler.Refresh and Logout, with a token from the cookie or the body;
\* without one nothing happens.
TokenRequest(s) == Refresh(s) \/ Logout(s)

Call(s) == PasswordRequest(s) \/ CallbackRequest(s) \/ TokenRequest(s)

Step(s) ==
  \/ LooksUpEmail(s) \/ LinkIdentity(s) \/ CreateUser(s) \/ CreateIdentity(s) \/ Commit(s)
  \/ Conflict(s) \/ issueTokens(s) \/ NoTokenLeft(s) \/ SignAccess(s) \/ Revoke(s)

Next == Expire \/ \E s \in Sessions : Call(s) \/ Step(s) \/ Fault(s)

Spec == Init /\ [][Next]_vars

\* A statement that can run is run; a wait for another transaction's key ends
\* when that transaction does.
Fairness == \A s \in Sessions : SF_vars(Step(s))

FairSpec == Spec /\ Fairness

-----------------------------------------------------------------------------
(***************************************************************************)
(* Properties.                                                             *)
(***************************************************************************)

\* Every user has one wallet with one signup bonus in its journal, and no wallet
\* is without a user, whatever fails in the middle of a registration or runs
\* beside it (the transactions of Register and LoginOrRegister).
EveryUserHasOneBonus == db.wallets = {SignupWallet(u.id) : u \in db.users}

\* An e-mail address and an account at a provider each lead to one user, so that
\* nobody collects a second bonus by registering twice at once: requests check
\* with one statement and insert with another, and only the indexes of users and
\* auth_identities stand between two of them.
KeysNameOneUser ==
  /\ \A u, v \in db.users : /\ u.id = v.id => u = v
                            /\ u.email = v.email /\ u.email # NULL => u = v
  /\ \A i, j \in db.identities : i.account = j.account => i = j

\* Whoever comes from a provider is logged in as the user that account is linked
\* to, by all three scenarios and however many callbacks overlap.
CallbackLogsInTheOwner ==
  \A s \in Sessions :
    pc[s] = "issue" /\ req[s].account # NULL =>
      [account |-> req[s].account, user |-> req[s].user] \in db.identities

\* "если транзакция откатилась, не должно остаться «живых» токенов для
\* несуществующего пользователя" (auth_service.go:66-67): every token belongs to
\* a committed user, and a refresh finds the user of its token.
TokensHaveOwners ==
  /\ \A t \in tokens : \E u \in db.users : u.id = t.user
  /\ \A s \in Sessions : pc[s] = "access" => \E u \in db.users : u.id = req[s].user

\* Every request ends: no set of registrations, links and logins waits for each
\* other's keys in a circle (the e-mail is always inserted before the identity),
\* and the database is left no wait cycle to break.
EveryRequestEnds == \A s \in Sessions : pc[s] # "idle" ~> pc[s] = "idle"
=============================================================================
