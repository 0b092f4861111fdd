-------------------------- MODULE Accounts_proofs ---------------------------
(***************************************************************************)
(* Theorems about Accounts, for any sessions, addresses, provider accounts *)
(* and bounds.  The inductive invariant says what each request has written *)
(* at each point, and that the keys and ids written by different open      *)
(* registrations differ from each other and from the committed ones.       *)
(***************************************************************************)
EXTENDS Accounts, TLAPS

\* The user row and the wallet are written, COMMIT has not run.
Registering(s) == pc[s] \in {"identity", "commit"}

\* The registration has written its identity too.
HoldsAccount(s) == pc[s] = "commit" /\ req[s].account # NULL

MyUser(s)     == [id |-> req[s].user, email |-> req[s].email, password |-> req[s].account = NULL]
MyIdentity(s) == [account |-> req[s].account, user |-> req[s].user]

TxOK ==
  \A s \in Sessions :
    tx[s] = [users      |-> IF Registering(s) THEN {MyUser(s)} ELSE {},
             identities |-> IF HoldsAccount(s) THEN {MyIdentity(s)} ELSE {},
             wallets    |-> IF Registering(s) THEN {SignupWallet(req[s].user)} ELSE {}]

IdsOK ==
  /\ \A u \in db.users : u.id <= userSeq
  /\ \A s \in Sessions : Registering(s) => /\ req[s].user \in 1..userSeq
                                           /\ \A u \in db.users : u.id # req[s].user
  /\ \A s, t \in Sessions : Registering(s) /\ Registering(t) /\ s # t => req[s].user # req[t].user

EmailsOK ==
  /\ \A s \in Sessions : Registering(s) => \A u \in db.users : u.email = req[s].email => u.email = NULL
  /\ \A s, t \in Sessions :
       Registering(s) /\ Registering(t) /\ s # t /\ req[s].email = req[t].email => req[s].email = NULL

AccountsOK ==
  /\ \A s \in Sessions : HoldsAccount(s) => \A i \in db.identities : i.account # req[s].account
  /\ \A s, t \in Sessions :
       HoldsAccount(s) /\ HoldsAccount(t) /\ s # t => req[s].account # req[t].account

\* What a request knows from its reads stays true.
KnowledgeOK ==
  \A s \in Sessions :
    /\ pc[s] \in {"lookup", "link", "identity"} => req[s].account # NULL
    /\ pc[s] \in {"link", "issue"} => \E u \in db.users : u.id = req[s].user

\* auth_identities.user_id references users.
IdentitiesHaveUsers == \A i \in db.identities : \E u \in db.users : u.id = i.user

IInv ==
  /\ IdentitiesHaveUsers
  /\ TypeOK /\ TxOK /\ IdsOK /\ EmailsOK /\ AccountsOK /\ KnowledgeOK
  /\ EveryUserHasOneBonus /\ KeysNameOneUser /\ CallbackLogsInTheOwner /\ TokensHaveOwners

-----------------------------------------------------------------------------
\* The empty database.
LEMMA InitIInv == Init => IInv
<1> SUFFICES ASSUME Init PROVE IInv
  OBVIOUS
<1>1. TypeOK
  BY AccountsConstantsOK DEF Init, TypeOK, Tables, NoRows, Requests, NoRequest
<1>2. TxOK /\ IdsOK /\ EmailsOK /\ AccountsOK /\ KnowledgeOK /\ IdentitiesHaveUsers
  BY DEF Init, TxOK, IdsOK, EmailsOK, AccountsOK, KnowledgeOK, IdentitiesHaveUsers, Registering,
         HoldsAccount, NoRows
<1>3. EveryUserHasOneBonus /\ KeysNameOneUser /\ CallbackLogsInTheOwner /\ TokensHaveOwners
  BY DEF Init, EveryUserHasOneBonus, KeysNameOneUser, CallbackLogsInTheOwner, TokensHaveOwners, NoRows
<1> QED
  BY <1>1, <1>2, <1>3 DEF IInv

\* A session that holds no keys afterwards, while the tables stay as they are,
\* disturbs nobody.
LEMMA MoveIInv ==
  ASSUME IInv, NEW s \in Sessions, NEW label, NEW request \in Requests,
         label \in {"idle", "lookup", "link", "create", "issue", "access", "revoke"},
         label \in {"lookup", "link"} => request.account # NULL,
         label \in {"link", "issue", "access"} => \E u \in db.users : u.id = request.user,
         label = "issue" /\ request.account # NULL =>
           [account |-> request.account, user |-> request.user] \in db.identities,
         Goto(s, label), req' = [req EXCEPT ![s] = request], tx' = [tx EXCEPT ![s] = NoRows],
         UNCHANGED <<db, userSeq>>, faults' \in 0..MaxFaults,
         tokens' \in SUBSET [id: 1..MaxTokens, user: UserIds, revoked: BOOLEAN, expired: BOOLEAN],
         \A t \in tokens' : \E u \in db.users : u.id = t.user
  PROVE  IInv'
<1> USE DEF IInv
<1>1. pc' = [pc EXCEPT ![s] = label]
  BY DEF Goto
<1>2. TypeOK'
  BY <1>1 DEF TypeOK, Tables, NoRows
<1>3. /\ ~Registering(s)' /\ ~HoldsAccount(s)'
      /\ \A t \in Sessions : t # s => /\ Registering(t)' = Registering(t)
                                      /\ HoldsAccount(t)' = HoldsAccount(t)
                                      /\ req'[t] = req[t] /\ pc'[t] = pc[t] /\ tx'[t] = tx[t]
      /\ req'[s] = request /\ pc'[s] = label /\ tx'[s] = NoRows
  BY <1>1 DEF TypeOK, Registering, HoldsAccount
<1>4. TxOK'
  BY <1>3, ZenonT(60) DEF TxOK, MyUser, MyIdentity, NoRows
<1>5. IdsOK' /\ EmailsOK' /\ AccountsOK'
  BY <1>3 DEF IdsOK, EmailsOK, AccountsOK
<1>6. KnowledgeOK'
  BY <1>3 DEF KnowledgeOK
<1>7. EveryUserHasOneBonus' /\ KeysNameOneUser' /\ IdentitiesHaveUsers'
  BY DEF EveryUserHasOneBonus, KeysNameOneUser, IdentitiesHaveUsers
<1>8. CallbackLogsInTheOwner'
  BY <1>3 DEF CallbackLogsInTheOwner
<1>9. TokensHaveOwners'
  BY <1>3 DEF TokensHaveOwners
<1> QED
  BY <1>2, <1>4, <1>5, <1>6, <1>7, <1>8, <1>9

\* A session outside a registration has written nothing that is not committed.
LEMMA NothingOpen ==
  ASSUME IInv, NEW s \in Sessions, ~Registering(s)
  PROVE  tx = [tx EXCEPT ![s] = NoRows]
<1>1. tx[s] = NoRows
  BY DEF IInv, TxOK, HoldsAccount, Registering, NoRows
<1> QED
  BY <1>1 DEF IInv, TypeOK

\* What the open transaction of a session holds under the two indexes.
LEMMA OpenKeys ==
  ASSUME IInv, NEW t \in Sessions
  PROVE  /\ Registering(t) => req[t].email = NULL \/ req[t].email \in EmailsIn(tx[t])
         /\ HoldsAccount(t) => req[t].account \in AccountsIn(tx[t])
<1> DEFINE U == IF Registering(t) THEN {MyUser(t)} ELSE {}
           I == IF HoldsAccount(t) THEN {MyIdentity(t)} ELSE {}
           W == IF Registering(t) THEN {SignupWallet(req[t].user)} ELSE {}
<1>1. tx[t] = [users |-> U, identities |-> I, wallets |-> W]
  BY DEF IInv, TxOK
<1> HIDE DEF U, I, W
<1>2. tx[t].users = U /\ tx[t].identities = I
  BY <1>1
<1>3. MyUser(t).email = req[t].email /\ MyIdentity(t).account = req[t].account
  BY DEF MyUser, MyIdentity
<1>4. /\ Registering(t) => MyUser(t) \in U
      /\ HoldsAccount(t) => MyIdentity(t) \in I
  BY DEF U, I
<1> QED
  BY <1>2, <1>3, <1>4 DEF EmailsIn, AccountsIn

\* A new request.
LEMMA ArriveIInv ==
  ASSUME IInv, NEW s \in Sessions, NEW label, NEW request \in Requests,
         label \in {"lookup", "create", "issue", "access", "revoke"},
         label = "lookup" => request.account # NULL,
         label \in {"issue", "access"} => \E u \in db.users : u.id = request.user,
         label = "issue" /\ request.account # NULL =>
           [account |-> request.account, user |-> request.user] \in db.identities,
         Arrive(s, label, request)
  PROVE  IInv'
<1>1. tx' = [tx EXCEPT ![s] = NoRows]
  BY NothingOpen DEF Arrive, Registering
<1>2. UNCHANGED <<db, userSeq>> /\ faults' \in 0..MaxFaults
  BY DEF Arrive, IInv, TypeOK
<1>3. /\ tokens' \in SUBSET [id: 1..MaxTokens, user: UserIds, revoked: BOOLEAN, expired: BOOLEAN]
      /\ \A t \in tokens' : \E u \in db.users : u.id = t.user
  BY DEF Arrive, IInv, TypeOK, TokensHaveOwners
<1>4. Goto(s, label) /\ req' = [req EXCEPT ![s] = request]
  BY DEF Arrive
<1> QED
  BY <1>1, <1>2, <1>3, <1>4, MoveIInv

\* The end of a request: of one that holds no keys, or by rollback.
LEMMA FinishIInv ==
  ASSUME IInv, NEW s \in Sessions, Finish(s),
         UNCHANGED <<db, userSeq>>, faults' \in 0..MaxFaults,
         tokens' \in SUBSET [id: 1..MaxTokens, user: UserIds, revoked: BOOLEAN, expired: BOOLEAN],
         \A t \in tokens' : \E u \in db.users : u.id = t.user
  PROVE  IInv'
<1>1. NoRequest \in Requests
  BY DEF NoRequest, Requests
<1> QED
  BY <1>1, MoveIInv DEF Finish

\* A request arrives and makes its first read.
LEMMA CallIInv ==
  ASSUME IInv, NEW s \in Sessions, Call(s)
  PROVE  IInv'
<1> USE AccountsConstantsOK
<1>1. ASSUME NEW email \in Emails, Register(s, email)
      PROVE  IInv'
  <2>1. [NoRequest EXCEPT !.email = email] \in Requests
    BY DEF NoRequest, Requests
  <2> QED
    BY <1>1, <2>1, ArriveIInv DEF Register
<1>2. ASSUME NEW email \in Emails, Login(s, email)
      PROVE  IInv'
  <2>1. PICK u \in db.users : Arrive(s, "issue", [NoRequest EXCEPT !.user = u.id])
    BY <1>2 DEF Login
  <2>2. /\ [NoRequest EXCEPT !.user = u.id] \in Requests
        /\ [NoRequest EXCEPT !.user = u.id].account = NULL
        /\ [NoRequest EXCEPT !.user = u.id].user = u.id
    BY DEF NoRequest, Requests, IInv, TypeOK, Tables, UserRows
  <2> QED
    BY <2>1, <2>2, ArriveIInv
<1>3. ASSUME NEW account \in ExternalIds, LoginByIdentity(s, account)
      PROVE  IInv'
  <2>1. PICK i \in db.identities :
          /\ i.account = account
          /\ Arrive(s, "issue", [NoRequest EXCEPT !.account = account, !.user = i.user])
    BY <1>3 DEF LoginByIdentity
  <2> DEFINE request == [NoRequest EXCEPT !.account = account, !.user = i.user]
  <2>2. i \in IdentityRows
    BY DEF IInv, TypeOK, Tables
  <2>3. request \in Requests /\ request.account = account /\ request.user = i.user
    BY <2>2 DEF NoRequest, Requests, IdentityRows
  <2>4. [account |-> request.account, user |-> request.user] \in db.identities
    BY <2>1, <2>2, <2>3 DEF IdentityRows
  <2>5. \E u \in db.users : u.id = request.user
    BY <2>3 DEF IInv, IdentitiesHaveUsers
  <2> HIDE DEF request
  <2> QED
    BY <2>1, <2>3, <2>4, <2>5, ArriveIInv DEF request
<1>4. ASSUME NEW account \in ExternalIds, NEW email \in {NULL} \cup Emails,
             LoginOrRegister(s, account, email)
      PROVE  IInv'
  <2> DEFINE request == [NoRequest EXCEPT !.account = account, !.email = email]
             label   == IF email = NULL THEN "create" ELSE "lookup"
  <2>1. request \in Requests /\ request.account # NULL
    BY DEF NoRequest, Requests
  <2>2. Arrive(s, label, request)
    BY <1>4 DEF LoginOrRegister
  <2>3. label \in {"create", "lookup"}
    OBVIOUS
  <2> HIDE DEF request, label
  <2> QED
    BY <2>1, <2>2, <2>3, ArriveIInv
<1>5. ASSUME Refresh(s)
      PROVE  IInv'
  <2>1. PICK t \in tokens : Arrive(s, "access", [NoRequest EXCEPT !.user = t.user, !.token = t.id])
    BY <1>5 DEF Refresh
  <2> DEFINE request == [NoRequest EXCEPT !.user = t.user, !.token = t.id]
  <2>2. request \in Requests /\ request.user = t.user
    BY DEF NoRequest, Requests, IInv, TypeOK
  <2>3. \E u \in db.users : u.id = request.user
    BY <2>2 DEF IInv, TokensHaveOwners
  <2> HIDE DEF request
  <2> QED
    BY <2>1, <2>2, <2>3, ArriveIInv DEF request
<1>6. ASSUME Logout(s)
      PROVE  IInv'
  <2>1. PICK t \in tokens : Arrive(s, "revoke", [NoRequest EXCEPT !.token = t.id])
    BY <1>6 DEF Logout
  <2>2. [NoRequest EXCEPT !.token = t.id] \in Requests
    BY DEF NoRequest, Requests, IInv, TypeOK
  <2> QED
    BY <2>1, <2>2, ArriveIInv
<1> QED
  BY <1>1, <1>2, <1>3, <1>4, <1>5, <1>6 DEF Call, PasswordRequest, CallbackRequest, TokenRequest

\* The steps of a request that holds no keys after them.
LEMMA MovingSteps ==
  ASSUME IInv, NEW s \in Sessions, LooksUpEmail(s) \/ Conflict(s) \/ NoTokenLeft(s) \/ SignAccess(s)
  PROVE  IInv'
<1> DEFINE Owned == \A t \in tokens : \E u \in db.users : u.id = t.user
<1>0. /\ Owned
      /\ tokens \in SUBSET [id: 1..MaxTokens, user: UserIds, revoked: BOOLEAN, expired: BOOLEAN]
      /\ faults \in 0..MaxFaults
  BY DEF IInv, TypeOK, TokensHaveOwners
<1>1. CASE LooksUpEmail(s)
  <2>0. pc[s] = "lookup" /\ req[s] \in Requests /\ req[s].account # NULL
    BY <1>1 DEF LooksUpEmail, IInv, TypeOK, KnowledgeOK
  <2>1. tx' = [tx EXCEPT ![s] = NoRows]
    BY <1>1, <2>0, NothingOpen DEF LooksUpEmail, Registering
  <2>2. ASSUME NEW u \in db.users, Goto(s, "link"), req' = [req EXCEPT ![s].user = u.id]
        PROVE  IInv'
    <3> DEFINE request == [req[s] EXCEPT !.user = u.id]
    <3>1. request \in Requests /\ request.account # NULL /\ request.user = u.id
      BY <2>0 DEF Requests, IInv, TypeOK, Tables, UserRows
    <3>2. req' = [req EXCEPT ![s] = request]
      BY <2>2 DEF IInv, TypeOK
    <3> HIDE DEF request
    <3> QED
      BY <1>0, <1>1, <2>1, <2>2, <3>1, <3>2, MoveIInv DEF LooksUpEmail
  <2>3. ASSUME Goto(s, "create"), UNCHANGED req
        PROVE  IInv'
    <3>1. req' = [req EXCEPT ![s] = req[s]]
      BY <2>3 DEF IInv, TypeOK
    <3> QED
      BY <1>0, <1>1, <2>0, <2>1, <2>3, <3>1, MoveIInv DEF LooksUpEmail
  <2> QED
    BY <1>1, <2>2, <2>3 DEF LooksUpEmail
<1>2. CASE Conflict(s)
  BY <1>0, <1>2, FinishIInv DEF Conflict, Rollback
<1>3. CASE NoTokenLeft(s)
  BY <1>0, <1>3, FinishIInv DEF NoTokenLeft
<1>4. CASE SignAccess(s)
  BY <1>0, <1>4, FinishIInv DEF SignAccess
<1> QED
  BY <1>1, <1>2, <1>3, <1>4

\* INSERT of a refresh token, and its revocation by id.
LEMMA TokenSteps ==
  ASSUME IInv, NEW s \in Sessions, issueTokens(s) \/ Revoke(s)
  PROVE  IInv'
<1>1. CASE issueTokens(s)
  <2>1. PICK id \in 1..MaxTokens :
          tokens' = tokens \cup {[id |-> id, user |-> req[s].user,
                                  revoked |-> FALSE, expired |-> FALSE]}
    BY <1>1 DEF issueTokens
  <2>2. PICK u \in db.users : u.id = req[s].user
    BY <1>1 DEF issueTokens, MayIssue, IInv, KnowledgeOK
  <2>3. req[s].user \in UserIds
    BY <2>2 DEF IInv, TypeOK, Tables, UserRows
  <2>4. /\ tokens' \in SUBSET [id: 1..MaxTokens, user: UserIds, revoked: BOOLEAN, expired: BOOLEAN]
        /\ faults \in 0..MaxFaults
    <3>1. [id |-> id, user |-> req[s].user, revoked |-> FALSE, expired |-> FALSE] \in
            [id: 1..MaxTokens, user: UserIds, revoked: BOOLEAN, expired: BOOLEAN]
      BY <2>3
    <3> QED
      BY <2>1, <3>1 DEF IInv, TypeOK
  <2>5. \A t \in tokens' : \E v \in db.users : v.id = t.user
    BY <2>1, <2>2 DEF IInv, TokensHaveOwners
  <2> QED
    BY <1>1, <2>4, <2>5, FinishIInv DEF issueTokens
<1>2. CASE Revoke(s)
  <2>1. tokens' = {IF t.id = req[s].token THEN [t EXCEPT !.revoked = TRUE] ELSE t : t \in tokens}
    BY <1>2 DEF Revoke
  <2>2. \A t \in tokens :
          /\ [t EXCEPT !.revoked = TRUE] \in
               [id: 1..MaxTokens, user: UserIds, revoked: BOOLEAN, expired: BOOLEAN]
          /\ t \in [id: 1..MaxTokens, user: UserIds, revoked: BOOLEAN, expired: BOOLEAN]
          /\ [t EXCEPT !.revoked = TRUE].user = t.user
    BY DEF IInv, TypeOK
  <2>3. /\ tokens' \in SUBSET [id: 1..MaxTokens, user: UserIds, revoked: BOOLEAN, expired: BOOLEAN]
        /\ faults \in 0..MaxFaults
    BY <2>1, <2>2 DEF IInv, TypeOK
  <2>4. \A t \in tokens' : \E v \in db.users : v.id = t.user
    BY <2>1, <2>2 DEF IInv, TokensHaveOwners
  <2> QED
    BY <1>2, <2>3, <2>4, FinishIInv DEF Revoke
<1> QED
  BY <1>1, <1>2

\* A fault rolls back the rows of one session and touches nothing else.
LEMMA FaultIInv ==
  ASSUME IInv, NEW s \in Sessions, Fault(s)
  PROVE  IInv'
<1>1. /\ \A t \in tokens : \E u \in db.users : u.id = t.user
      /\ tokens \in SUBSET [id: 1..MaxTokens, user: UserIds, revoked: BOOLEAN, expired: BOOLEAN]
  BY DEF IInv, TypeOK, TokensHaveOwners
<1>2. faults' \in 0..MaxFaults
  BY AccountsConstantsOK DEF Fault, IInv, TypeOK
<1> QED
  BY <1>1, <1>2, FinishIInv DEF Fault, Rollback

\* Time passes, or nothing happens at all: only tokens may change.
LEMMA TokensOnly ==
  ASSUME IInv, UNCHANGED <<db, tx, userSeq, pc, req, faults>>,
         tokens' \in SUBSET [id: 1..MaxTokens, user: UserIds, revoked: BOOLEAN, expired: BOOLEAN],
         \A t \in tokens' : \E u \in db.users : u.id = t.user
  PROVE  IInv'
<1>1. TypeOK'
  BY DEF IInv, TypeOK
<1>2. TxOK' /\ IdsOK' /\ EmailsOK' /\ AccountsOK' /\ KnowledgeOK' /\ IdentitiesHaveUsers'
  BY DEF IInv, TxOK, IdsOK, EmailsOK, AccountsOK, KnowledgeOK, IdentitiesHaveUsers, Registering,
         HoldsAccount, MyUser, MyIdentity
<1>3. EveryUserHasOneBonus' /\ KeysNameOneUser' /\ CallbackLogsInTheOwner' /\ TokensHaveOwners'
  BY DEF IInv, EveryUserHasOneBonus, KeysNameOneUser, CallbackLogsInTheOwner, TokensHaveOwners
<1> QED
  BY <1>1, <1>2, <1>3 DEF IInv

\* The clock, and stuttering.
LEMMA ExpireIInv ==
  ASSUME IInv, Expire \/ UNCHANGED vars
  PROVE  IInv'
<1>1. CASE Expire
  <2>1. PICK t \in tokens : tokens' = (tokens \ {t}) \cup {[t EXCEPT !.expired = TRUE]}
    BY <1>1 DEF Expire
  <2>2. /\ [t EXCEPT !.expired = TRUE] \in
             [id: 1..MaxTokens, user: UserIds, revoked: BOOLEAN, expired: BOOLEAN]
        /\ [t EXCEPT !.expired = TRUE].user = t.user
    BY DEF IInv, TypeOK
  <2>3. tokens' \in SUBSET [id: 1..MaxTokens, user: UserIds, revoked: BOOLEAN, expired: BOOLEAN]
    BY <2>1, <2>2 DEF IInv, TypeOK
  <2>4. \A r \in tokens' : \E u \in db.users : u.id = r.user
    BY <2>1, <2>2 DEF IInv, TokensHaveOwners
  <2> QED
    BY <1>1, <2>3, <2>4, TokensOnly DEF Expire
<1>2. CASE UNCHANGED vars
  BY <1>2, TokensOnly DEF vars, IInv, TypeOK, TokensHaveOwners
<1> QED
  BY <1>1, <1>2

-----------------------------------------------------------------------------
\* Scenario 2: the identity is committed beside open registrations, which hold
\* other accounts.
LEMMA LinkIInv ==
  ASSUME IInv, NEW s \in Sessions, LinkIdentity(s)
  PROVE  IInv'
<1> USE DEF IInv
<1> DEFINE row == MyIdentity(s)
<1>1. /\ pc[s] = "link" /\ AccountIsFree(s)
      /\ db' = [db EXCEPT !.identities = @ \cup {row}]
      /\ pc' = [pc EXCEPT ![s] = "issue"]
      /\ UNCHANGED <<tx, tokens, userSeq, req, faults>>
  BY DEF LinkIdentity, Goto, MyIdentity
<1>2. /\ req[s].account \in ExternalIds
      /\ \E u \in db.users : u.id = req[s].user
      /\ req[s].user \in UserIds
  BY <1>1 DEF KnowledgeOK, TypeOK, Requests, Tables, UserRows
<1>3. /\ row \in IdentityRows /\ row.account = req[s].account /\ row.user = req[s].user
      /\ db'.users = db.users /\ db'.wallets = db.wallets
      /\ db'.identities = db.identities \cup {row}
  BY <1>1, <1>2 DEF TypeOK, Tables, MyIdentity, IdentityRows
<1>4. /\ ~Registering(s) /\ ~Registering(s)'
      /\ \A t \in Sessions : /\ Registering(t)' = Registering(t)
                             /\ HoldsAccount(t)' = HoldsAccount(t)
                             /\ t # s => pc'[t] = pc[t]
      /\ pc'[s] = "issue"
  BY <1>1 DEF TypeOK, Registering, HoldsAccount
<1>5. \A i \in db.identities : i.account # row.account
  BY <1>1, <1>3 DEF AccountIsFree, AccountsIn
<1>6. \A t \in Sessions : HoldsAccount(t) => req[t].account # row.account
  <2>1. SUFFICES ASSUME NEW t \in Sessions, HoldsAccount(t), req[t].account = row.account
                 PROVE  FALSE
    OBVIOUS
  <2>2. req[t].account \in AccountsIn(tx[t])
    BY <2>1, OpenKeys
  <2> QED
    BY <1>1, <1>3, <2>1, <2>2 DEF AccountIsFree
<1> HIDE DEF row
<1>7. TypeOK'
  BY <1>1, <1>3 DEF TypeOK, Tables
<1>8. TxOK'
  BY <1>1, <1>4 DEF TxOK, MyUser, MyIdentity
<1>9. IdsOK' /\ EmailsOK'
  BY <1>1, <1>3, <1>4 DEF IdsOK, EmailsOK
<1>10. AccountsOK'
  BY <1>1, <1>3, <1>4, <1>6 DEF AccountsOK
<1>11. KnowledgeOK' /\ IdentitiesHaveUsers'
  BY <1>1, <1>2, <1>3, <1>4 DEF KnowledgeOK, IdentitiesHaveUsers
<1>12. EveryUserHasOneBonus' /\ TokensHaveOwners'
  BY <1>1, <1>3, <1>4 DEF EveryUserHasOneBonus, TokensHaveOwners
<1>13. KeysNameOneUser'
  BY <1>3, <1>5 DEF KeysNameOneUser
<1>14. CallbackLogsInTheOwner'
  BY <1>1, <1>3, <1>4 DEF CallbackLogsInTheOwner, row, MyIdentity
<1> QED
  BY <1>7, <1>8, <1>9, <1>10, <1>11, <1>12, <1>13, <1>14

\* The user and the wallet: a fresh id, and an address nobody holds.
LEMMA CreateUserIInv ==
  ASSUME IInv, NEW s \in Sessions, CreateUser(s)
  PROVE  IInv'
<1> USE DEF IInv
<1>1. /\ pc[s] = "create" /\ userSeq < MaxUsers /\ EmailIsFree(s)
      /\ userSeq' = userSeq + 1
      /\ req' = [req EXCEPT ![s].user = userSeq']
      /\ pc' = [pc EXCEPT ![s] = AfterWallet(s)]
      /\ UNCHANGED <<db, tokens, faults>>
  BY DEF CreateUser, Goto
<1>2. /\ AfterWallet(s) \in {"identity", "commit"}
      /\ AfterWallet(s) = "commit" <=> req[s].account = NULL
  BY DEF AfterWallet
<1>3. userSeq \in Nat /\ userSeq' \in UserIds /\ \A t \in Sessions : req[t] \in Requests
  BY <1>1, AccountsConstantsOK DEF TypeOK, UserIds
<1>4. /\ req'[s] \in Requests /\ req'[s].user = userSeq' /\ req'[s].account = req[s].account
      /\ req'[s].email = req[s].email /\ pc'[s] = AfterWallet(s)
      /\ \A t \in Sessions : t # s => req'[t] = req[t] /\ pc'[t] = pc[t]
  BY <1>1, <1>3 DEF TypeOK, Requests
<1>5. /\ Registering(s)' /\ ~HoldsAccount(s)' /\ ~Registering(s)
      /\ \A t \in Sessions : t # s => /\ Registering(t)' = Registering(t)
                                      /\ HoldsAccount(t)' = HoldsAccount(t)
  BY <1>1, <1>2, <1>4 DEF Registering, HoldsAccount
<1>6. tx[s] = NoRows
  BY <1>5 DEF TxOK, HoldsAccount, Registering, NoRows
<1>7. /\ tx'[s] = [users |-> {MyUser(s)'}, identities |-> {}, wallets |-> {SignupWallet(userSeq')}]
      /\ \A t \in Sessions : t # s => tx'[t] = tx[t]
      /\ tx' = [tx EXCEPT ![s] = tx'[s]]
  BY <1>4, <1>6 DEF CreateUser, MyUser, TypeOK, NoRows
<1>8. MyUser(s)' \in UserRows
  BY <1>3, <1>4 DEF MyUser, UserRows, Requests
<1>9. tx'[s] \in Tables
  BY <1>3, <1>7, <1>8 DEF Tables, WalletRows
<1>10. TypeOK'
  <2>1. tx' \in [Sessions -> Tables]
    BY <1>7, <1>9 DEF TypeOK
  <2>2. req' \in [Sessions -> Requests]
    BY <1>1, <1>4 DEF TypeOK
  <2>3. userSeq' \in 0..MaxUsers
    BY <1>1, <1>3, AccountsConstantsOK
  <2> QED
    BY <1>1, <1>2, <2>1, <2>2, <2>3 DEF TypeOK
<1>11. TxOK'
  BY <1>4, <1>5, <1>7, ZenonT(60) DEF TxOK, MyUser, MyIdentity
<1>12. IdsOK'
  BY <1>1, <1>3, <1>4, <1>5 DEF IdsOK, TypeOK, Tables, UserRows, UserIds
<1>13. EmailsOK'
  <2>1. \A u \in db.users : u.email = req[s].email => u.email = NULL
    BY <1>1 DEF EmailIsFree, EmailsIn
  <2>2. ASSUME NEW t \in Sessions, Registering(t), req[t].email = req[s].email
        PROVE  req[s].email = NULL
    <3>1. req[t].email = NULL \/ req[t].email \in EmailsIn(tx[t])
      BY <2>2, OpenKeys
    <3> QED
      BY <1>1, <2>2, <3>1 DEF EmailIsFree
  <2> QED
    BY <1>1, <1>4, <1>5, <2>1, <2>2 DEF EmailsOK
<1>14. AccountsOK'
  BY <1>1, <1>4, <1>5 DEF AccountsOK
<1>15. KnowledgeOK' /\ IdentitiesHaveUsers'
  BY <1>1, <1>2, <1>4 DEF KnowledgeOK, IdentitiesHaveUsers
<1>16. EveryUserHasOneBonus' /\ KeysNameOneUser'
  BY <1>1 DEF EveryUserHasOneBonus, KeysNameOneUser
<1>17. CallbackLogsInTheOwner' /\ TokensHaveOwners'
  BY <1>1, <1>2, <1>4 DEF CallbackLogsInTheOwner, TokensHaveOwners
<1> QED
  BY <1>10, <1>11, <1>12, <1>13, <1>14, <1>15, <1>16, <1>17

\* The identity of a registration: an account nobody holds.
LEMMA CreateIdentityIInv ==
  ASSUME IInv, NEW s \in Sessions, CreateIdentity(s)
  PROVE  IInv'
<1> USE DEF IInv
<1>1. /\ pc[s] = "identity" /\ AccountIsFree(s)
      /\ tx' = [tx EXCEPT ![s].identities = {MyIdentity(s)}]
      /\ pc' = [pc EXCEPT ![s] = "commit"]
      /\ UNCHANGED <<db, tokens, userSeq, req, faults>>
  BY DEF CreateIdentity, Goto, MyIdentity
<1>2. req[s].account # NULL /\ req[s] \in Requests
  BY <1>1 DEF KnowledgeOK, TypeOK
<1>3. /\ Registering(s) /\ Registering(s)' /\ ~HoldsAccount(s) /\ HoldsAccount(s)'
      /\ pc'[s] = "commit"
      /\ \A t \in Sessions : /\ Registering(t)' = Registering(t)
                             /\ t # s => pc'[t] = pc[t] /\ HoldsAccount(t)' = HoldsAccount(t)
  BY <1>1, <1>2 DEF Registering, HoldsAccount, TypeOK
<1>4. tx[s] = [users |-> {MyUser(s)}, identities |-> {}, wallets |-> {SignupWallet(req[s].user)}]
  BY <1>3 DEF TxOK
<1>5. /\ tx'[s] = [users |-> {MyUser(s)}, identities |-> {MyIdentity(s)},
                   wallets |-> {SignupWallet(req[s].user)}]
      /\ \A t \in Sessions : t # s => tx'[t] = tx[t]
      /\ tx' = [tx EXCEPT ![s] = tx'[s]]
  <2> DEFINE rows == [tx[s] EXCEPT !.identities = {MyIdentity(s)}]
  <2>1. rows = [users |-> {MyUser(s)}, identities |-> {MyIdentity(s)},
                wallets |-> {SignupWallet(req[s].user)}]
    BY <1>4
  <2>2. tx' = [tx EXCEPT ![s] = rows]
    BY <1>1
  <2> HIDE DEF rows
  <2> QED
    BY <2>1, <2>2 DEF TypeOK
<1>6. req[s].user \in UserIds
  BY <1>3, AccountsConstantsOK DEF IdsOK, TypeOK, UserIds
<1>7. TypeOK'
  <2>1. MyIdentity(s) \in IdentityRows
    BY <1>2, <1>6 DEF MyIdentity, IdentityRows, Requests
  <2>2. MyUser(s) \in UserRows
    BY <1>2, <1>6 DEF MyUser, UserRows, Requests
  <2>3. tx'[s] \in Tables
    BY <1>5, <1>6, <2>1, <2>2 DEF Tables, WalletRows
  <2>4. tx' \in [Sessions -> Tables]
    BY <1>5, <2>3 DEF TypeOK
  <2> QED
    BY <1>1, <2>4 DEF TypeOK
<1>8. TxOK'
  <2>1. \A t \in Sessions : MyUser(t)' = MyUser(t) /\ MyIdentity(t)' = MyIdentity(t)
    BY <1>1 DEF MyUser, MyIdentity
  <2> QED
    BY <1>1, <1>3, <1>5, <2>1, ZenonT(60) DEF TxOK
<1>9. IdsOK' /\ EmailsOK'
  BY <1>1, <1>3 DEF IdsOK, EmailsOK
<1>10. AccountsOK'
  <2>1. \A i \in db.identities : i.account # req[s].account
    BY <1>1 DEF AccountIsFree, AccountsIn
  <2>2. \A t \in Sessions : HoldsAccount(t) => req[t].account # req[s].account
    BY <1>1, OpenKeys DEF AccountIsFree
  <2> QED
    BY <1>1, <1>3, <2>1, <2>2 DEF AccountsOK
<1>11. KnowledgeOK' /\ IdentitiesHaveUsers'
  BY <1>1, <1>3 DEF KnowledgeOK, IdentitiesHaveUsers
<1>12. EveryUserHasOneBonus' /\ KeysNameOneUser'
  BY <1>1 DEF EveryUserHasOneBonus, KeysNameOneUser
<1>13. CallbackLogsInTheOwner' /\ TokensHaveOwners'
  BY <1>1, <1>3 DEF CallbackLogsInTheOwner, TokensHaveOwners
<1> QED
  BY <1>7, <1>8, <1>9, <1>10, <1>11, <1>12, <1>13

\* COMMIT publishes the rows of one registration; its keys and its id differ
\* from the committed ones and from those of the others.
LEMMA CommitIInv ==
  ASSUME IInv, NEW s \in Sessions, Commit(s)
  PROVE  IInv'
<1> USE DEF IInv
<1> DEFINE me  == MyUser(s)
           his == IF HoldsAccount(s) THEN {MyIdentity(s)} ELSE {}
           w   == SignupWallet(req[s].user)
<1>1. /\ pc[s] = "commit"
      /\ tx' = [tx EXCEPT ![s] = NoRows]
      /\ pc' = [pc EXCEPT ![s] = "issue"]
      /\ UNCHANGED <<tokens, userSeq, req, faults>>
  BY DEF Commit, Goto
<1>2. tx[s] = [users |-> {me}, identities |-> his, wallets |-> {w}]
  BY <1>1 DEF TxOK, Registering
<1> HIDE DEF me, his, w
<1>3. /\ db'.users = db.users \cup {me}
      /\ db'.identities = db.identities \cup his
      /\ db'.wallets = db.wallets \cup {w}
  BY <1>2 DEF Commit
<1>4. /\ me.id = req[s].user /\ me.email = req[s].email
      /\ \A i \in his : /\ HoldsAccount(s)
                        /\ i = MyIdentity(s)
                        /\ i.account = req[s].account /\ i.user = req[s].user
      /\ HoldsAccount(s) => MyIdentity(s) \in his
      /\ w = SignupWallet(me.id)
  BY DEF me, his, w, MyUser, MyIdentity
<1>5. /\ Registering(s) /\ ~Registering(s)' /\ ~HoldsAccount(s)' /\ pc'[s] = "issue"
      /\ \A t \in Sessions : t # s => /\ Registering(t)' = Registering(t)
                                      /\ HoldsAccount(t)' = HoldsAccount(t)
                                      /\ pc'[t] = pc[t] /\ tx'[t] = tx[t]
      /\ tx'[s] = NoRows
  BY <1>1 DEF Registering, HoldsAccount, TypeOK
<1>6. TypeOK'
  <2>1. tx[s] \in Tables /\ db \in Tables
    BY DEF TypeOK
  <2>2. db' \in Tables
    BY <2>1 DEF Commit, Tables
  <2>3. tx' \in [Sessions -> Tables]
    BY <1>1 DEF TypeOK, Tables, NoRows
  <2> QED
    BY <1>1, <2>2, <2>3 DEF TypeOK
<1>7. TxOK'
  BY <1>1, <1>5 DEF TxOK, MyUser, MyIdentity, NoRows
<1>8. IdsOK'
  BY <1>1, <1>3, <1>4, <1>5 DEF IdsOK, TypeOK
<1>9. EmailsOK'
  BY <1>1, <1>3, <1>4, <1>5 DEF EmailsOK
<1>10. AccountsOK'
  BY <1>1, <1>3, <1>4, <1>5 DEF AccountsOK
<1>11. IdentitiesHaveUsers'
  BY <1>3, <1>4 DEF IdentitiesHaveUsers
<1>12. KnowledgeOK'
  BY <1>1, <1>3, <1>4, <1>5 DEF KnowledgeOK
<1>13. EveryUserHasOneBonus'
  BY <1>3, <1>4 DEF EveryUserHasOneBonus
<1>14. KeysNameOneUser'
  BY <1>3, <1>4, <1>5 DEF KeysNameOneUser, IdsOK, EmailsOK, AccountsOK
<1>15. CallbackLogsInTheOwner'
  <2>1. ASSUME req[s].account # NULL
        PROVE  [account |-> req[s].account, user |-> req[s].user] \in db'.identities
    BY <1>1, <1>3, <1>4, <2>1 DEF HoldsAccount, MyIdentity
  <2> QED
    BY <1>1, <1>3, <1>5, <2>1 DEF CallbackLogsInTheOwner
<1>16. TokensHaveOwners'
  BY <1>1, <1>3, <1>5 DEF TokensHaveOwners
<1> QED
  BY <1>6, <1>7, <1>8, <1>9, <1>10, <1>11, <1>12, <1>13, <1>14, <1>15, <1>16

-----------------------------------------------------------------------------
\* The invariant is inductive: one case per kind of step.
LEMMA NextIInv == IInv /\ [Next]_vars => IInv'
<1> SUFFICES ASSUME IInv, [Next]_vars PROVE IInv'
  OBVIOUS
<1>1. CASE Expire \/ UNCHANGED vars
  BY <1>1, ExpireIInv
<1>2. ASSUME NEW s \in Sessions, Call(s) PROVE IInv'
  BY <1>2, CallIInv
<1>3. ASSUME NEW s \in Sessions, Step(s) PROVE IInv'
  BY <1>3, MovingSteps, TokenSteps, LinkIInv, CreateUserIInv, CreateIdentityIInv, CommitIInv
     DEF Step
<1>4. ASSUME NEW s \in Sessions, Fault(s) PROVE IInv'
  BY <1>4, FaultIInv
<1> QED
  BY <1>1, <1>2, <1>3, <1>4 DEF Next

\* The invariant holds in every reachable state, however many requests overlap
\* and whatever is rolled back (auth_service.go:62, oauth_service.go:62).
THEOREM AccountsInvariant == Spec => []IInv
<1> QED
  BY InitIInv, NextIInv, PTL DEF Spec

\* Every row and every open transaction is well typed (User, AuthIdentity, Wallet
\* and RefreshToken of internal/domain): ids stay below the sequences they come from.
THEOREM AccountsTypeCorrect == Spec => []TypeOK
<1>1. IInv => TypeOK
  BY DEF IInv
<1> QED
  BY <1>1, AccountsInvariant, PTL

\* Register and LoginOrRegister: a user never exists without his one wallet and
\* his one signup bonus, nor a wallet without a user.
THEOREM OneBonusEach == Spec => []EveryUserHasOneBonus
<1>1. IInv => EveryUserHasOneBonus
  BY DEF IInv
<1> QED
  BY <1>1, AccountsInvariant, PTL

\* The unique indexes and the transactions together: an address or an account at
\* a provider never leads to two users.
THEOREM KeysAreUnique == Spec => []KeysNameOneUser
<1>1. IInv => KeysNameOneUser
  BY DEF IInv
<1> QED
  BY <1>1, AccountsInvariant, PTL

\* LoginOrRegister: the tokens of a callback are for the user its account is
\* linked to, in every scenario.
THEOREM CallbackIsTheOwners == Spec => []CallbackLogsInTheOwner
<1>1. IInv => CallbackLogsInTheOwner
  BY DEF IInv
<1> QED
  BY <1>1, AccountsInvariant, PTL

\* issueTokens after COMMIT, and Refresh: no token of a user that was rolled back.
THEOREM TokensAreOwned == Spec => []TokensHaveOwners
<1>1. IInv => TokensHaveOwners
  BY DEF IInv
<1> QED
  BY <1>1, AccountsInvariant, PTL
=============================================================================
