---------------------------- MODULE HistoryProofs ----------------------------
(***************************************************************************)
(* What the API promises of sessions, for every value of the constants:    *)
(* which tokens descend from which, what a request that nobody overtook    *)
(* may rely on, and therefore what overlapping requests can do at worst.   *)
(***************************************************************************)
EXTENDS ApiProofs

USE DEF At, Go, db, tokens

-----------------------------------------------------------------------------
(* What a step does to table refresh_tokens.                               *)

Same(K) == \A k \in K : refreshTokens'[k] = refreshTokens[k]

\* The row of k is there after the step.
Stored(k) == refreshTokens'[k] \notin {Absent, Deleted}

Opens(k, u) ==
    /\ k \in Pair /\ refreshTokens[k] = Absent
    /\ Stored(k) /\ ~refreshTokens'[k].isRevoked
    /\ refreshTokens'[k].userId = u
    /\ Same(Pair \ {k})

\* The row of k is there before and after the step, and revoked by then.
Revoking(k) ==
    /\ IsRow(k) /\ Stored(k)
    /\ refreshTokens'[k].isRevoked
    /\ refreshTokens'[k].userId = refreshTokens[k].userId
    /\ refreshTokens'[k].expiresAt = refreshTokens[k].expiresAt

Revokes(K) == (\A k \in K : Revoking(k)) /\ Same(Pair \ K)

Spends(t, k) ==
    /\ t \in Pair /\ Revoking(t)
    /\ k \in Pair /\ refreshTokens[k] = Absent
    /\ Stored(k) /\ ~refreshTokens'[k].isRevoked
    /\ refreshTokens'[k].userId = refreshTokens[t].userId
    /\ Same(Pair \ {t, k})

\* The rows of a user, live or revoked.
TokensOf(u) == {k \in Pair : IsRow(k) /\ refreshTokens[k].userId = u}

Deletes(u) == \A k \in Pair : refreshTokens'[k] = IF k \in TokensOf(u) THEN Deleted ELSE refreshTokens[k]

LEMMA NewRow ==
    ASSUME ApiInv, NEW u \in UserId, NEW now \in Nat
    PROVE  /\ NewTokenRow(u, now) \notin {Absent, Deleted}
           /\ NewTokenRow(u, now).userId = u
           /\ NewTokenRow(u, now).isRevoked = FALSE
<1>1. NewTokenRow(u, now) \in TokenRow
  BY ConstantsAssumption DEF NewTokenRow, TokenRow
<1> QED
  BY <1>1, NullsAssumption DEF NewTokenRow

LEMMA RevokedRow ==
    ASSUME ApiInv, NEW k \in Pair, IsRow(k)
    PROVE  /\ [refreshTokens[k] EXCEPT !.isRevoked = TRUE] \notin {Absent, Deleted}
           /\ [refreshTokens[k] EXCEPT !.isRevoked = TRUE].isRevoked = TRUE
           /\ [refreshTokens[k] EXCEPT !.isRevoked = TRUE].userId = refreshTokens[k].userId
           /\ [refreshTokens[k] EXCEPT !.isRevoked = TRUE].expiresAt = refreshTokens[k].expiresAt
<1> DEFINE row == [refreshTokens[k] EXCEPT !.isRevoked = TRUE]
<1>1. refreshTokens[k] \in TokenRow
  BY DEF IsRow, ApiInv, TypeOK
<1>2. /\ row \in TokenRow /\ row.isRevoked = TRUE
      /\ row.userId = refreshTokens[k].userId /\ row.expiresAt = refreshTokens[k].expiresAt
  BY <1>1 DEF TokenRow
<1> QED
  BY <1>2, NullsAssumption

LEMMA WithRevokedRevokes ==
    ASSUME ApiInv, NEW K \in SUBSET Pair, \A k \in K : IsRow(k), refreshTokens' = WithRevoked(K)
    PROVE  Revokes(K)
<1>1. ASSUME NEW k \in K
      PROVE  refreshTokens'[k] = [refreshTokens[k] EXCEPT !.isRevoked = TRUE]
  BY DEF WithRevoked
<1>2. Same(Pair \ K)
  BY DEF WithRevoked, Same
<1>3. ASSUME NEW k \in K
      PROVE  Revoking(k)
  <2>1. k \in Pair /\ IsRow(k)
    OBVIOUS
  <2> QED
    BY <1>1, <2>1, RevokedRow DEF Revoking, Stored
<1> QED
  BY <1>2, <1>3 DEF Revokes

LEMMA RegisterCreateEffect ==
    ASSUME ApiInv, NEW r \in Request, RegisterCreate(r)
    PROVE  \/ UNCHANGED db /\ Answer(r, 409)
           \/ \E u \in UserId, k \in Pair :
                 /\ Opens(k, u)
                 /\ users[u] = Absent
                 /\ users' = [users EXCEPT ![u] =
                        [email |-> req[r].email, username |-> req[r].username,
                         passwordHash |-> Digest[req[r].password],
                         role |-> "USER", isActive |-> TRUE]]
                 /\ Sign(k, u, "USER")
                 /\ ~UniqueViolation(None, req[r].email, req[r].username)
                 /\ AnswerWithTokens(r, 201, k)
<1>1. ASSUME NEW u \in UserId, NEW k \in Pair, Unused(k), refreshTokens' = InitialTokens(k, u)
      PROVE  Opens(k, u)
  <2>1. refreshTokens[k] = Absent /\ clock \in Nat
    BY <1>1 DEF Unused, ApiInv, FreshOK, TypeOK
  <2>2. refreshTokens'[k] = NewTokenRow(u, clock) /\ Same(Pair \ {k})
    BY <1>1 DEF InitialTokens, Same, ApiInv, TypeOK
  <2> QED
    BY <2>1, <2>2, NewRow DEF Opens, Stored
<1> QED
  BY <1>1 DEF RegisterCreate

LEMMA LoginCreateEffect ==
    ASSUME ApiInv, NEW r \in Request, LoginCreate(r)
    PROVE  /\ UNCHANGED users
           /\ \/ UNCHANGED refreshTokens /\ Answer(r, 500)
              \/ /\ Opens(req[r].pair, req[r].user) /\ Exists(req[r].user)
                 /\ AnswerWithTokens(r, 200, req[r].pair)
<1>1. UNCHANGED users
  BY DEF LoginCreate
<1> DEFINE u == req[r].user
           k == req[r].pair
<1>2. ASSUME Exists(u), refreshTokens' = [refreshTokens EXCEPT ![k] = NewTokenRow(u, jwt[k].iat)]
      PROVE  Opens(k, u)
  <2>1. u \in UserId /\ Signed(k) /\ refreshTokens[k] = Absent
    BY DEF LoginCreate, ApiInv, RequestOK, LocalsOK, InsertLabel
  <2>2. k \in Pair /\ jwt[k].iat \in Nat
    BY <2>1 DEF Signed, ApiInv, TypeOK, Claims
  <2> HIDE DEF u, k
  <2>3. refreshTokens'[k] = NewTokenRow(u, jwt[k].iat) /\ Same(Pair \ {k})
    BY <1>2, <2>2 DEF Same, ApiInv, TypeOK
  <2> QED
    BY <2>1, <2>2, <2>3, NewRow DEF Opens, Stored
<1> QED
  BY <1>1, <1>2 DEF LoginCreate, ForeignKey

LEMMA RefreshCommitEffect ==
    ASSUME ApiInv, NEW r \in Request, RefreshCommit(r)
    PROVE  /\ UNCHANGED users
           /\ \/ UNCHANGED refreshTokens /\ Answer(r, 404)
              \/ /\ Spends(req[r].refresh, req[r].pair)
                 /\ AnswerWithTokens(r, 200, req[r].pair)
<1> DEFINE t == req[r].refresh
           k == req[r].pair
           u == req[r].user
<1>1. pc[r] = "refresh_commit" /\ UNCHANGED users
  BY DEF RefreshCommit
<1>2. ASSUME IsRow(t), refreshTokens' = Rotated(t, k, u)
      PROVE  Spends(t, k)
  <2>1. /\ Signed(k) /\ refreshTokens[k] = Absent
        /\ Signed(t) /\ refreshTokens[t].userId = u
    BY <1>1, <1>2 DEF ApiInv, RequestOK, InputOK, LocalsOK, InsertLabel
  <2>2. k \in Pair /\ t \in Pair /\ k # t /\ u \in UserId /\ clock \in Nat
    BY <1>2, <2>1 DEF Signed, IsRow, ApiInv, TypeOK, TokenRow
  <2> HIDE DEF t, k, u
  <2>3. /\ refreshTokens'[k] = NewTokenRow(u, clock)
        /\ refreshTokens'[t] = [refreshTokens[t] EXCEPT !.isRevoked = TRUE]
        /\ Same(Pair \ {t, k})
    BY <1>2, <2>2 DEF Rotated, WithRevoked, Same
  <2>4. Revoking(t)
    BY <1>2, <2>2, <2>3, RevokedRow DEF Revoking, Stored
  <2>5. /\ Stored(k) /\ ~refreshTokens'[k].isRevoked
        /\ refreshTokens'[k].userId = u
    BY <2>2, <2>3, NewRow DEF Stored
  <2> QED
    BY <2>1, <2>2, <2>3, <2>4, <2>5 DEF Spends
<1> QED
  BY <1>1, <1>2 DEF RefreshCommit

LEMMA LogoutRevokeEffect ==
    ASSUME ApiInv, NEW r \in Request, LogoutRevoke(r)
    PROVE  UNCHANGED users /\ \E K \in SUBSET Pair : Revokes(K)
<1> DEFINE K == {k \in Pair : k = req[r].refresh /\ IsRow(k) /\ refreshTokens[k].userId = req[r].user}
<1>1. refreshTokens' = WithRevoked(K) /\ UNCHANGED users
  BY DEF LogoutRevoke
<1>2. Revokes(K)
  BY <1>1, WithRevokedRevokes
<1> QED
  BY <1>1, <1>2

LEMMA PasswordCommitEffect ==
    ASSUME ApiInv, NEW r \in Request, PasswordCommit(r)
    PROVE  /\ req[r].user \in UserId /\ Exists(req[r].user)
           /\ users' = [users EXCEPT ![req[r].user].passwordHash = Digest[req[r].newPassword]]
           /\ req[r].revoking \in SUBSET TokensOf(req[r].user)
           /\ Revokes(req[r].revoking)
<1>1. pc[r] = "password_commit" /\ refreshTokens' = WithRevoked(req[r].revoking)
  BY DEF PasswordCommit
<1>2. req[r].user \in UserId /\ Exists(req[r].user) /\ req[r].revoking \in SUBSET Pair
  BY <1>1 DEF ApiInv, TypeOK, Req, RequestOK, LocalsOK, PasswordLabel, LockLabel
<1>3. \A k \in req[r].revoking : IsRow(k) /\ refreshTokens[k].userId = req[r].user
  BY <1>1 DEF ApiInv, RequestOK, LocalsOK
<1>4. Revokes(req[r].revoking)
  BY <1>1, <1>2, <1>3, WithRevokedRevokes
<1> QED
  BY <1>2, <1>3, <1>4 DEF PasswordCommit, TokensOf

LEMMA DeleteWriteEffect ==
    ASSUME ApiInv, NEW r \in Request, DeleteWrite(r)
    PROVE  \/ UNCHANGED db
           \/ /\ req[r].target \in UserId /\ Exists(req[r].target)
              /\ users' = [users EXCEPT ![req[r].target] = Deleted]
              /\ Deletes(req[r].target)
<1>1. req[r].target \in UserId
  BY DEF DeleteWrite, ApiInv, RequestOK, InputOK, TargetLabel
<1>2. refreshTokens' = Cascaded(req[r].target) => Deletes(req[r].target)
  BY DEF Cascaded, Deletes, TokensOf
<1> QED
  BY <1>1, <1>2 DEF DeleteWrite

LEMMA UpdateWriteEffect ==
    ASSUME ApiInv, NEW r \in Request, UpdateWrite(r)
    PROVE  /\ UNCHANGED refreshTokens
           /\ \/ UNCHANGED users
              \/ /\ req[r].target \in UserId /\ Exists(req[r].target)
                 /\ \E row \in UserRow :
                       /\ users' = [users EXCEPT ![req[r].target] = row]
                       /\ row.passwordHash = users[req[r].target].passwordHash
                       /\ ~UniqueViolation(req[r].target, row.email, row.username)
<1> DEFINE u == req[r].target
           new == Patched(users[u], req[r].patch)
<1>1. CASE UNCHANGED users
  BY <1>1 DEF UpdateWrite
<1>2. CASE /\ Exists(u) /\ users' = [users EXCEPT ![u] = new]
           /\ ~UniqueViolation(u, new.email, new.username)
  <2>1. u \in UserId /\ req[r].patch \in Patch
    BY DEF UpdateWrite, ApiInv, TypeOK, RequestOK, InputOK, TargetLabel, Req
  <2>2. users[u] \in UserRow
    BY <1>2, <2>1 DEF Exists, ApiInv, TypeOK
  <2>3. new \in UserRow
    BY <2>1, <2>2, PatchedType
  <2>4. new.passwordHash = users[u].passwordHash
    BY <2>2 DEF Patched, UserRow
  <2> QED
    BY <1>2, <2>1, <2>3, <2>4 DEF UpdateWrite
<1> QED
  BY <1>1, <1>2 DEF UpdateWrite

\* Everything else writes neither table.
LEMMA ReadEffect ==
    ASSUME NEW r \in Request, Step(r),
           ~RegisterCreate(r), ~LoginCreate(r), ~RefreshCommit(r), ~LogoutRevoke(r),
           ~PasswordCommit(r), ~UpdateWrite(r), ~DeleteWrite(r)
    PROVE  UNCHANGED db
<1>1. CASE MiddlewareStep(r)
  BY <1>1 DEF MiddlewareStep, Receive, Authenticate, StoreError, Respond, Drop
<1>2. CASE UserStep(r)
  BY <1>2 DEF UserStep, GetUser, UpdateFind, DeleteFind, Find
<1>3. CASE LoginFind(r)
  BY <1>3, Zenon DEF LoginFind
<1>4. CASE \/ RegisterFind(r) \/ LoginCompare(r) \/ RefreshFind(r) \/ RefreshUser(r)
           \/ LogoutBlacklist(r) \/ PasswordFind(r) \/ PasswordUpdate(r) \/ PasswordRevoke(r)
  BY <1>4 DEF RegisterFind, LoginCompare, RefreshFind, RefreshUser, LogoutBlacklist, PasswordFind,
              PasswordUpdate, PasswordRevoke
<1> QED
  BY <1>1, <1>2, <1>3, <1>4 DEF Step, AuthStep

-----------------------------------------------------------------------------
(* What a request in flight has read, written down or signed.              *)

FlightOK(r) ==
    LET q == req[r] IN
    /\ pc[r] \in {"register_find", "register_create"} => q.op = "register"
    /\ pc[r] \in {"login_find", "login_compare", "login_create"} => q.op = "login"
    /\ pc[r] \in {"refresh_find", "refresh_user", "refresh_commit"} => q.op = "refresh"
    /\ pc[r] = "login_create" =>
           /\ q.row \in UserRow /\ q.row.isActive
           /\ Digest[q.password] = q.row.passwordHash
           /\ jwt[q.pair].sub = q.user /\ jwt[q.pair].role = q.row.role
    /\ pc[r] = "refresh_commit" => jwt[q.pair].sub = q.user

\* What it may rely on unless another request has overtaken it.
CurrentOK(r) ==
    LET q == req[r] IN
    r \in overtaken \/
    /\ pc[r] \in {"login_compare", "login_create"} => Exists(q.user) /\ q.row = users[q.user]
    /\ pc[r] = "refresh_user" =>
           q.stored.isRevoked \/ Live(q.refresh) \/ users[q.user] = Deleted
    /\ pc[r] = "refresh_commit" =>
           /\ Live(q.refresh)
           /\ Exists(q.user) /\ users[q.user].isActive
           /\ users[q.user].role = jwt[q.pair].role

FlightLabel == {"register_find", "register_create", "login_find", "login_compare", "login_create",
                "refresh_find", "refresh_user", "refresh_commit"}

LEMMA OutOfFlight ==
    ASSUME NEW r \in Request, pc'[r] \notin FlightLabel
    PROVE  FlightOK(r)' /\ CurrentOK(r)'
BY DEF FlightLabel, FlightOK, CurrentOK

LEMMA AnswerLands ==
    ASSUME ApiInv, NEW r \in Request, NEW status, Answer(r, status)
    PROVE  pc'[r] = "respond" /\ FlightOK(r)' /\ CurrentOK(r)'
<1>1. pc'[r] = "respond"
  BY DEF Answer, ApiInv, TypeOK
<1> QED
  BY <1>1, OutOfFlight DEF FlightLabel

LEMMA ReceiveFlight ==
    ASSUME ApiInv, NEW r \in Request, Receive(r)
    PROVE  FlightOK(r)' /\ CurrentOK(r)'
<1>1. PICK q \in Inputs :
         \/ Answer(r, 422) \/ Answer(r, 401)
         \/ /\ Go(r, IF q.op \in BearerOps THEN "authenticate" ELSE FirstStatement(q.op))
            /\ req' = [req EXCEPT ![r] = q]
  BY DEF Receive
<1>2. CASE /\ Go(r, IF q.op \in BearerOps THEN "authenticate" ELSE FirstStatement(q.op))
           /\ req' = [req EXCEPT ![r] = q]
  <2> DEFINE label == IF q.op \in BearerOps THEN "authenticate" ELSE FirstStatement(q.op)
  <2>1. q.op \in PublicOps \cup BearerOps
    BY InputsType DEF ClientInput, ApiInv, TypeOK
  <2>2. \/ label = "authenticate"
        \/ label = "register_find" /\ q.op = "register"
        \/ label = "login_find" /\ q.op = "login"
        \/ label = "refresh_find" /\ q.op = "refresh"
    BY <2>1 DEF FirstStatement, PublicOps
  <2> HIDE DEF label
  <2>3. pc' = [pc EXCEPT ![r] = label]
    BY <1>2 DEF label
  <2>4. pc'[r] = label /\ req'[r] = q
    BY <1>2, <2>3 DEF ApiInv, TypeOK
  <2> QED
    BY <2>2, <2>4 DEF FlightOK, CurrentOK
<1> QED
  BY <1>1, <1>2, AnswerLands

LEMMA AuthenticateFlight ==
    ASSUME ApiInv, NEW r \in Request, Authenticate(r)
    PROVE  FlightOK(r)' /\ CurrentOK(r)'
<1>1. \/ \E status : Answer(r, status)
      \/ req[r].op # "me" /\ Go(r, FirstStatement(req[r].op))
  BY DEF Authenticate
<1>2. CASE req[r].op # "me" /\ Go(r, FirstStatement(req[r].op))
  <2>1. req[r].op \in BearerOps
    BY DEF Authenticate, ApiInv, RequestOK, InputOK
  <2>2. FirstStatement(req[r].op) \notin FlightLabel
    BY <1>2, <2>1 DEF FirstStatement, BearerOps, AdminOps, FlightLabel
  <2>3. pc'[r] = FirstStatement(req[r].op)
    BY <1>2 DEF ApiInv, TypeOK
  <2> QED
    BY <2>2, <2>3, OutOfFlight
<1> QED
  BY <1>1, <1>2, AnswerLands

LEMMA LoginFindFlight ==
    ASSUME ApiInv, NEW r \in Request, FlightOK(r), LoginFind(r)
    PROVE  FlightOK(r)' /\ CurrentOK(r)'
<1>1. pc[r] = "login_find" /\ UNCHANGED users
  BY Zenon DEF LoginFind
<1>2. ASSUME NEW u \in UserId, Exists(u), Go(r, "login_compare"),
             req' = [req EXCEPT ![r] = [req[r] EXCEPT !.user = u, !.row = users[u]]]
      PROVE  FlightOK(r)' /\ CurrentOK(r)'
  <2>1. req'[r] = [req[r] EXCEPT !.user = u, !.row = users[u]] /\ req[r] \in Req
    BY <1>2 DEF ApiInv, TypeOK
  <2>2. req'[r].user = u /\ req'[r].row = users[u] /\ req'[r].op = req[r].op
    BY <2>1 DEF Req
  <2>3. pc'[r] = "login_compare"
    BY <1>2 DEF ApiInv, TypeOK
  <2>4. req[r].op = "login"
    BY <1>1 DEF FlightOK
  <2>5. FlightOK(r)'
    BY <2>2, <2>3, <2>4 DEF FlightOK
  <2>6. CurrentOK(r)'
    BY <1>1, <1>2, <2>2, <2>3 DEF CurrentOK, Exists
  <2> QED
    BY <2>5, <2>6
<1> QED
  BY <1>2, AnswerLands, Zenon DEF LoginFind

LEMMA LoginCompareFlight ==
    ASSUME ApiInv, NEW r \in Request, FlightOK(r), LoginCompare(r)
    PROVE  FlightOK(r)' /\ (CurrentOK(r) /\ (r \in overtaken => r \in overtaken') => CurrentOK(r)')
<1>1. pc[r] = "login_compare" /\ UNCHANGED users
  BY DEF LoginCompare
<1>2. ASSUME NEW k \in Pair, Credible(req[r].row, req[r].password),
             Sign(k, req[r].user, req[r].row.role),
             req' = [req EXCEPT ![r].pair = k], Go(r, "login_create")
      PROVE  FlightOK(r)' /\ (CurrentOK(r) /\ (r \in overtaken => r \in overtaken') => CurrentOK(r)')
  <2>1. req'[r] = [req[r] EXCEPT !.pair = k] /\ req[r] \in Req
    BY <1>2 DEF ApiInv, TypeOK
  <2>2. /\ req'[r].pair = k /\ req'[r].user = req[r].user
        /\ req'[r].row = req[r].row /\ req'[r].op = req[r].op
        /\ req'[r].password = req[r].password
    BY <2>1 DEF Req
  <2>3. pc'[r] = "login_create"
    BY <1>2 DEF ApiInv, TypeOK
  <2>4. jwt'[k].sub = req[r].user /\ jwt'[k].role = req[r].row.role
    BY <1>2 DEF Sign, ApiInv, TypeOK
  <2>5. req[r].row \in UserRow /\ req[r].op = "login"
    BY <1>1 DEF ApiInv, RequestOK, LocalsOK, FlightOK
  <2>6. FlightOK(r)'
    BY <1>2, <2>2, <2>3, <2>4, <2>5 DEF FlightOK, Credible, Matches
  <2>7. CurrentOK(r) /\ (r \in overtaken => r \in overtaken') => CurrentOK(r)'
    BY <1>1, <2>2, <2>3 DEF CurrentOK, Exists
  <2> QED
    BY <2>6, <2>7
<1> QED
  BY <1>2, AnswerLands DEF LoginCompare

LEMMA RefreshFindFlight ==
    ASSUME ApiInv, NEW r \in Request, FlightOK(r), RefreshFind(r)
    PROVE  FlightOK(r)' /\ CurrentOK(r)'
<1> DEFINE t == req[r].refresh
           new == [req[r] EXCEPT !.stored = refreshTokens[t], !.user = refreshTokens[t].userId]
<1>1. pc[r] = "refresh_find" /\ UNCHANGED db
  BY DEF RefreshFind
<1>2. ASSUME IsRow(t), req' = [req EXCEPT ![r] = new], Go(r, "refresh_user")
      PROVE  FlightOK(r)' /\ CurrentOK(r)'
  <2>1. req'[r] = new /\ req[r] \in Req /\ pc'[r] = "refresh_user"
    BY <1>2 DEF ApiInv, TypeOK
  <2>2. /\ new.stored = refreshTokens[t] /\ new.refresh = t /\ new.op = req[r].op
    BY <2>1 DEF Req
  <2>3. req[r].op = "refresh"
    BY <1>1 DEF FlightOK
  <2> HIDE DEF t, new
  <2>4. FlightOK(r)'
    BY <2>1, <2>2, <2>3 DEF FlightOK
  <2>5. CurrentOK(r)'
    BY <1>1, <1>2, <2>1, <2>2 DEF CurrentOK, Live, IsRow
  <2> QED
    BY <2>4, <2>5
<1> QED
  BY <1>2, AnswerLands DEF RefreshFind

LEMMA RefreshUserFlight ==
    ASSUME ApiInv, NEW r \in Request, FlightOK(r), RefreshUser(r)
    PROVE  FlightOK(r)' /\ (CurrentOK(r) /\ (r \in overtaken => r \in overtaken') => CurrentOK(r)')
<1> DEFINE t == req[r].refresh
           u == req[r].user
           stored == req[r].stored
<1>1. pc[r] = "refresh_user" /\ UNCHANGED db
  BY DEF RefreshUser
<1>2. ASSUME Exists(u), Refreshable(stored, users[u]), NEW k \in Pair, Sign(k, u, users[u].role),
             req' = [req EXCEPT ![r] = [req[r] EXCEPT !.stored = None, !.pair = k]],
             Go(r, "refresh_commit")
      PROVE  FlightOK(r)' /\ (CurrentOK(r) /\ (r \in overtaken => r \in overtaken') => CurrentOK(r)')
  <2>1. req'[r] = [req[r] EXCEPT !.stored = None, !.pair = k] /\ req[r] \in Req
    BY <1>2 DEF ApiInv, TypeOK
  <2>2. /\ req'[r].pair = k /\ req'[r].user = u
        /\ req'[r].refresh = t /\ req'[r].op = req[r].op
    BY <2>1 DEF Req
  <2>3. pc'[r] = "refresh_commit"
    BY <1>2 DEF ApiInv, TypeOK
  <2>4. jwt'[k].sub = u /\ jwt'[k].role = users[u].role
    BY <1>2 DEF Sign, ApiInv, TypeOK
  <2>5. req[r].op = "refresh"
    BY <1>1 DEF FlightOK
  <2>6. /\ ~stored.isRevoked /\ users[u].isActive
        /\ CurrentOK(r) => r \in overtaken \/ Live(t)
    BY <1>1, <1>2 DEF Refreshable, Exists, CurrentOK
  <2> HIDE DEF t, u, stored
  <2>7. FlightOK(r)'
    BY <2>2, <2>3, <2>4, <2>5 DEF FlightOK
  <2>8. CurrentOK(r) /\ (r \in overtaken => r \in overtaken') => CurrentOK(r)'
    BY <1>1, <1>2, <2>2, <2>3, <2>4, <2>6 DEF CurrentOK, Live, IsRow, Exists
  <2> QED
    BY <2>7, <2>8
<1>3. \/ \E status : Answer(r, status)
      \/ /\ Exists(u) /\ Refreshable(stored, users[u])
         /\ \E k \in Pair :
               /\ Sign(k, u, users[u].role)
               /\ req' = [req EXCEPT ![r] = [req[r] EXCEPT !.stored = None, !.pair = k]]
         /\ Go(r, "refresh_commit")
  BY ZenonT(30) DEF RefreshUser
<1> HIDE DEF t, u, stored
<1> QED
  BY <1>2, <1>3, AnswerLands

\* A step keeps its request's part.
LEMMA OwnFlight ==
    ASSUME ApiInv, NEW r \in Request, FlightOK(r), CurrentOK(r), Step(r),
           r \in overtaken /\ pc'[r] # "idle" => r \in overtaken'
    PROVE  FlightOK(r)' /\ CurrentOK(r)'
<1> USE DEF ApiInv, TypeOK
<1>1. CASE Receive(r) \/ Authenticate(r)
  BY <1>1, ReceiveFlight, AuthenticateFlight
<1>2. CASE StoreError(r)
  BY <1>2, AnswerLands DEF StoreError
<1>3. CASE Respond(r) \/ Drop(r)
  <2>1. pc'[r] = "idle"
    BY <1>3 DEF Respond, Drop
  <2> QED
    BY <2>1, OutOfFlight DEF FlightLabel
<1>4. CASE UserStep(r)
  <2>1. pc'[r] \notin FlightLabel
    BY <1>4 DEF UserStep, GetUser, UpdateFind, UpdateWrite, DeleteFind, DeleteWrite, Find, Answer,
                FlightLabel
  <2> QED
    BY <2>1, OutOfFlight
<1>5. CASE RegisterFind(r)
  <2>1. Answer(r, 409) \/ (Go(r, "register_create") /\ UNCHANGED req)
    BY <1>5 DEF RegisterFind
  <2>2. ASSUME Go(r, "register_create"), UNCHANGED req PROVE FlightOK(r)' /\ CurrentOK(r)'
    <3>1. pc'[r] = "register_create" /\ req'[r] = req[r] /\ pc[r] = "register_find"
      BY <1>5, <2>2 DEF RegisterFind
    <3> QED
      BY <3>1 DEF FlightOK, CurrentOK
  <2> QED
    BY <2>1, <2>2, AnswerLands
<1>6. CASE LoginFind(r)
  BY <1>6, LoginFindFlight
<1>7. CASE LoginCompare(r)
  <2>1. pc'[r] # "idle"
    BY <1>7 DEF LoginCompare, Answer
  <2> QED
    BY <1>7, <2>1, LoginCompareFlight
<1>8. CASE RefreshFind(r) \/ RefreshUser(r)
  <2>1. RefreshUser(r) => pc'[r] # "idle"
    <3>1. RefreshUser(r) => Go(r, "respond") \/ Go(r, "refresh_commit")
      BY ZenonT(30) DEF RefreshUser, Answer
    <3> QED
      BY <3>1
  <2> QED
    BY <1>8, <2>1, RefreshFindFlight, RefreshUserFlight
<1>9. CASE \/ RegisterCreate(r) \/ LoginCreate(r) \/ RefreshCommit(r) \/ LogoutRevoke(r)
           \/ LogoutBlacklist(r)
           \/ PasswordFind(r) \/ PasswordUpdate(r) \/ PasswordRevoke(r) \/ PasswordCommit(r)
  <2>1. pc'[r] \in {"respond", "logout_blacklist",
                    "password_update", "password_revoke", "password_commit"}
    <3>1. CASE RegisterCreate(r) \/ LoginCreate(r) \/ RefreshCommit(r)
      BY <3>1 DEF RegisterCreate, LoginCreate, RefreshCommit, Answer, AnswerWithTokens
    <3>2. CASE LogoutRevoke(r) \/ LogoutBlacklist(r)
      BY <3>2 DEF LogoutRevoke, LogoutBlacklist, Answer
    <3>3. CASE PasswordFind(r) \/ PasswordUpdate(r) \/ PasswordRevoke(r) \/ PasswordCommit(r)
      BY <3>3 DEF PasswordFind, PasswordUpdate, PasswordRevoke, PasswordCommit, Answer
    <3> QED
      BY <1>9, <3>1, <3>2, <3>3
  <2> QED
    BY <2>1, OutOfFlight DEF FlightLabel
<1> QED
  BY <1>1, <1>2, <1>3, <1>4, <1>5, <1>6, <1>7, <1>8, <1>9, Zenon DEF Step, MiddlewareStep, AuthStep

\* A step leaves the other requests where they are.
LEMMA OthersStay ==
    ASSUME ApiInv, NEW r \in Request, NEW s \in Request, s # r, Step(r)
    PROVE  pc'[s] = pc[s] /\ req'[s] = req[s]
<1> USE DEF Answer, AnswerWithTokens, ApiInv, TypeOK
<1>0. pc'[s] = pc[s]
  BY StepsKeepOthers
<1>1. CASE MiddlewareStep(r)
  BY <1>0, <1>1 DEF MiddlewareStep, Receive, Authenticate, StoreError, Respond, Drop
<1>2. CASE UserStep(r)
  BY <1>0, <1>2 DEF UserStep, GetUser, UpdateFind, UpdateWrite, DeleteFind, DeleteWrite, Find
<1>3. CASE RegisterFind(r) \/ RegisterCreate(r)
  <2>1. CASE RegisterFind(r)
    BY <1>0, <2>1 DEF RegisterFind
  <2>2. CASE RegisterCreate(r)
    BY <1>0, <2>2, ZenonT(30) DEF RegisterCreate
  <2> QED
    BY <1>3, <2>1, <2>2
<1>4. CASE LoginFind(r)
  <2>1. \E q : req' = [req EXCEPT ![r] = q]
    BY <1>4, ZenonT(30) DEF LoginFind, Answer
  <2> QED
    BY <1>0, <2>1
<1>5. CASE LoginCompare(r) \/ LoginCreate(r)
  BY <1>0, <1>5 DEF LoginCompare, LoginCreate
<1>6. CASE RefreshFind(r) \/ RefreshUser(r) \/ RefreshCommit(r)
  <2>1. CASE RefreshFind(r) \/ RefreshUser(r)
    <3>1. RefreshFind(r) => \E q : req' = [req EXCEPT ![r] = q]
      BY ZenonT(30) DEF RefreshFind, Answer
    <3>2. RefreshUser(r) => \E q : req' = [req EXCEPT ![r] = q]
      BY ZenonT(30) DEF RefreshUser, Answer
    <3> QED
      BY <1>0, <2>1, <3>1, <3>2
  <2>2. CASE RefreshCommit(r)
    BY <1>0, <2>2 DEF RefreshCommit
  <2> QED
    BY <1>6, <2>1, <2>2
<1>7. CASE LogoutRevoke(r) \/ LogoutBlacklist(r)
  BY <1>0, <1>7 DEF LogoutRevoke, LogoutBlacklist
<1>8. CASE PasswordFind(r) \/ PasswordUpdate(r) \/ PasswordRevoke(r) \/ PasswordCommit(r)
  <2> DEFINE Goes == \E q : req' = [req EXCEPT ![r] = q] \/ req' = req
  <2>1. PasswordFind(r) => Goes
    BY ZenonT(30) DEF PasswordFind, Answer
  <2>2. PasswordUpdate(r) => Goes
    BY ZenonT(30) DEF PasswordUpdate, Answer
  <2>3. PasswordRevoke(r) \/ PasswordCommit(r) => Goes
    BY ZenonT(30) DEF PasswordRevoke, PasswordCommit, Answer
  <2> QED
    BY <1>0, <1>8, <2>1, <2>2, <2>3
<1> QED
  BY <1>1, <1>2, <1>3, <1>4, <1>5, <1>6, <1>7, <1>8 DEF Step, AuthStep

\* What a step can make of the row of a user.
LEMMA UserEffect ==
    ASSUME ApiInv, NEW r \in Request, Step(r), NEW v \in UserId
    PROVE  \/ users'[v] = users[v]
           \/ users'[v] = Deleted /\ Exists(v) /\ Deletes(v)
           \/ /\ Exists(v) /\ users'[v] \in UserRow
              /\ UNCHANGED refreshTokens
              /\ users'[v].passwordHash = users[v].passwordHash
           \/ /\ Exists(v) /\ users'[v] \in UserRow
              /\ users'[v].email = users[v].email /\ users'[v].username = users[v].username
              /\ \E K \in SUBSET TokensOf(v) : Revokes(K)
           \/ /\ users[v] = Absent /\ users'[v] \in UserRow
              /\ \E k \in Pair : Opens(k, v)
<1> USE DEF ApiInv, TypeOK
<1>1. CASE UNCHANGED users
  BY <1>1
<1>2. CASE RegisterCreate(r)
  <2>1. pc[r] = "register_create"
    BY <1>2 DEF RegisterCreate
  <2>2. \A role \in Role, active \in BOOLEAN :
           [email |-> req[r].email, username |-> req[r].username,
            passwordHash |-> Digest[req[r].password], role |-> role, isActive |-> active] \in UserRow
    BY <2>1, DigestType DEF RequestOK, InputOK, UserRow
  <2> QED
    BY <1>1, <1>2, <2>2, RegisterCreateEffect, ZenonT(30) DEF Role
<1>3. CASE PasswordCommit(r)
  <2>1. Digest[req[r].newPassword] \in Hash
    BY <1>3, DigestType DEF PasswordCommit, RequestOK, InputOK, PasswordLabel
  <2>2. ASSUME NEW u \in UserId, Exists(u), NEW h \in Hash, users' = [users EXCEPT ![u].passwordHash = h]
        PROVE  \/ users'[v] = users[v]
               \/ /\ v = u /\ users'[v] \in UserRow
                  /\ users'[v].email = users[v].email /\ users'[v].username = users[v].username
    <3>1. users[u] \in UserRow
      BY <2>2 DEF Exists
    <3> QED
      BY <2>2, <3>1 DEF UserRow
  <2> QED
    BY <1>1, <1>3, <2>1, <2>2, PasswordCommitEffect
<1>4. CASE UpdateWrite(r)
  BY <1>4, UpdateWriteEffect
<1>5. CASE DeleteWrite(r)
  BY <1>5, DeleteWriteEffect
<1> QED
  BY <1>1, <1>2, <1>3, <1>4, <1>5, ReadEffect, LoginCreateEffect, RefreshCommitEffect,
     LogoutRevokeEffect

\* A user who is gone stays gone.
LEMMA GoneStays ==
    ASSUME ApiInv, NEW r \in Request, Step(r), NEW v \in UserId, users[v] = Deleted
    PROVE  users'[v] = Deleted
BY UserEffect, NullsAssumption DEF Exists

\* A row keeps its owner and its expiry, and goes only with its user.
LEMMA RowsKept ==
    ASSUME ApiInv, NEW r \in Request, Step(r), NEW k \in Pair, IsRow(k)
    PROVE  \/ refreshTokens'[k] = Deleted /\ users'[refreshTokens[k].userId] = Deleted
           \/ /\ Stored(k)
              /\ refreshTokens'[k].userId = refreshTokens[k].userId
              /\ refreshTokens'[k].expiresAt = refreshTokens[k].expiresAt
<1> USE DEF Same, Stored, IsRow
<1>1. CASE UNCHANGED refreshTokens
  BY <1>1
<1>2. ASSUME NEW j, NEW u, Opens(j, u) PROVE refreshTokens'[k] = refreshTokens[k]
  BY <1>2 DEF Opens
<1>3. ASSUME NEW K, Revokes(K) PROVE Revoking(k) \/ refreshTokens'[k] = refreshTokens[k]
  BY <1>3 DEF Revokes
<1>4. ASSUME NEW t, NEW j, Spends(t, j) PROVE Revoking(k) \/ refreshTokens'[k] = refreshTokens[k]
  BY <1>4 DEF Spends
<1>5. ASSUME NEW u \in UserId, Exists(u), users' = [users EXCEPT ![u] = Deleted], Deletes(u)
      PROVE  \/ refreshTokens'[k] = refreshTokens[k]
             \/ refreshTokens'[k] = Deleted /\ users'[refreshTokens[k].userId] = Deleted
  BY <1>5 DEF Deletes, TokensOf, Exists, ApiInv, TypeOK
<1>6. CASE RegisterCreate(r) \/ LoginCreate(r)
  BY <1>1, <1>2, <1>6, RegisterCreateEffect, LoginCreateEffect
<1>7. CASE RefreshCommit(r) \/ LogoutRevoke(r) \/ PasswordCommit(r)
  <2>1. CASE RefreshCommit(r)
    BY <1>1, <1>4, <2>1, RefreshCommitEffect DEF Revoking
  <2>2. CASE LogoutRevoke(r)
    BY <1>1, <1>3, <2>2, LogoutRevokeEffect DEF Revoking
  <2>3. CASE PasswordCommit(r)
    BY <1>1, <1>3, <2>3, PasswordCommitEffect DEF Revoking
  <2> QED
    BY <1>7, <2>1, <2>2, <2>3
<1>8. CASE UpdateWrite(r) \/ DeleteWrite(r)
  <2>1. CASE UpdateWrite(r)
    BY <1>1, <2>1, UpdateWriteEffect
  <2>2. CASE DeleteWrite(r)
    BY <1>1, <1>5, <2>2, DeleteWriteEffect
  <2> QED
    BY <1>8, <2>1, <2>2
<1> QED
  BY <1>1, <1>6, <1>7, <1>8, ReadEffect

\* And so do the steps of others: whoever is not overtaken finds the users and
\* its token unchanged.
LEMMA OthersFlight ==
    ASSUME ApiInv, NEW r \in Request, NEW s \in Request, s # r, Step(r), Record(r),
           FlightOK(s), CurrentOK(s)
    PROVE  FlightOK(s)' /\ CurrentOK(s)'
<1>1. pc'[s] = pc[s] /\ req'[s] = req[s]
  BY OthersStay
<1>2. Grows
  BY NextPreserves DEF Next
<1> DEFINE q == req[s]
<1>3. pc[s] \in InsertLabel => jwt'[q.pair] = jwt[q.pair]
  BY <1>2 DEF ApiInv, RequestOK, LocalsOK, Signed, Grows
<1>4. pc[s] \in {"refresh_user", "refresh_commit"} =>
         /\ q.refresh \in Pair /\ q.user \in UserId
         /\ IsRow(q.refresh) => refreshTokens[q.refresh].userId = q.user
  BY DEF ApiInv, RequestOK, InputOK, LocalsOK, Signed, InsertLabel
<1>5. FlightOK(s)'
  BY <1>1, <1>3 DEF FlightOK, InsertLabel
<1>6. CurrentOK(s)'
  <2> SUFFICES ASSUME s \notin overtaken'
               PROVE  CurrentOK(s)'
    BY DEF CurrentOK
  <2>0. pc[s] # "idle" => s \notin overtaken /\ ~Overtakes(s)
    BY <1>1 DEF Record
  <2>1. CASE pc[s] \in {"login_compare", "login_create"}
    <3>1. q.user \in UserId
      BY <2>1 DEF ApiInv, RequestOK, LocalsOK, InsertLabel
    <3>2. users'[q.user] = users[q.user]
      BY <2>0, <2>1, <3>1 DEF Overtakes, ReliesOn
    <3> QED
      BY <1>1, <2>0, <2>1, <3>2 DEF CurrentOK, Exists
  <2>2. ASSUME pc[s] \in {"refresh_user", "refresh_commit"}, Live(q.refresh)
        PROVE  \/ Stored(q.refresh) /\ ~refreshTokens'[q.refresh].isRevoked
               \/ users'[q.user] = Deleted
    <3>1. q.refresh \notin NewlyRevoked
      BY <1>4, <2>0, <2>2 DEF Overtakes, HasRead
    <3>2. q.refresh \in Pair /\ IsRow(q.refresh) /\ refreshTokens[q.refresh].userId = q.user
      BY <1>4, <2>2 DEF Live
    <3>3. Stored(q.refresh) \/ users'[q.user] = Deleted
      BY <3>2, RowsKept
    <3>4. Stored(q.refresh) => ~refreshTokens'[q.refresh].isRevoked
      BY <2>2, <3>1, <3>2 DEF Stored, NewlyRevoked
    <3> QED
      BY <3>3, <3>4
  <2>3. CASE pc[s] = "refresh_user"
    <3>1. users[q.user] = Deleted => users'[q.user] = Deleted
      BY <1>4, <2>3, GoneStays
    <3> QED
      BY <1>1, <2>0, <2>2, <2>3, <3>1 DEF CurrentOK, Live, IsRow, Stored
  <2>4. CASE pc[s] = "refresh_commit"
    <3>1. users'[q.user] = users[q.user]
      BY <1>4, <2>0, <2>4 DEF Overtakes, ReliesOn
    <3>2. Live(q.refresh) /\ Exists(q.user)
      BY <2>0, <2>4 DEF CurrentOK
    <3>3. Stored(q.refresh) /\ ~refreshTokens'[q.refresh].isRevoked
      BY <2>2, <2>4, <3>1, <3>2 DEF Exists
    <3> QED
      BY <1>1, <1>3, <2>0, <2>4, <3>1, <3>2, <3>3 DEF CurrentOK, Live, IsRow, Stored, Exists, InsertLabel
  <2>5. CASE pc[s] \notin {"login_compare", "login_create", "refresh_user", "refresh_commit"}
    BY <1>1, <2>5 DEF CurrentOK
  <2> QED
    BY <2>1, <2>3, <2>4, <2>5
<1> QED
  BY <1>5, <1>6

FlightInv == \A r \in Request : FlightOK(r) /\ CurrentOK(r)

LEMMA FlightInvInit == HInit => FlightInv
BY DEF HInit, Init, FlightInv, FlightOK, CurrentOK

LEMMA FlightInvNext ==
    ASSUME ApiInv, FlightInv, [HNext]_hvars
    PROVE  FlightInv'
<1>1. CASE Tick /\ UNCHANGED history
  BY <1>1 DEF Tick, history, FlightInv, FlightOK, CurrentOK, IsRow, Live, Exists
<1>2. CASE UNCHANGED hvars
  BY <1>2 DEF hvars, vars, history, FlightInv, FlightOK, CurrentOK, IsRow, Live, Exists
<1>3. ASSUME NEW r \in Request, Step(r), Record(r) PROVE FlightInv'
  <2>1. r \in overtaken /\ pc'[r] # "idle" => r \in overtaken'
    BY <1>3 DEF Record
  <2>2. FlightOK(r)' /\ CurrentOK(r)'
    BY <1>3, <2>1, OwnFlight DEF FlightInv
  <2>3. \A s \in Request \ {r} : FlightOK(s)' /\ CurrentOK(s)'
    BY <1>3, OthersFlight DEF FlightInv
  <2> QED
    BY <2>2, <2>3 DEF FlightInv
<1> QED
  BY <1>1, <1>2, <1>3 DEF HNext

LEMMA FlightInvariant == HSpec => [](ApiInv /\ FlightInv)
BY FlightInvInit, FlightInvNext, HistoryRecords, ApiInvariant, PTL DEF HSpec

-----------------------------------------------------------------------------
(* Accounts.                                                               *)

\* The unique indexes keep emails and usernames apart: register's earlier check
\* and updateUser's missing one make no difference.
THEOREM IdentitiesUnique == HSpec => []UniqueIdentity
<1> DEFINE Apart(u, email, username) ==
              \A v \in UserId \ {u} : Exists(v) => email # users[v].email /\ username # users[v].username
<1>1. HInit => UniqueIdentity
  BY SeedAssumption DEF HInit, Init, UniqueIdentity, Exists
<1>2. ASSUME ApiInv, UniqueIdentity, NEW r \in Request, Step(r) PROVE UniqueIdentity'
  <2>1. ASSUME NEW u \in UserId, NEW row, users' = [users EXCEPT ![u] = row],
               Apart(u, row.email, row.username)
        PROVE  UniqueIdentity'
    BY <1>2, <2>1 DEF UniqueIdentity, Exists, ApiInv, TypeOK
  <2>2. CASE RegisterCreate(r)
    <3>1. ASSUME NEW u \in UserId,
                 users' = [users EXCEPT ![u] =
                     [email |-> req[r].email, username |-> req[r].username,
                      passwordHash |-> Digest[req[r].password], role |-> "USER", isActive |-> TRUE]],
                 ~UniqueViolation(None, req[r].email, req[r].username)
          PROVE  UniqueIdentity'
      <4>1. Apart(u, req[r].email, req[r].username)
        BY <3>1, NullsAssumption DEF UniqueViolation, Taken
      <4> HIDE DEF Apart
      <4> QED
        BY <2>1, <3>1, <4>1
    <3> QED
      BY <1>2, <2>2, <3>1, RegisterCreateEffect DEF UniqueIdentity, Exists
  <2>3. CASE PasswordCommit(r)
    <3>2. ASSUME NEW u \in UserId, NEW h, Exists(u), users' = [users EXCEPT ![u].passwordHash = h]
          PROVE  UniqueIdentity'
      <4>1. users[u] \in UserRow
        BY <1>2, <3>2 DEF Exists, ApiInv, TypeOK
      <4>2. /\ users' = [users EXCEPT ![u] = [users[u] EXCEPT !.passwordHash = h]]
            /\ [users[u] EXCEPT !.passwordHash = h].email = users[u].email
            /\ [users[u] EXCEPT !.passwordHash = h].username = users[u].username
        BY <3>2, <4>1 DEF UserRow
      <4> QED
        <5>1. Apart(u, users[u].email, users[u].username)
          BY <1>2, <3>2 DEF UniqueIdentity
        <5> HIDE DEF Apart
        <5> QED
          BY <2>1, <4>2, <5>1
    <3> QED
      BY <1>2, <2>3, <3>2, PasswordCommitEffect
  <2>4. CASE UpdateWrite(r)
    <3>1. CASE UNCHANGED users
      BY <1>2, <3>1 DEF UniqueIdentity, Exists
    <3>2. ASSUME NEW u \in UserId, NEW row \in UserRow, users' = [users EXCEPT ![u] = row],
                 ~UniqueViolation(u, row.email, row.username)
          PROVE  UniqueIdentity'
      <4>1. Apart(u, row.email, row.username)
        BY <3>2 DEF UniqueViolation, Taken
      <4> HIDE DEF Apart
      <4> QED
        BY <2>1, <3>2, <4>1
    <3> QED
      BY <1>2, <2>4, <3>1, <3>2, UpdateWriteEffect
  <2>5. CASE DeleteWrite(r)
    BY <1>2, <2>5, DeleteWriteEffect DEF UniqueIdentity, Exists, ApiInv, TypeOK
  <2>6. CASE UNCHANGED users
    BY <1>2, <2>6 DEF UniqueIdentity, Exists
  <2> QED
    BY <1>2, <2>2, <2>3, <2>4, <2>5, <2>6, ReadEffect, LoginCreateEffect, RefreshCommitEffect,
       LogoutRevokeEffect
<1>3. ApiInv /\ UniqueIdentity /\ [HNext]_hvars => UniqueIdentity'
  BY <1>2 DEF HNext, Tick, hvars, vars, UniqueIdentity, Exists
<1> QED
  BY <1>1, <1>3, FlightInvariant, PTL DEF HSpec

\* register's user and initial token come and go together: whatever fails, an
\* account that it created has a token, and no deletion leaves one without.
THEOREM AccountsHaveSessions == HSpec => []AccountHasSession
<1>1. HInit => AccountHasSession
  BY DEF HInit, Init, AccountHasSession, Exists
<1>2. ASSUME ApiInv, AccountHasSession, NEW r \in Request, Step(r) PROVE AccountHasSession'
  <2> SUFFICES ASSUME NEW v \in UserId, Exists(v)', Seed[v] = Absent
               PROVE  \E k \in Pair : Stored(k) /\ refreshTokens'[k].userId = v
    BY DEF AccountHasSession, Stored, IsRow
  <2>1. CASE Exists(v)
    <3>1. PICK k \in Pair : IsRow(k) /\ refreshTokens[k].userId = v
      BY <1>2, <2>1 DEF AccountHasSession
    <3>2. refreshTokens'[k] = Deleted => users'[v] = Deleted
      <4>1. CASE DeleteWrite(r)
        BY <1>2, <3>1, <4>1, DeleteWriteEffect, NullsAssumption
           DEF Deletes, TokensOf, IsRow, ApiInv, TypeOK
      <4>2. CASE ~DeleteWrite(r)
        BY <1>2, <3>1, <4>2, ReadEffect, RegisterCreateEffect, LoginCreateEffect,
           RefreshCommitEffect, LogoutRevokeEffect, PasswordCommitEffect, UpdateWriteEffect, ZenonT(30)
           DEF Opens, Spends, Revokes, Revoking, Same, Stored, IsRow
      <4> QED
        BY <4>1, <4>2
    <3> QED
      BY <1>2, <3>1, <3>2, RowsKept DEF Exists
  <2>2. CASE ~Exists(v)
    BY <1>2, <2>2, UserEffect DEF Exists, Opens
  <2> QED
    BY <2>1, <2>2
<1>3. ApiInv /\ AccountHasSession /\ [HNext]_hvars => AccountHasSession'
  BY <1>2 DEF HNext, Tick, hvars, vars, AccountHasSession, Exists, IsRow
<1> QED
  BY <1>1, <1>3, FlightInvariant, PTL DEF HSpec

=============================================================================
