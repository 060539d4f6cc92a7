----------------------------- MODULE AuthService -----------------------------
(***************************************************************************)
(* The state-changing operations of AuthService, one action per statement  *)
(* they await.  The transactions of register and refreshTokens write rows  *)
(* by key only: each is one action, its COMMIT.  changePassword's selects  *)
(* rows by predicate, so each of its statements is an action and its       *)
(* writes show at COMMIT; an error or a crash before that is its rollback. *)
(***************************************************************************)
EXTENDS ApiState

\* register: findFirst over email and username.
RegisterFind(r) ==
    /\ At(r, "register_find")
    /\ \/ /\ Taken(None, req[r].email, req[r].username)
          /\ Answer(r, 409)
       \/ /\ ~Taken(None, req[r].email, req[r].username)
          /\ Go(r, "register_create")
          /\ UNCHANGED req
    /\ UNCHANGED <<db, tokens, clock>>

\* Mutant: register leaves the token to a later login.
NoInitialTokens(k, u) == refreshTokens

\* The tokens of register's transaction: the initial refresh token.
InitialTokens(k, u) == [refreshTokens EXCEPT ![k] = NewTokenRow(u, clock)]

\* register: the transaction creates the user and the initial refresh token.
\* A name taken since the check trips a unique index (P2002, a 409).
RegisterCreate(r) ==
    /\ At(r, "register_create")
    /\ \/ /\ UniqueViolation(None, req[r].email, req[r].username)
          /\ Answer(r, 409)
          /\ UNCHANGED <<db, jwt>>
       \/ /\ ~UniqueViolation(None, req[r].email, req[r].username)
          /\ \E u \in UserId, k \in Pair :
                /\ users[u] = Absent
                /\ Unused(k)
                /\ users' = [users EXCEPT ![u] =
                       [email |-> req[r].email, username |-> req[r].username,
                        passwordHash |-> Digest[req[r].password],
                        role |-> "USER", isActive |-> TRUE]]
                /\ Sign(k, u, "USER")
                /\ refreshTokens' = InitialTokens(k, u)
                /\ AnswerWithTokens(r, 201, k)
    /\ UNCHANGED <<blacklist, held, clock>>

-----------------------------------------------------------------------------

\* login: findUnique by email.  Without a row the password is not compared.
LoginFind(r) ==
    /\ At(r, "login_find")
    /\ \/ /\ \A u \in UserId : Exists(u) => users[u].email # req[r].email
          /\ Answer(r, 401)
       \/ \E u \in UserId :
             /\ Exists(u) /\ users[u].email = req[r].email
             /\ Go(r, "login_compare")
             /\ req' = [req EXCEPT ![r] = [req[r] EXCEPT !.user = u, !.row = users[u]]]
    /\ UNCHANGED <<db, tokens, clock>>

\* Mutant: login does not look at isActive.
CredibleInactive(row, password) == Matches(password, row.passwordHash)

\* Mutant: login does not compare the password.
CredibleUncompared(row, password) == row.isActive

\* The condition for tokens, on the row that was read before bcrypt ran.
Credible(row, password) == row.isActive /\ Matches(password, row.passwordHash)

\* login: bcrypt's answer, and the two signatures.
LoginCompare(r) ==
    /\ At(r, "login_compare")
    /\ \/ /\ ~Credible(req[r].row, req[r].password)
          /\ Answer(r, 401)
          /\ UNCHANGED jwt
       \/ /\ Credible(req[r].row, req[r].password)
          /\ \E k \in Pair :
                /\ Unused(k)
                /\ Sign(k, req[r].user, req[r].row.role)
                /\ req' = [req EXCEPT ![r].pair = k]
          /\ Go(r, "login_create")
    /\ UNCHANGED <<db, blacklist, held, clock>>

\* login: insert the refresh token.  expiresAt was computed with the
\* signatures.  If the user is gone the foreign key refuses (P2003, a 500).
LoginCreate(r) ==
    LET k == req[r].pair
        u == req[r].user
    IN  /\ At(r, "login_create")
        /\ \/ /\ ~ForeignKey(u)
              /\ Answer(r, 500)
              /\ UNCHANGED refreshTokens
           \/ /\ ForeignKey(u)
              /\ refreshTokens' = [refreshTokens EXCEPT ![k] = NewTokenRow(u, jwt[k].iat)]
              /\ AnswerWithTokens(r, 200, k)
        /\ UNCHANGED <<users, tokens, clock>>

-----------------------------------------------------------------------------

\* refreshTokens: the first SELECT of findUnique, on the token.
RefreshFind(r) ==
    LET t == req[r].refresh
    IN  /\ At(r, "refresh_find")
        /\ \/ /\ ~IsRow(t)
              /\ Answer(r, 401)
           \/ /\ IsRow(t)
              /\ req' = [req EXCEPT ![r] = [req[r] EXCEPT !.stored = refreshTokens[t],
                                                        !.user = refreshTokens[t].userId]]
              /\ Go(r, "refresh_user")
        /\ UNCHANGED <<db, tokens, clock>>

\* Mutant: a revoked token is as good as a live one.
RefreshableRevoked(stored, user) == clock <= stored.expiresAt /\ user.isActive

\* The checks on the stored token and its user.
Refreshable(stored, user) ==
    ~stored.isRevoked /\ clock <= stored.expiresAt /\ user.isActive

\* refreshTokens: the second SELECT, on the user the include asks for.  A user
\* deleted in between is an inconsistent result, a 500.  Then the checks on
\* both rows, and a new pair for the user as it is now.
RefreshUser(r) ==
    LET u == req[r].user
        stored == req[r].stored
    IN  /\ At(r, "refresh_user")
        /\ \/ /\ ~Exists(u)
              /\ Answer(r, 500)
              /\ UNCHANGED jwt
           \/ /\ Exists(u)
              /\ ~Refreshable(stored, users[u])
              /\ Answer(r, 401)
              /\ UNCHANGED jwt
           \/ /\ Exists(u)
              /\ Refreshable(stored, users[u])
              /\ \E k \in Pair :
                    /\ Unused(k)
                    /\ Sign(k, u, users[u].role)
                    /\ req' = [req EXCEPT ![r] = [req[r] EXCEPT !.stored = None, !.pair = k]]
              /\ Go(r, "refresh_commit")
        /\ UNCHANGED <<db, blacklist, held, clock>>

\* Mutant: rotation extends the token it was given.
RotatedSliding(t, k, u) ==
    [refreshTokens EXCEPT ![t] = NewTokenRow(u, clock), ![k] = NewTokenRow(u, clock)]

\* Mutant: no transaction, and the instance dies between the writes.
RotatedHalf(t, k, u) == WithRevoked({t})

\* The two writes of the rotation: t is revoked, whatever has become of it
\* since it was read, and k is inserted.
Rotated(t, k, u) == [WithRevoked({t}) EXCEPT ![k] = NewTokenRow(u, clock)]

\* refreshTokens: the transaction.  update fails if the row is gone (P2025).
RefreshCommit(r) ==
    LET t == req[r].refresh
    IN  /\ At(r, "refresh_commit")
        /\ \/ /\ ~IsRow(t)
              /\ Answer(r, 404)
              /\ UNCHANGED refreshTokens
           \/ /\ IsRow(t)
              /\ refreshTokens' = Rotated(t, req[r].pair, req[r].user)
              /\ AnswerWithTokens(r, 200, req[r].pair)
        /\ UNCHANGED <<users, tokens, clock>>

-----------------------------------------------------------------------------

\* logout: revoke the given token, if it is this user's and still live.
LogoutRevoke(r) ==
    /\ At(r, "logout_revoke")
    /\ refreshTokens' = WithRevoked({k \in Pair : /\ k = req[r].refresh
                                                  /\ IsRow(k)
                                                  /\ refreshTokens[k].userId = req[r].user})
    /\ Go(r, "logout_blacklist")
    /\ UNCHANGED <<users, tokens, clock, req>>

\* Mutant: the key expires one unit early.
BlacklistExpiryShort(k) == clock + ACCESS_TOKEN_TTL - 1

\* When the key that logout sets expires.
BlacklistExpiry(k) == clock + ACCESS_TOKEN_TTL

\* logout: SETEX blacklist:<jti>.
LogoutBlacklist(r) ==
    LET k == req[r].access
    IN  /\ At(r, "logout_blacklist")
        /\ blacklist' = [blacklist EXCEPT ![k] = BlacklistExpiry(k)]
        /\ Answer(r, 200)
        /\ UNCHANGED <<db, jwt, held, clock>>

-----------------------------------------------------------------------------

\* changePassword: read the hash and compare the current password with it.
PasswordFind(r) ==
    LET u == req[r].user
    IN  /\ At(r, "password_find")
        /\ \/ /\ ~Exists(u)
              /\ Answer(r, 404)
           \/ /\ Exists(u)
              /\ ~Matches(req[r].password, users[u].passwordHash)
              /\ Answer(r, 401)
           \/ /\ Exists(u)
              /\ Matches(req[r].password, users[u].passwordHash)
              /\ Go(r, "password_update")
              /\ UNCHANGED req
        /\ UNCHANGED <<db, tokens, clock>>

\* changePassword's transaction: update the user, whose row stays locked until
\* the transaction ends.  It fails if the user is gone (P2025).
PasswordUpdate(r) ==
    LET u == req[r].user
    IN  /\ At(r, "password_update")
        /\ ~Locked(u)
        /\ \/ /\ ~Exists(u)
              /\ Answer(r, 404)
           \/ /\ Exists(u)
              /\ Go(r, "password_revoke")
              /\ UNCHANGED req
        /\ UNCHANGED <<db, tokens, clock>>

\* Mutant: the transaction changes the password only.
LiveTokensOfNobody(u) == {}

\* What changePassword's updateMany selects.
LiveTokensOf(u) == {k \in Pair : Live(k) /\ refreshTokens[k].userId = u}

\* changePassword's transaction: updateMany selects with a snapshot of its own,
\* as every statement under READ COMMITTED.  A row inserted later is not in it.
PasswordRevoke(r) ==
    /\ At(r, "password_revoke")
    /\ req' = [req EXCEPT ![r].revoking = LiveTokensOf(req[r].user)]
    /\ Go(r, "password_commit")
    /\ UNCHANGED <<db, tokens, clock>>

\* changePassword's transaction: COMMIT shows both writes at once.  A logout or
\* a rotation may have written a selected row before it could be locked.
PasswordCommit(r) ==
    /\ At(r, "password_commit")
    /\ users' = [users EXCEPT ![req[r].user].passwordHash = Digest[req[r].newPassword]]
    /\ refreshTokens' = WithRevoked(req[r].revoking)
    /\ Answer(r, 200)
    /\ UNCHANGED <<tokens, clock>>

-----------------------------------------------------------------------------

AuthStep(r) ==
    \/ RegisterFind(r)  \/ RegisterCreate(r)
    \/ LoginFind(r)     \/ LoginCompare(r)  \/ LoginCreate(r)
    \/ RefreshFind(r)   \/ RefreshUser(r)   \/ RefreshCommit(r)
    \/ LogoutRevoke(r)  \/ LogoutBlacklist(r)
    \/ PasswordFind(r)  \/ PasswordUpdate(r)  \/ PasswordRevoke(r)  \/ PasswordCommit(r)

=============================================================================
