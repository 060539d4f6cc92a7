----------------------------- MODULE ApiHistory -----------------------------
(***************************************************************************)
(* The API with history variables that remember where each refresh token   *)
(* came from, which sessions were ended and which access tokens were       *)
(* logged out; and the properties of the API, which speak of them.         *)
(*                                                                         *)
(* A session is the tokens that descend by rotation from one register or   *)
(* login; its name is its first token.                                     *)
(***************************************************************************)
EXTENDS Api

VARIABLES
    lineage,    \* per refresh token: its parent, its session, and the
                \* digest of the password its session was opened with; and
                \* whether it or an ancestor of it was inserted late
    loggedOut,  \* the access tokens of completed logouts
    ended,      \* the sessions a logout or a change of password has ended
    overtaken   \* the requests in flight that another one overtook: it wrote
                \* the user row or revoked the token row that they have read

history == <<lineage, loggedOut, ended, overtaken>>
hvars == <<vars, history>>

Lineage == [parent : Pair \cup {None}, session : Pair, cred : Hash, late : BOOLEAN]

ASSUME LineageAssumption == Absent \notin Lineage

HInit ==
    /\ Init
    /\ lineage = [k \in Pair |-> Absent]
    /\ loggedOut = {}
    /\ ended = {}
    /\ overtaken = {}

\* A change of u's password has selected the tokens it revokes.
Sweeping(u) == \E s \in Request : At(s, "password_commit") /\ req[s].user = u

\* A token is late if a request that was overtaken inserts it, or if it comes
\* after the selection of a change of password that has not committed.
Late(r) == r \in overtaken \/ Sweeping(req[r].user)

\* What lineage says of a token k that request r inserts.
Birth(r, k) ==
    CASE req[r].op = "register" ->
            [parent |-> None, session |-> k, cred |-> Digest[req[r].password],
             late |-> FALSE]
      [] req[r].op = "login" ->
            [parent |-> None, session |-> k, cred |-> Digest[req[r].password],
             late |-> Late(r)]
      [] req[r].op = "refresh" ->
            [lineage[req[r].refresh] EXCEPT !.parent = req[r].refresh,
                                            !.late = @ \/ Late(r)]

\* The live tokens that a step revokes.
NewlyRevoked ==
    {k \in Pair : Live(k) /\ refreshTokens'[k] # Deleted /\ refreshTokens'[k].isRevoked}

\* The user whose row request s has read, or for whom it answers with tokens.
ReliesOn(s, u) ==
    \/ pc[s] \in {"login_compare", "login_create", "refresh_commit"}
       /\ req[s].user = u
    \/ pc[s] = "respond" /\ req[s].pair # None /\ jwt[req[s].pair].sub = u

\* The refresh token whose row request s has read.
HasRead(s, t) == pc[s] \in {"refresh_user", "refresh_commit"} /\ req[s].refresh = t

\* A step takes from request s what it relies on.
Overtakes(s) ==
    \/ \E u \in UserId : ReliesOn(s, u) /\ users'[u] # users[u]
    \/ \E t \in NewlyRevoked : HasRead(s, t)

\* What the history variables make of a step of request r.
Record(r) ==
    /\ lineage' = [k \in Pair |->
           IF refreshTokens[k] = Absent /\ refreshTokens'[k] # Absent
           THEN Birth(r, k) ELSE lineage[k]]
    /\ loggedOut' = loggedOut \cup
           {k \in {req[r].access} : At(r, "logout_blacklist") /\ req'[r].status = 200}
    /\ ended' = ended \cup
           {lineage[k].session : k \in {j \in NewlyRevoked :
                                           pc[r] \in {"logout_revoke", "password_commit"}}}
    /\ overtaken' = {s \in Request :
           pc'[s] # "idle" /\ (s \in overtaken \/ (s # r /\ Overtakes(s)))}

HNext ==
    \/ Tick /\ UNCHANGED history
    \/ \E r \in Request : Step(r) /\ Record(r)

HSpec == HInit /\ [][HNext]_hvars

Born(k) == lineage[k] # Absent

-----------------------------------------------------------------------------
(* Sessions.                                                               *)

\* A session that nobody ended keeps a live refresh token, however rotations,
\* failures and crashes interleave, unless its user is deleted: "no token is
\* lost during rotation" (refreshTokens' comment).
SessionSurvivesRotation ==
    \A k \in Pair :
        (Born(k) /\ refreshTokens[k] # Deleted /\ lineage[k].session \notin ended)
            => \E j \in Pair : Live(j) /\ lineage[j].session = lineage[k].session

\* A refresh token is spent at most once: no two tokens descend from the same
\* one.  refreshTokens does not look at the row again when it revokes it, so
\* this is true of requests that do not overlap.
RotationSingleUse ==
    \A j, k \in Pair :
        (Born(j) /\ Born(k) /\ j # k /\ lineage[j].parent # None)
            => lineage[j].parent # lineage[k].parent

\* Whatever overlaps, of two successors of one token at least one goes back to
\* a request that was in flight when the token was revoked: a request that
\* arrives later never rotates it again.
ForksWereOvertaken ==
    \A j, k \in Pair :
        (Born(j) /\ Born(k) /\ j # k
         /\ lineage[j].parent # None /\ lineage[j].parent = lineage[k].parent)
            => lineage[j].late \/ lineage[k].late

\* A session that logout or changePassword ended has no live token again.
\* True of requests that do not overlap.
EndedSessionsStayEnded ==
    \A k \in Pair : Live(k) => lineage[k].session \notin ended

\* Every live refresh token belongs to a session opened with the user's
\* current password: changePassword's "force re-login on all devices".  True
\* of requests that do not overlap.
SessionsUseCurrentPassword ==
    \A k \in Pair : Live(k) => lineage[k].cred = users[refreshTokens[k].userId].passwordHash

\* Whatever overlaps, a session that was ended and has a live token has one
\* that was inserted late: by a rotation in flight when its token was revoked,
\* or past the selection of a change of password.  No request that arrives
\* after the end brings the session back.
EndedSessionsWereOvertaken ==
    \A k \in Pair :
        (Live(k) /\ lineage[k].session \in ended)
            => \E j \in Pair :
                  Born(j) /\ lineage[j].session = lineage[k].session /\ lineage[j].late

\* Whatever overlaps, a live token of a session opened with an older password
\* goes back to one inserted late: by a request that had read the old hash or a
\* live ancestor when the change committed, or between the transaction's
\* updateMany and its COMMIT.  Every other token of the user is revoked.
StaleSessionsWereOvertaken ==
    \A k \in Pair :
        (Live(k) /\ lineage[k].cred # users[refreshTokens[k].userId].passwordHash)
            => lineage[k].late

\* A refresh that finds its token revoked leaves its session without a live
\* token: "Reuse of a revoked token triggers invalidation of the entire
\* session" (the documentation of POST /auth/refresh).
ReuseInvalidatesSession ==
    [][\A r \in Request :
          LET t == req[r].refresh IN
          (At(r, "refresh_user") /\ req[r].stored.isRevoked /\ req'[r].status = 401)
              => \A k \in Pair : Live(k)' => lineage'[k].session # lineage[t].session]_hvars

\* What is revoked stays revoked and what is deleted stays deleted, whatever
\* rotation, logout, changePassword and deleteUser do to the same row.
RevocationIsFinal ==
    [][\A k \in Pair :
          /\ refreshTokens[k] = Deleted => refreshTokens'[k] = Deleted
          /\ IsRow(k) /\ refreshTokens[k].isRevoked =>
                \/ refreshTokens'[k] = Deleted
                \/ refreshTokens'[k] = refreshTokens[k]]_hvars

-----------------------------------------------------------------------------
(* Logging out.                                                            *)

\* While the access token of a completed logout has not expired, its jti is on
\* the blacklist: logout's fixed TTL covers the token's remaining lifetime.
LogoutIsFinal ==
    \A k \in loggedOut : clock < jwt[k].iat + AccessTTL => Blacklisted(k)

\* Why: the clock never runs behind an iat, and the key of a logged out token
\* lives at least as long as the token.
LogoutInv ==
    /\ \A k \in Pair : jwt[k] # Absent => jwt[k].iat <= clock
    /\ \A k \in loggedOut : Signed(k) /\ jwt[k].iat + AccessTTL <= blacklist[k]

\* authenticate lets no request through on an unexpired access token whose
\* logout is complete, although it verifies the token one await before it
\* asks for the blacklist.
LoggedOutIsRefused ==
    [][\A r \in Request :
          (/\ At(r, "authenticate") /\ req[r].access \in loggedOut
           /\ AccessValid(req[r].access) /\ pc'[r] \notin {"authenticate", "idle"})
              => pc'[r] = "respond" /\ req'[r].status \in {401, 500}]_hvars

-----------------------------------------------------------------------------
(* Accounts.                                                               *)

\* No two users have the same email or the same username, although register
\* checks first and inserts after bcrypt, and updateUser does not check.
UniqueIdentity ==
    \A u, v \in UserId :
        (u # v /\ Exists(u) /\ Exists(v))
            => users[u].email # users[v].email /\ users[u].username # users[v].username

\* A user that register created has had a refresh token: a crash or an error
\* leaves no account without its initial token.
AccountHasSession ==
    \A u \in UserId :
        (Exists(u) /\ Seed[u] = Absent)
            => \E k \in Pair : IsRow(k) /\ refreshTokens[k].userId = u

\* Unless another request overtook it, a request that answers with
\* tokens answers for an active user, with that user's role now, in a session
\* opened with that user's password now: neither an old token's claims nor a
\* deactivated account can get new tokens.
IssueIsCurrent ==
    \A r \in Request \ overtaken :
        LET k == req[r].pair
            u == jwt[k].sub
        IN  (At(r, "respond") /\ k # None)
                => /\ Exists(u)
                   /\ users[u].isActive
                   /\ users[u].role = jwt[k].role
                   /\ lineage[k].parent = None => lineage[k].cred = users[u].passwordHash

-----------------------------------------------------------------------------
(* The tables, with the lineage, implement the ledger of refresh tokens.   *)

AccountState ==
    [u \in UserId |-> IF Exists(u) THEN "open" ELSE IF users[u] = Absent THEN "none" ELSE "closed"]

RowState(row) == IF row.isRevoked THEN "revoked" ELSE "live"

TokenState ==
    [k \in Pair |-> IF IsRow(k) THEN RowState(refreshTokens[k])
                    ELSE IF refreshTokens[k] = Absent THEN "unborn" ELSE "deleted"]

TokenOwner == [k \in Pair |-> IF IsRow(k) THEN refreshTokens[k].userId ELSE None]

TokenParent == [k \in Pair |-> IF Born(k) THEN lineage[k].parent ELSE None]

LateTokens == {k \in Pair : Born(k) /\ lineage[k].late}

Strict == INSTANCE TokenLedger WITH
    Token <- Pair, Owner <- UserId, Nobody <- None,
    account <- AccountState, status <- TokenState, owner <- TokenOwner,
    parent <- TokenParent, late <- {}

Lenient == INSTANCE TokenLedger WITH
    Token <- Pair, Owner <- UserId, Nobody <- None,
    account <- AccountState, status <- TokenState, owner <- TokenOwner,
    parent <- TokenParent, late <- LateTokens

\* Requests that do not overlap keep the ledger that the documentation
\* promises: a token is rotated only while it is live, and a change of password
\* revokes all that its account has, in one step however the handler is split.
StrictLedger == Strict!LSpec

\* Whatever overlaps, fails or crashes, the tables keep a ledger whose only
\* licence are the late tokens: nothing but a late token enters by the rotation
\* of a revoked one, and a change of password misses nothing but late ones.
\* Every token enters once, for an open account, and no step revives one.
OverlapLedger == Lenient!LSpec

=============================================================================
