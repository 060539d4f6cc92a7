---------------------------- MODULE SessionProofs ----------------------------
(***************************************************************************)
(* Sessions, for every value of the constants.  A step either leaves the   *)
(* tokens alone, begins a session, continues one, ends some, or removes    *)
(* those of a user (SessionSteps); each promise of ApiHistory about        *)
(* sessions is then a matter of these five cases.                          *)
(***************************************************************************)
EXTENDS HistoryProofs

USE DEF At, Go, db, tokens

\* The lineage of a token is written once, when its row is; a parent is never
\* live again.
LineageOK ==
    /\ lineage \in [Pair -> Lineage \cup {Absent}]
    /\ \A k \in Pair : Born(k) <=> refreshTokens[k] # Absent
    /\ \A k \in Pair : Born(k) => Born(lineage[k].session)
    /\ \A k \in Pair : Born(k) /\ lineage[k].parent # None =>
          Born(lineage[k].parent) /\ ~Live(lineage[k].parent)

HashKept(v) == Exists(v)' => Exists(v) /\ users'[v].passwordHash = users[v].passwordHash

HashesKept == \A v \in UserId : HashKept(v)

\* No account but those of U is opened or closed.
SameAccounts(U) ==
    \A v \in UserId \ U : /\ Exists(v)' <=> Exists(v)
                          /\ users'[v] = Absent <=> users[v] = Absent

\* No row but k's comes or goes, and lineage speaks of k.
NewLineage(k, l) == lineage' = [lineage EXCEPT ![k] = l]

SameSessions == UNCHANGED <<lineage, ended>>

Nothing == UNCHANGED refreshTokens /\ SameSessions /\ HashesKept /\ SameAccounts({})

Begins(k, u, cred, late) ==
    /\ Opens(k, u)
    /\ cred \in Hash /\ late \in BOOLEAN
    /\ NewLineage(k, [parent |-> None, session |-> k, cred |-> cred, late |-> late])
    /\ UNCHANGED ended
    /\ late \/ (cred = users'[u].passwordHash /\ ~Sweeping(u))
    /\ \A v \in UserId : Exists(v) => HashKept(v)
    /\ SameAccounts({u}) /\ users'[u] \notin {Absent, Deleted} /\ (Exists(u) \/ users[u] = Absent)

Continues(t, k, late) ==
    /\ Spends(t, k)
    /\ late \in BOOLEAN
    /\ NewLineage(k, [parent |-> t, session |-> lineage[t].session,
                      cred |-> lineage[t].cred, late |-> lineage[t].late \/ late])
    /\ UNCHANGED <<users, ended>>
    /\ late \/ (Live(t) /\ ~Sweeping(refreshTokens[t].userId))

Ends(K) ==
    /\ Revokes(K)
    /\ UNCHANGED lineage
    /\ ended' = ended \cup {lineage[k].session : k \in {j \in K : Live(j)}}

\* logout ends at most one session; changePassword all of one user's, but for
\* tokens that are late.
EndsOne(K) == Ends(K) /\ UNCHANGED users /\ HashesKept /\ \A j, k \in K : j = k

EndsAll(K, u) ==
    /\ Ends(K) /\ K \subseteq TokensOf(u)
    /\ \A k \in TokensOf(u) \ K : Live(k) => lineage[k].late
    /\ \A v \in UserId \ {u} : HashKept(v)
    /\ SameAccounts({}) /\ Exists(u)

Removes(u) ==
    /\ Deletes(u) /\ SameSessions /\ HashesKept
    /\ SameAccounts({u}) /\ Exists(u) /\ users'[u] = Deleted

-----------------------------------------------------------------------------
(* What Record makes of the step's effect.                                 *)

\* What a change of password has not selected is late.
SweepInv ==
    \A s \in Request : At(s, "password_commit") =>
        \A k \in Pair :
            (Live(k) /\ refreshTokens[k].userId = req[s].user)
                => k \in req[s].revoking \/ lineage[k].late

LEMMA RevokedNow ==
    ASSUME ApiInv, NEW k \in Pair
    PROVE  k \in NewlyRevoked <=>
               Live(k) /\ refreshTokens'[k] # Deleted /\ refreshTokens'[k].isRevoked
BY DEF NewlyRevoked

\* Lineage follows the rows that enter.
LEMMA LineageUnchanged ==
    ASSUME ApiInv, LineageOK, NEW r \in Request, Record(r),
           \A k \in Pair : refreshTokens[k] = Absent => refreshTokens'[k] = Absent
    PROVE  UNCHANGED lineage
BY DEF Record, LineageOK

LEMMA LineageExtended ==
    ASSUME ApiInv, LineageOK, NEW r \in Request, Record(r), NEW j \in Pair,
           refreshTokens[j] = Absent, refreshTokens'[j] # Absent,
           \A k \in Pair \ {j} : refreshTokens[k] = Absent => refreshTokens'[k] = Absent
    PROVE  NewLineage(j, Birth(r, j))
BY DEF Record, LineageOK, NewLineage

LEMMA EndedUnchanged ==
    ASSUME ApiInv, NEW r \in Request, Record(r),
           pc[r] \notin {"logout_revoke", "password_commit"} \/ NewlyRevoked = {}
    PROVE  UNCHANGED ended
BY DEF Record

LEMMA EndedExtended ==
    ASSUME ApiInv, NEW r \in Request, Record(r), pc[r] \in {"logout_revoke", "password_commit"},
           NEW K \in SUBSET Pair, Revokes(K)
    PROVE  ended' = ended \cup {lineage[k].session : k \in {j \in K : Live(j)}}
<1>1. NewlyRevoked = {j \in K : Live(j)}
  BY DEF NewlyRevoked, Revokes, Revoking, Stored, Same, Live, IsRow
<1> QED
  BY <1>1 DEF Record

LEMMA RegisterBegins ==
    ASSUME ApiInv, FlightInv, LineageOK, NEW r \in Request, RegisterCreate(r), Record(r)
    PROVE  \/ Nothing
           \/ \E k \in Pair, u \in UserId, cred \in Hash, late \in BOOLEAN :
                 Begins(k, u, cred, late)
<1>1. /\ pc[r] = "register_create" /\ req[r].op = "register"
      /\ req[r].password \in Password /\ Digest[req[r].password] \in Hash
  BY DigestType DEF RegisterCreate, FlightInv, FlightOK, ApiInv, RequestOK, InputOK
<1>2. UNCHANGED ended
  BY <1>1, EndedUnchanged
<1>3. CASE UNCHANGED db
  BY <1>2, <1>3, LineageUnchanged DEF Nothing, SameSessions, HashesKept, HashKept, SameAccounts, Exists
<1>4. ASSUME NEW u \in UserId, NEW k \in Pair, Opens(k, u), users[u] = Absent,
             users' = [users EXCEPT ![u] =
                        [email |-> req[r].email, username |-> req[r].username,
                         passwordHash |-> Digest[req[r].password],
                         role |-> "USER", isActive |-> TRUE]]
      PROVE  Begins(k, u, Digest[req[r].password], FALSE)
  <2>0. ~Sweeping(u)
    BY <1>4 DEF Sweeping, ApiInv, RequestOK, LocalsOK, LockLabel, Exists
  <2>1. Birth(r, k) = [parent |-> None, session |-> k, cred |-> Digest[req[r].password],
                       late |-> FALSE]
    BY <1>1 DEF Birth
  <2>2. NewLineage(k, Birth(r, k))
    BY <1>4, LineageExtended DEF Opens, Stored, Same
  <2>3. users'[u].passwordHash = Digest[req[r].password]
    BY <1>4 DEF ApiInv, TypeOK
  <2>4. \A v \in UserId : Exists(v) => HashKept(v)
    BY <1>4 DEF HashKept, Exists, ApiInv, TypeOK
  <2>5. SameAccounts({u}) /\ users'[u] \notin {Absent, Deleted}
    <3>1. [email |-> req[r].email, username |-> req[r].username,
           passwordHash |-> Digest[req[r].password], role |-> "USER", isActive |-> TRUE] \in UserRow
      BY <1>1 DEF ApiInv, RequestOK, InputOK, UserRow, Role
    <3> QED
      BY <1>4, <3>1, NullsAssumption DEF SameAccounts, Exists, ApiInv, TypeOK
  <2> QED
    BY <1>1, <1>2, <1>4, <2>0, <2>1, <2>2, <2>3, <2>4, <2>5 DEF Begins
<1>5. ASSUME NEW u \in UserId, NEW k \in Pair, Begins(k, u, Digest[req[r].password], FALSE)
      PROVE  \E j \in Pair, v \in UserId, cred \in Hash, late \in BOOLEAN :
                Begins(j, v, cred, late)
  BY <1>1, <1>5
<1> QED
  BY <1>3, <1>4, <1>5, RegisterCreateEffect

LEMMA LoginBegins ==
    ASSUME ApiInv, FlightInv, LineageOK, NEW r \in Request, LoginCreate(r), Record(r)
    PROVE  \/ Nothing
           \/ \E k \in Pair, u \in UserId, cred \in Hash, late \in BOOLEAN :
                 Begins(k, u, cred, late)
<1> DEFINE u == req[r].user
           k == req[r].pair
<1>1. /\ pc[r] = "login_create" /\ req[r].op = "login" /\ u \in UserId
      /\ req[r].row \in UserRow /\ Digest[req[r].password] = req[r].row.passwordHash
      /\ r \in overtaken \/ req[r].row = users[u]
  BY DEF LoginCreate, FlightInv, FlightOK, CurrentOK, ApiInv, RequestOK, LocalsOK, InsertLabel
<1>2. UNCHANGED <<users, ended>>
  BY <1>1, EndedUnchanged DEF LoginCreate
<1>3. HashesKept
  BY <1>2 DEF HashesKept, HashKept, Exists
<1>4. CASE UNCHANGED refreshTokens
  BY <1>2, <1>3, <1>4, LineageUnchanged DEF Nothing, SameSessions, SameAccounts, Exists
<1>5. ASSUME Opens(k, u), Exists(u)
      PROVE  Begins(k, u, req[r].row.passwordHash, Late(r))
  <2>0. SameAccounts({u}) /\ users'[u] \notin {Absent, Deleted}
    <3>1. users' = users
      BY <1>2
    <3> QED
      BY <1>5, <3>1 DEF SameAccounts, Exists
  <2>1. Birth(r, k) = [parent |-> None, session |-> k, cred |-> req[r].row.passwordHash,
                       late |-> Late(r)]
    BY <1>1 DEF Birth
  <2>2. NewLineage(k, Birth(r, k))
    BY <1>5, LineageExtended DEF Opens, Stored, Same
  <2>3. req[r].row.passwordHash \in Hash
    BY <1>1 DEF UserRow
  <2>4. Late(r) \/ (req[r].row.passwordHash = users'[u].passwordHash /\ ~Sweeping(u))
    BY <1>1, <1>2 DEF Late
  <2>5. Late(r) \in BOOLEAN
    BY DEF Late, Sweeping
  <2> HIDE DEF k, u
  <2> QED
    BY <1>2, <1>3, <1>5, <2>0, <2>1, <2>2, <2>3, <2>4, <2>5 DEF Begins, HashesKept
<1>6. Late(r) \in BOOLEAN
  BY DEF Late, Sweeping
<1>7. ASSUME Begins(k, u, req[r].row.passwordHash, Late(r)), k \in Pair
      PROVE  \E j \in Pair, v \in UserId, cred \in Hash, late \in BOOLEAN :
                Begins(j, v, cred, late)
  <2>1. req[r].row.passwordHash \in Hash
    BY <1>1 DEF UserRow
  <2> HIDE DEF u, k
  <2> QED
    BY <1>1, <1>6, <1>7, <2>1
<1> QED
  BY <1>1, <1>4, <1>5, <1>7, LoginCreateEffect DEF Opens

LEMMA RefreshContinues ==
    ASSUME ApiInv, FlightInv, LineageOK, NEW r \in Request, RefreshCommit(r), Record(r)
    PROVE  \/ Nothing
           \/ \E t, k \in Pair, late \in BOOLEAN : Continues(t, k, late)
<1> DEFINE t == req[r].refresh
           k == req[r].pair
<1>1. /\ pc[r] = "refresh_commit" /\ req[r].op = "refresh"
      /\ r \in overtaken \/ Live(t)
      /\ IsRow(t) => refreshTokens[t].userId = req[r].user
  BY DEF RefreshCommit, FlightInv, FlightOK, CurrentOK, ApiInv, RequestOK, LocalsOK
<1>2. UNCHANGED <<users, ended>>
  BY <1>1, EndedUnchanged DEF RefreshCommit
<1>3. CASE UNCHANGED refreshTokens
  BY <1>2, <1>3, LineageUnchanged DEF Nothing, SameSessions, HashesKept, HashKept, SameAccounts, Exists
<1>4. ASSUME Spends(t, k)
      PROVE  t \in Pair /\ k \in Pair /\ Continues(t, k, Late(r))
  <2>1. t \in Pair /\ k \in Pair /\ IsRow(t)
    BY <1>4 DEF Spends, Revoking
  <2>2. lineage[t] \in Lineage
    BY <2>1 DEF LineageOK, Born, IsRow
  <2>3. Birth(r, k) = [lineage[t] EXCEPT !.parent = t, !.late = @ \/ Late(r)]
    BY <1>1 DEF Birth
  <2>4. Birth(r, k) = [parent |-> t, session |-> lineage[t].session,
                       cred |-> lineage[t].cred, late |-> lineage[t].late \/ Late(r)]
    BY <2>2, <2>3 DEF Lineage
  <2>5. NewLineage(k, Birth(r, k))
    BY <1>4, LineageExtended DEF Spends, Revoking, Stored, IsRow, Same
  <2>6. Late(r) \/ (Live(t) /\ ~Sweeping(refreshTokens[t].userId))
    BY <1>1, <2>1 DEF Late
  <2>7. Late(r) \in BOOLEAN
    BY DEF Late, Sweeping
  <2> HIDE DEF t, k
  <2> QED
    BY <1>2, <1>4, <2>1, <2>4, <2>5, <2>6, <2>7 DEF Continues
<1>5. Late(r) \in BOOLEAN
  BY DEF Late, Sweeping
<1>6. ASSUME t \in Pair, k \in Pair, Continues(t, k, Late(r))
      PROVE  \E i, j \in Pair, late \in BOOLEAN : Continues(i, j, late)
  <2> HIDE DEF t, k
  <2> QED
    BY <1>5, <1>6
<1> QED
  BY <1>3, <1>4, <1>6, RefreshCommitEffect

LEMMA LogoutEnds ==
    ASSUME ApiInv, LineageOK, NEW r \in Request, LogoutRevoke(r), Record(r)
    PROVE  \E K \in SUBSET Pair : EndsOne(K)
<1> DEFINE K == {k \in Pair : k = req[r].refresh /\ IsRow(k) /\ refreshTokens[k].userId = req[r].user}
<1>1. pc[r] = "logout_revoke" /\ UNCHANGED users /\ refreshTokens' = WithRevoked(K)
  BY DEF LogoutRevoke
<1>2. Revokes(K)
  BY <1>1, WithRevokedRevokes
<1>3. ended' = ended \cup {lineage[k].session : k \in {j \in K : Live(j)}}
  BY <1>1, <1>2, EndedExtended
<1>4. UNCHANGED lineage
  BY <1>2, LineageUnchanged DEF Revokes, Revoking, IsRow, Same
<1>5. HashesKept /\ \A j, k \in K : j = k
  BY <1>1 DEF HashesKept, HashKept, Exists
<1> HIDE DEF K
<1>6. EndsOne(K) /\ K \in SUBSET Pair
  BY <1>1, <1>2, <1>3, <1>4, <1>5 DEF EndsOne, Ends, K
<1> QED
  BY <1>6

LEMMA PasswordEnds ==
    ASSUME ApiInv, LineageOK, SweepInv, NEW r \in Request, PasswordCommit(r), Record(r)
    PROVE  \E u \in UserId, K \in SUBSET Pair : EndsAll(K, u)
<1> DEFINE u == req[r].user
           K == req[r].revoking
           hash == Digest[req[r].newPassword]
<1>1. pc[r] = "password_commit" /\ hash \in Hash
  BY DigestType DEF PasswordCommit, ApiInv, RequestOK, InputOK, PasswordLabel
<1>2. /\ u \in UserId /\ Exists(u)
      /\ users' = [users EXCEPT ![u].passwordHash = hash]
      /\ K \in SUBSET TokensOf(u) /\ Revokes(K)
  BY PasswordCommitEffect
<1>3. K \in SUBSET Pair
  BY <1>2 DEF TokensOf
<1>4. \A k \in TokensOf(u) \ K : Live(k) => lineage[k].late
  BY <1>1 DEF SweepInv, TokensOf
<1>5. ended' = ended \cup {lineage[k].session : k \in {j \in K : Live(j)}}
  BY <1>1, <1>2, <1>3, EndedExtended
<1> HIDE DEF u, K, hash
<1>6. UNCHANGED lineage
  BY <1>2, LineageUnchanged DEF Revokes, Revoking, IsRow, Same
<1>7. \A v \in UserId \ {u} : HashKept(v)
  BY <1>2 DEF HashKept, Exists, ApiInv, TypeOK
<1>8. SameAccounts({})
  <2>1. users[u] \in UserRow
    BY <1>2 DEF Exists, ApiInv, TypeOK
  <2>2. [users[u] EXCEPT !.passwordHash = hash] \in UserRow
    BY <1>1, <2>1 DEF UserRow
  <2>3. [users[u] EXCEPT !.passwordHash = hash] \notin {Absent, Deleted}
    BY <2>2, NullsAssumption
  <2> QED
    BY <1>2, <2>3 DEF SameAccounts, Exists, ApiInv, TypeOK
<1>9. EndsAll(K, u)
  BY <1>2, <1>4, <1>5, <1>6, <1>7, <1>8 DEF EndsAll, Ends
<1> QED
  BY <1>2, <1>3, <1>9

LEMMA UpdateNothing ==
    ASSUME ApiInv, LineageOK, NEW r \in Request, UpdateWrite(r), Record(r)
    PROVE  Nothing
<1>1. pc[r] = "update_write" /\ UNCHANGED refreshTokens
  BY DEF UpdateWrite
<1>2. HashesKept
  BY UpdateWriteEffect DEF HashesKept, HashKept, Exists, ApiInv, TypeOK
<1>3. SameAccounts({})
  <2>1. ASSUME NEW u \in UserId, Exists(u), NEW row \in UserRow, users' = [users EXCEPT ![u] = row]
        PROVE  SameAccounts({})
    BY <2>1, NullsAssumption DEF SameAccounts, Exists, ApiInv, TypeOK
  <2>2. CASE UNCHANGED users
    BY <2>2 DEF SameAccounts, Exists
  <2> QED
    BY <2>1, <2>2, UpdateWriteEffect
<1> QED
  BY <1>1, <1>2, <1>3, EndedUnchanged, LineageUnchanged DEF Nothing, SameSessions

LEMMA DeleteRemoves ==
    ASSUME ApiInv, LineageOK, NEW r \in Request, DeleteWrite(r), Record(r)
    PROVE  Nothing \/ \E u \in UserId : Removes(u)
<1>1. pc[r] = "delete_write"
  BY DEF DeleteWrite
<1>2. UNCHANGED ended
  BY <1>1, EndedUnchanged
<1>3. CASE UNCHANGED db
  BY <1>2, <1>3, LineageUnchanged DEF Nothing, SameSessions, HashesKept, HashKept, SameAccounts, Exists
<1>4. ASSUME NEW u \in UserId, Exists(u), users' = [users EXCEPT ![u] = Deleted], Deletes(u)
      PROVE  Removes(u)
  <2>1. UNCHANGED lineage
    BY <1>4, LineageUnchanged DEF Deletes, TokensOf, IsRow
  <2>2. HashesKept
    BY <1>4 DEF HashesKept, HashKept, Exists, ApiInv, TypeOK
  <2>3. SameAccounts({u}) /\ users'[u] = Deleted
    BY <1>4 DEF SameAccounts, Exists, ApiInv, TypeOK
  <2> QED
    BY <1>2, <1>4, <2>1, <2>2, <2>3 DEF Removes, SameSessions
<1> QED
  BY <1>3, <1>4, DeleteWriteEffect

LEMMA ReadNothing ==
    ASSUME ApiInv, LineageOK, NEW r \in Request, Record(r), UNCHANGED db
    PROVE  Nothing
<1>1. NewlyRevoked = {}
  BY DEF NewlyRevoked, Live
<1> QED
  BY <1>1, EndedUnchanged, LineageUnchanged DEF Nothing, SameSessions, HashesKept, HashKept, SameAccounts, Exists

\* The five things a step can do to sessions.
SessionStep ==
    \/ Nothing
    \/ \E k \in Pair, u \in UserId, cred \in Hash, late \in BOOLEAN :
          Begins(k, u, cred, late)
    \/ \E t, k \in Pair, late \in BOOLEAN : Continues(t, k, late)
    \/ \E K \in SUBSET Pair : EndsOne(K)
    \/ \E u \in UserId, K \in SUBSET Pair : EndsAll(K, u)
    \/ \E u \in UserId : Removes(u)

LEMMA SessionSteps ==
    ASSUME ApiInv, FlightInv, LineageOK, SweepInv, [HNext]_hvars
    PROVE  SessionStep
<1>1. CASE UNCHANGED <<db, history>>
  <2>1. users' = users /\ refreshTokens' = refreshTokens /\ lineage' = lineage /\ ended' = ended
    BY <1>1 DEF history
  <2> QED
    BY <2>1 DEF SessionStep, Nothing, SameSessions, HashesKept, HashKept, SameAccounts, Exists
<1>2. ASSUME NEW r \in Request, Step(r), Record(r) PROVE SessionStep
  <2>1. CASE RegisterCreate(r) \/ LoginCreate(r)
    BY <1>2, <2>1, RegisterBegins, LoginBegins DEF SessionStep
  <2>2. CASE RefreshCommit(r)
    BY <1>2, <2>2, RefreshContinues DEF SessionStep
  <2>3. CASE LogoutRevoke(r) \/ PasswordCommit(r)
    BY <1>2, <2>3, LogoutEnds, PasswordEnds DEF SessionStep
  <2>4. CASE UpdateWrite(r) \/ DeleteWrite(r)
    BY <1>2, <2>4, UpdateNothing, DeleteRemoves DEF SessionStep
  <2>5. CASE UNCHANGED db
    BY <1>2, <2>5, ReadNothing DEF SessionStep
  <2> QED
    BY <1>2, <2>1, <2>2, <2>3, <2>4, <2>5, ReadEffect
<1> QED
  BY <1>1, <1>2 DEF HNext, Tick, hvars, vars, history

-----------------------------------------------------------------------------
(* The five cases, token by token.                                         *)

LEMMA Written ==
    ASSUME LineageOK, NEW k \in Pair, NEW l, NewLineage(k, l)
    PROVE  lineage'[k] = l /\ \A j \in Pair \ {k} : lineage'[j] = lineage[j]
BY DEF LineageOK, NewLineage

\* A session begins with a token that no other mentions.
LEMMA BeginsAt ==
    ASSUME ApiInv, LineageOK, NEW k \in Pair, NEW u \in UserId, NEW cred, NEW late,
           Begins(k, u, cred, late)
    PROVE  /\ ~Born(k) /\ Born(k)' /\ Live(k)' /\ refreshTokens'[k].userId = u
           /\ lineage'[k].parent = None /\ lineage'[k].session = k
           /\ lineage'[k].cred = cred /\ lineage'[k].late = late
           /\ lineage'[k] \in Lineage
           /\ \A j \in Pair \ {k} : /\ lineage'[j] = lineage[j]
                                    /\ refreshTokens'[j] = refreshTokens[j]
           /\ \A j \in Pair : Born(j) => lineage[j].session # k /\ lineage[j].parent # k
<1>1. refreshTokens[k] = Absent /\ Stored(k) /\ ~refreshTokens'[k].isRevoked
      /\ refreshTokens'[k].userId = u /\ Same(Pair \ {k})
  BY DEF Begins, Opens
<1>2. lineage'[k] = [parent |-> None, session |-> k, cred |-> cred, late |-> late]
      /\ \A j \in Pair \ {k} : lineage'[j] = lineage[j]
  BY Written DEF Begins
<1>3. lineage'[k] \in Lineage
  BY <1>2 DEF Begins, Lineage
<1>4. ~Born(k) /\ Born(k)'
  BY <1>1, <1>3, LineageAssumption DEF LineageOK, Born
<1>5. \A j \in Pair : Born(j) => lineage[j].session # k /\ lineage[j].parent # k
  BY <1>4, NullsAssumption DEF LineageOK
<1>6. /\ lineage'[k].parent = None /\ lineage'[k].session = k
      /\ lineage'[k].cred = cred /\ lineage'[k].late = late
  <2> DEFINE l == [parent |-> None, session |-> k, cred |-> cred, late |-> late]
  <2>1. l.parent = None /\ l.session = k /\ l.cred = cred
    OBVIOUS
  <2>2. l.late = late
    BY Zenon
  <2> HIDE DEF l
  <2>3. lineage'[k] = l
    BY <1>2 DEF l
  <2> QED
    BY <2>1, <2>2, <2>3
<1> QED
  BY <1>1, <1>2, <1>3, <1>4, <1>5, <1>6 DEF Live, IsRow, Stored, Same

\* A successor is as new, and its parent is never live again.
LEMMA ContinuesAt ==
    ASSUME ApiInv, LineageOK, NEW t \in Pair, NEW k \in Pair, NEW late, Continues(t, k, late)
    PROVE  /\ t # k /\ Born(t) /\ IsRow(t) /\ ~Live(t)' /\ Born(t)' /\ IsRow(t)'
           /\ refreshTokens'[t].expiresAt = refreshTokens[t].expiresAt
           /\ refreshTokens'[t].userId = refreshTokens[t].userId
           /\ ~Born(k) /\ Born(k)' /\ Live(k)' /\ IsRow(k)'
           /\ refreshTokens'[k].userId = refreshTokens[t].userId
           /\ lineage[t] \in Lineage /\ lineage'[k] \in Lineage
           /\ lineage'[k].parent = t /\ lineage'[k].session = lineage[t].session
           /\ lineage'[k].cred = lineage[t].cred
           /\ lineage'[k].late = (lineage[t].late \/ late)
           /\ \A j \in Pair \ {k} : lineage'[j] = lineage[j]
           /\ \A j \in Pair \ {t, k} : refreshTokens'[j] = refreshTokens[j]
           /\ \A j \in Pair : Born(j) => lineage[j].session # k /\ lineage[j].parent # k
<1> DEFINE l == [parent |-> t, session |-> lineage[t].session,
                 cred |-> lineage[t].cred, late |-> lineage[t].late \/ late]
<1>1. /\ Revoking(t) /\ IsRow(t) /\ refreshTokens[k] = Absent /\ Stored(k)
      /\ ~refreshTokens'[k].isRevoked
      /\ refreshTokens'[k].userId = refreshTokens[t].userId /\ Same(Pair \ {t, k})
  BY DEF Continues, Spends, Revoking
<1>2. t # k /\ Born(t) /\ ~Born(k)
  BY <1>1 DEF LineageOK, IsRow
<1>3. lineage[t] \in Lineage
  BY <1>2 DEF LineageOK, Born
<1>4. lineage'[k] = l /\ \A j \in Pair \ {k} : lineage'[j] = lineage[j]
  BY Written DEF Continues
<1>5. lineage'[k] \in Lineage
  BY <1>3, <1>4 DEF Continues, Lineage
<1>6. Born(k)' /\ Born(t)'
  BY <1>2, <1>3, <1>4, <1>5, LineageAssumption DEF Born
<1>7. \A j \in Pair : Born(j) => lineage[j].session # k /\ lineage[j].parent # k
  BY <1>2, NullsAssumption DEF LineageOK
<1>8. ~Live(t)' /\ IsRow(t)' /\ Live(k)' /\ IsRow(k)'
      /\ refreshTokens'[t].expiresAt = refreshTokens[t].expiresAt
      /\ refreshTokens'[t].userId = refreshTokens[t].userId
  BY <1>1 DEF Revoking, Live, IsRow, Stored
<1>9. /\ lineage'[k].parent = t /\ lineage'[k].session = lineage[t].session
      /\ lineage'[k].cred = lineage[t].cred
      /\ lineage'[k].late = (lineage[t].late \/ late)
  <2> HIDE DEF l
  <2>1. l.late = (lineage[t].late \/ late)
    BY Zenon DEF l
  <2>2. l.parent = t /\ l.session = lineage[t].session /\ l.cred = lineage[t].cred
    BY DEF l
  <2> QED
    BY <1>4, <2>1, <2>2
<1> QED
  BY <1>1, <1>2, <1>3, <1>4, <1>5, <1>6, <1>7, <1>8, <1>9 DEF Same

LEMMA EndsAt ==
    ASSUME ApiInv, NEW K \in SUBSET Pair, Ends(K)
    PROVE  /\ lineage' = lineage
           /\ \A j \in Pair : /\ IsRow(j)' <=> IsRow(j)
                              /\ Live(j)' <=> Live(j) /\ j \notin K
                              /\ refreshTokens'[j] = Absent <=> refreshTokens[j] = Absent
                              /\ refreshTokens'[j] = Deleted <=> refreshTokens[j] = Deleted
                              /\ IsRow(j) => /\ refreshTokens'[j].userId = refreshTokens[j].userId
                                             /\ refreshTokens'[j].expiresAt = refreshTokens[j].expiresAt
           /\ \A j \in K : Live(j) => lineage[j].session \in ended'
           /\ ended \subseteq ended'
BY DEF Ends, Revokes, Revoking, Same, Stored, Live, IsRow

LEMMA RemovesAt ==
    ASSUME ApiInv, NEW u \in UserId, Removes(u)
    PROVE  /\ lineage' = lineage /\ ended' = ended
           /\ \A j \in Pair : /\ refreshTokens'[j] = Absent <=> refreshTokens[j] = Absent
                              /\ IsRow(j)' => IsRow(j) /\ refreshTokens'[j] = refreshTokens[j]
                              /\ Live(j)' <=> Live(j) /\ refreshTokens[j].userId # u
                              /\ IsRow(j) /\ refreshTokens[j].userId # u =>
                                     refreshTokens'[j] = refreshTokens[j]
                              /\ refreshTokens'[j] = Deleted <=>
                                     refreshTokens[j] = Deleted \/ (IsRow(j) /\ refreshTokens[j].userId = u)
BY NullsAssumption DEF Removes, SameSessions, Deletes, TokensOf, Live, IsRow

\* What has been written stays, and what is no longer live stays so.
LEMMA LineageOKNext ==
    ASSUME ApiInv, LineageOK, SessionStep
    PROVE  LineageOK'
<1> DEFINE NewBorn(k) == lineage'[k] # Absent
           NewLive(k) == refreshTokens'[k] \notin {Absent, Deleted} /\ ~refreshTokens'[k].isRevoked
           OK(k) == /\ NewBorn(k) <=> refreshTokens'[k] # Absent
                    /\ NewBorn(k) =>
                          /\ NewBorn(lineage'[k].session)
                          /\ lineage'[k].parent # None =>
                                NewBorn(lineage'[k].parent) /\ ~NewLive(lineage'[k].parent)
<1>0. ASSUME lineage' \in [Pair -> Lineage \cup {Absent}], \A k \in Pair : OK(k)
      PROVE  LineageOK'
  BY <1>0 DEF LineageOK, Born, Live, IsRow
<1>00. ASSUME NEW k \in Pair, Born(k)
       PROVE  /\ lineage[k] \in Lineage /\ Born(lineage[k].session)
              /\ lineage[k].session \in Pair
              /\ lineage[k].parent # None => /\ lineage[k].parent \in Pair
                                             /\ Born(lineage[k].parent)
                                             /\ ~Live(lineage[k].parent)
  BY <1>00 DEF LineageOK, Born, Lineage
<1>1. CASE Nothing
  BY <1>1 DEF Nothing, SameSessions, LineageOK, Born, Live, IsRow
<1>2. ASSUME NEW k \in Pair, NEW u \in UserId, NEW cred, NEW late, Begins(k, u, cred, late)
      PROVE  LineageOK'
  <2>1. lineage' \in [Pair -> Lineage \cup {Absent}]
    <3>1. lineage'[k] \in Lineage
      BY <1>2, BeginsAt
    <3>2. PICK l : NewLineage(k, l)
      BY <1>2 DEF Begins
    <3> QED
      BY <3>1, <3>2, Written DEF LineageOK, NewLineage
  <2>2. ASSUME NEW j \in Pair
        PROVE  /\ Born(j) => NewBorn(j)
               /\ j # k /\ ~Live(j) => ~NewLive(j)
               /\ NewBorn(j) <=> refreshTokens'[j] # Absent
    <3>1. CASE j = k
      BY <1>2, <3>1, BeginsAt DEF Born, Live, IsRow
    <3>2. CASE j # k
      <4>1. lineage'[j] = lineage[j] /\ refreshTokens'[j] = refreshTokens[j]
        BY <1>2, <3>2, BeginsAt
      <4> QED
        BY <4>1 DEF LineageOK, Born, Live, IsRow
    <3> QED
      BY <3>1, <3>2
  <2>3. OK(k)
    <3>1. lineage'[k].session = k /\ lineage'[k].parent = None /\ NewBorn(k)
      <4>1. lineage'[k].session = k /\ lineage'[k].parent = None /\ Born(k)'
        BY <1>2, BeginsAt
      <4> QED
        BY <4>1 DEF Born
    <3> HIDE DEF NewBorn, NewLive
    <3> QED
      BY <2>2, <3>1
  <2>4. ASSUME NEW j \in Pair \ {k} PROVE OK(j)
    <3>1. lineage'[j] = lineage[j] /\ (NewBorn(j) => Born(j) /\ lineage[j].parent # k)
      <4>1. lineage'[j] = lineage[j] /\ (Born(j) => lineage[j].parent # k)
        BY <1>2, BeginsAt
      <4> QED
        BY <4>1 DEF Born
    <3> HIDE DEF NewBorn, NewLive
    <3> QED
      BY <1>00, <2>2, <3>1
  <2> QED
    BY <1>0, <2>1, <2>3, <2>4
<1>3. ASSUME NEW t \in Pair, NEW k \in Pair, NEW late, Continues(t, k, late)
      PROVE  LineageOK'
  <2>1. lineage' \in [Pair -> Lineage \cup {Absent}]
    <3>1. lineage'[k] \in Lineage
      BY <1>3, ContinuesAt
    <3>2. PICK l : NewLineage(k, l)
      BY <1>3 DEF Continues
    <3> QED
      BY <3>1, <3>2, Written DEF LineageOK, NewLineage
  <2>2. ASSUME NEW j \in Pair
        PROVE  /\ Born(j) => NewBorn(j)
               /\ j # k /\ ~Live(j) => ~NewLive(j)
               /\ NewBorn(j) <=> refreshTokens'[j] # Absent
    <3>1. CASE j = k \/ j = t
      BY <1>3, <3>1, ContinuesAt DEF Born, Live, IsRow
    <3>2. CASE j # k /\ j # t
      <4>1. lineage'[j] = lineage[j] /\ refreshTokens'[j] = refreshTokens[j]
        BY <1>3, <3>2, ContinuesAt
      <4> QED
        BY <4>1 DEF LineageOK, Born, Live, IsRow
    <3> QED
      BY <3>1, <3>2
  <2>3. OK(k)
    <3>1. /\ Born(t) /\ lineage'[k].parent = t /\ lineage'[k].session = lineage[t].session
          /\ ~NewLive(t)
      BY <1>3, ContinuesAt DEF Live, IsRow
    <3> HIDE DEF NewBorn, NewLive
    <3> QED
      BY <1>00, <2>2, <3>1
  <2>4. ASSUME NEW j \in Pair \ {k} PROVE OK(j)
    <3>1. lineage'[j] = lineage[j] /\ (NewBorn(j) => Born(j) /\ lineage[j].parent # k)
      <4>1. lineage'[j] = lineage[j] /\ (Born(j) => lineage[j].parent # k)
        BY <1>3, ContinuesAt
      <4> QED
        BY <4>1 DEF Born
    <3> HIDE DEF NewBorn, NewLive
    <3> QED
      BY <1>00, <2>2, <3>1
  <2> QED
    BY <1>0, <2>1, <2>3, <2>4
<1>4. ASSUME lineage' = lineage,
             \A k \in Pair : /\ refreshTokens'[k] = Absent <=> refreshTokens[k] = Absent
                             /\ Live(k)' => Live(k)
      PROVE  LineageOK'
  <2>1. \A j \in Pair : /\ Born(j) <=> NewBorn(j)
                        /\ ~Live(j) => ~NewLive(j)
                        /\ NewBorn(j) <=> refreshTokens'[j] # Absent
    BY <1>4 DEF LineageOK, Born, Live, IsRow
  <2>2. \A k \in Pair : OK(k)
    <3> HIDE DEF NewBorn, NewLive
    <3> QED
      BY <1>00, <1>4, <2>1
  <2> QED
    BY <1>0, <1>4, <2>2 DEF LineageOK
<1>5. ASSUME NEW K \in SUBSET Pair, Ends(K) PROVE LineageOK'
  BY <1>4, <1>5, EndsAt
<1>6. ASSUME NEW u \in UserId, Removes(u) PROVE LineageOK'
  BY <1>4, <1>6, RemovesAt
<1> QED
  BY <1>1, <1>2, <1>3, <1>5, <1>6 DEF SessionStep, EndsOne, EndsAll

-----------------------------------------------------------------------------
(* What the five cases keep.                                               *)

\* The rows of a session have one owner.
SessionOwner ==
    \A j, k \in Pair :
        (IsRow(j) /\ IsRow(k) /\ lineage[j].session = lineage[k].session)
            => refreshTokens[j].userId = refreshTokens[k].userId

LEMMA RowsBorn == ASSUME LineageOK, NEW k \in Pair, IsRow(k) PROVE Born(k)
BY DEF LineageOK, IsRow

LEMMA SessionOwnerNext ==
    ASSUME ApiInv, LineageOK, SessionOwner, SessionStep
    PROVE  SessionOwner'
<1> DEFINE Row(k) == refreshTokens'[k] \notin {Absent, Deleted}
           Agree(j, k) == (Row(j) /\ Row(k) /\ lineage'[j].session = lineage'[k].session)
                             => refreshTokens'[j].userId = refreshTokens'[k].userId
<1>0. (\A j, k \in Pair : Agree(j, k)) => SessionOwner'
  BY DEF SessionOwner, IsRow
<1>1. CASE Nothing
  BY <1>1 DEF Nothing, SameSessions, SessionOwner, IsRow
<1>2. ASSUME NEW k \in Pair, NEW u \in UserId, NEW cred, NEW late, Begins(k, u, cred, late)
      PROVE  SessionOwner'
  <2>1. ASSUME NEW j \in Pair \ {k}
        PROVE  /\ lineage'[j] = lineage[j] /\ refreshTokens'[j] = refreshTokens[j]
               /\ IsRow(j) => lineage[j].session # k
    BY <1>2, BeginsAt, RowsBorn
  <2>2. lineage'[k].session = k
    BY <1>2, BeginsAt
  <2>3. \A j \in Pair : Agree(j, k) /\ Agree(k, j)
    BY <2>1, <2>2 DEF IsRow
  <2>4. \A i, j \in Pair \ {k} : Agree(i, j)
    BY <2>1 DEF SessionOwner, IsRow
  <2> QED
    BY <1>0, <2>3, <2>4
<1>3. ASSUME NEW t \in Pair, NEW k \in Pair, NEW late, Continues(t, k, late)
      PROVE  SessionOwner'
  <2>1. /\ IsRow(t) /\ lineage'[t] = lineage[t] /\ refreshTokens'[t].userId = refreshTokens[t].userId
        /\ lineage'[k].session = lineage[t].session
        /\ refreshTokens'[k].userId = refreshTokens[t].userId
    BY <1>3, ContinuesAt
  <2>2. \A j \in Pair \ {t, k} : lineage'[j] = lineage[j] /\ refreshTokens'[j] = refreshTokens[j]
    BY <1>3, ContinuesAt
  <2>3. \A i, j \in Pair : Agree(i, j)
    BY <2>1, <2>2 DEF SessionOwner, IsRow
  <2> QED
    BY <1>0, <2>3
<1>4. ASSUME lineage' = lineage,
             \A k \in Pair : IsRow(k)' => IsRow(k) /\ refreshTokens'[k].userId = refreshTokens[k].userId
      PROVE  SessionOwner'
  BY <1>4 DEF SessionOwner, IsRow
<1>5. ASSUME NEW K \in SUBSET Pair, Ends(K) PROVE SessionOwner'
  BY <1>4, <1>5, EndsAt
<1>6. ASSUME NEW u \in UserId, Removes(u) PROVE SessionOwner'
  BY <1>4, <1>6, RemovesAt
<1> QED
  BY <1>1, <1>2, <1>3, <1>5, <1>6 DEF SessionStep, EndsOne, EndsAll

LEMMA ForksNext ==
    ASSUME ApiInv, LineageOK, ForksWereOvertaken, SessionStep
    PROVE  ForksWereOvertaken'
<1> DEFINE NewBorn(k) == lineage'[k] # Absent
           Fork(j, k) == /\ NewBorn(j) /\ NewBorn(k) /\ j # k
                         /\ lineage'[j].parent # None /\ lineage'[j].parent = lineage'[k].parent
<1>0. ASSUME \A j, k \in Pair : Fork(j, k) => lineage'[j].late \/ lineage'[k].late
      PROVE  ForksWereOvertaken'
  BY <1>0 DEF ForksWereOvertaken, Born
<1>1. CASE UNCHANGED lineage
  BY <1>1 DEF ForksWereOvertaken, Born
<1>2. ASSUME NEW k \in Pair, NEW u \in UserId, NEW cred, NEW late, Begins(k, u, cred, late)
      PROVE  ForksWereOvertaken'
  <2>1. lineage'[k].parent = None
    BY <1>2, BeginsAt
  <2>2. \A j \in Pair \ {k} : lineage'[j] = lineage[j]
    BY <1>2, BeginsAt
  <2> QED
    BY <1>0, <2>1, <2>2 DEF ForksWereOvertaken, Born
<1>3. ASSUME NEW t \in Pair, NEW k \in Pair, NEW late, Continues(t, k, late)
      PROVE  ForksWereOvertaken'
  <2>1. lineage'[k].parent = t /\ lineage'[k].late = (lineage[t].late \/ late)
    BY <1>3, ContinuesAt
  <2>2. \A j \in Pair \ {k} : lineage'[j] = lineage[j]
    BY <1>3, ContinuesAt
  <2>3. late \/ Live(t)
    BY <1>3 DEF Continues
  <2>4. ASSUME NEW j \in Pair \ {k}, Fork(j, k) \/ Fork(k, j)
        PROVE  lineage'[k].late
    <3>1. Born(j) /\ lineage[j].parent = t /\ t # None
      BY <2>1, <2>2, <2>4 DEF Born
    <3>2. ~Live(t)
      BY <3>1 DEF LineageOK
    <3> QED
      BY <2>1, <2>3, <3>2
  <2> QED
    BY <1>0, <2>2, <2>4 DEF ForksWereOvertaken, Born
<1> QED
  BY <1>1, <1>2, <1>3
     DEF SessionStep, Nothing, EndsOne, EndsAll, Ends, Removes, SameSessions

LEMMA StaleNext ==
    ASSUME ApiInv, ApiInv', LineageOK, StaleSessionsWereOvertaken, SessionStep
    PROVE  StaleSessionsWereOvertaken'
<1> DEFINE NewLive(k) == refreshTokens'[k] \notin {Absent, Deleted} /\ ~refreshTokens'[k].isRevoked
           Fine(k) == NewLive(k) =>
                         \/ lineage'[k].cred = users'[refreshTokens'[k].userId].passwordHash
                         \/ lineage'[k].late
<1>0. (\A k \in Pair : Fine(k)) => StaleSessionsWereOvertaken'
  BY DEF StaleSessionsWereOvertaken, Live, IsRow
<1>00. \A k \in Pair : NewLive(k) =>
          refreshTokens'[k].userId \in UserId /\ users'[refreshTokens'[k].userId] \notin {Absent, Deleted}
  BY DEF ApiInv, TypeOK, TokenRow, NoOrphanSession, IsRow, Exists
\* A live token that keeps its row, of a user who keeps the hash, is as it was.
<1>1. ASSUME NEW k \in Pair, lineage'[k] = lineage[k], NewLive(k) => Live(k),
             NewLive(k) => refreshTokens'[k].userId = refreshTokens[k].userId,
             NewLive(k) => HashKept(refreshTokens[k].userId)
      PROVE  Fine(k)
  BY <1>00, <1>1 DEF StaleSessionsWereOvertaken, HashKept, Exists
<1>2. CASE Nothing
  <2>1. lineage' = lineage /\ refreshTokens' = refreshTokens /\ HashesKept
    BY <1>2 DEF Nothing, SameSessions
  <2>2. \A k \in Pair : Fine(k)
    BY <1>00, <1>1, <2>1 DEF HashesKept, Live, IsRow
  <2> QED
    BY <1>0, <2>2
<1>3. ASSUME NEW k \in Pair, NEW u \in UserId, NEW cred, NEW late, Begins(k, u, cred, late)
      PROVE  StaleSessionsWereOvertaken'
  <2>1. /\ lineage'[k].cred = cred /\ lineage'[k].late = late
        /\ refreshTokens'[k].userId = u
    BY <1>3, BeginsAt
  <2>2. Fine(k)
    BY <1>3, <2>1 DEF Begins
  <2>3. ASSUME NEW j \in Pair \ {k} PROVE Fine(j)
    <3>1. lineage'[j] = lineage[j] /\ refreshTokens'[j] = refreshTokens[j]
      BY <1>3, BeginsAt
    <3>2. IsRow(j) => Exists(refreshTokens[j].userId) /\ refreshTokens[j].userId \in UserId
      BY DEF ApiInv, TypeOK, TokenRow, NoOrphanSession, IsRow
    <3> QED
      BY <1>1, <1>3, <3>1, <3>2 DEF Begins, Live, IsRow
  <2> QED
    BY <1>0, <2>2, <2>3
<1>4. ASSUME NEW t \in Pair, NEW k \in Pair, NEW late, Continues(t, k, late)
      PROVE  StaleSessionsWereOvertaken'
  <2>1. HashesKept /\ (late \/ Live(t))
    BY <1>4 DEF Continues, HashesKept, HashKept, Exists
  <2>2. /\ lineage'[k].cred = lineage[t].cred /\ lineage'[k].late = (lineage[t].late \/ late)
        /\ refreshTokens'[k].userId = refreshTokens[t].userId
        /\ ~Live(t)'
    BY <1>4, ContinuesAt
  <2>3. users' = users
    BY <1>4 DEF Continues
  <2>4. Fine(k)
    BY <2>1, <2>2, <2>3 DEF StaleSessionsWereOvertaken
  <2>5. Fine(t)
    BY <2>2 DEF Live, IsRow
  <2>6. ASSUME NEW j \in Pair \ {t, k} PROVE Fine(j)
    <3>1. lineage'[j] = lineage[j] /\ refreshTokens'[j] = refreshTokens[j]
      BY <1>4, ContinuesAt
    <3> QED
      BY <1>00, <1>1, <2>1, <3>1 DEF HashesKept, Live, IsRow
  <2> QED
    BY <1>0, <2>4, <2>5, <2>6
<1>5. ASSUME NEW K \in SUBSET Pair, Ends(K),
             \A k \in Pair \ K :
                 Live(k) => HashKept(refreshTokens[k].userId) \/ lineage[k].late
      PROVE  StaleSessionsWereOvertaken'
  <2>1. ASSUME NEW k \in Pair PROVE Fine(k)
    <3>1. /\ lineage'[k] = lineage[k]
          /\ NewLive(k) => /\ Live(k) /\ k \notin K
                           /\ refreshTokens'[k].userId = refreshTokens[k].userId
      BY <1>5, EndsAt DEF Live, IsRow
    <3> QED
      BY <1>1, <1>5, <3>1
  <2> QED
    BY <1>0, <2>1
<1>6. ASSUME NEW K \in SUBSET Pair, EndsOne(K) PROVE StaleSessionsWereOvertaken'
  BY <1>5, <1>6 DEF EndsOne, HashesKept, ApiInv, TypeOK, TokenRow, IsRow, Live
<1>7. ASSUME NEW u \in UserId, NEW K \in SUBSET Pair, EndsAll(K, u)
      PROVE  StaleSessionsWereOvertaken'
  <2>1. \A k \in Pair \ K : Live(k) => HashKept(refreshTokens[k].userId) \/ lineage[k].late
    BY <1>7 DEF EndsAll, TokensOf, ApiInv, TypeOK, TokenRow, IsRow, Live
  <2> QED
    BY <1>5, <1>7, <2>1 DEF EndsAll
<1>8. ASSUME NEW u \in UserId, Removes(u) PROVE StaleSessionsWereOvertaken'
  <2>1. HashesKept
    BY <1>8 DEF Removes
  <2>2. ASSUME NEW k \in Pair PROVE Fine(k)
    <3>1. /\ lineage'[k] = lineage[k]
          /\ NewLive(k) => Live(k) /\ refreshTokens'[k] = refreshTokens[k]
      BY <1>8, RemovesAt DEF Live, IsRow
    <3> QED
      BY <1>00, <1>1, <2>1, <3>1 DEF HashesKept
  <2> QED
    BY <1>0, <2>2
<1> QED
  BY <1>2, <1>3, <1>4, <1>6, <1>7, <1>8 DEF SessionStep

LEMMA SurvivesNext ==
    ASSUME ApiInv, LineageOK, SessionOwner, SessionSurvivesRotation, SessionStep
    PROVE  SessionSurvivesRotation'
<1> DEFINE NewLive(k) == refreshTokens'[k] \notin {Absent, Deleted} /\ ~refreshTokens'[k].isRevoked
           Kept(s) == s \in ended' \/ \E j \in Pair : NewLive(j) /\ lineage'[j].session = s
           Due(k) == lineage'[k] # Absent /\ refreshTokens'[k] # Deleted
<1>0. ASSUME \A k \in Pair : Due(k) => Kept(lineage'[k].session)
      PROVE  SessionSurvivesRotation'
  BY <1>0 DEF SessionSurvivesRotation, Born, Live, IsRow
<1>00. ASSUME NEW k \in Pair, Born(k), refreshTokens[k] # Deleted, lineage[k].session \notin ended
       PROVE  \E j \in Pair : Live(j) /\ lineage[j].session = lineage[k].session
  BY <1>00 DEF SessionSurvivesRotation
<1>1. CASE Nothing
  BY <1>1 DEF Nothing, SameSessions, SessionSurvivesRotation, Born, Live, IsRow
<1>2. ASSUME NEW k \in Pair, NEW u \in UserId, NEW cred, NEW late, Begins(k, u, cred, late)
      PROVE  SessionSurvivesRotation'
  <2>1. NewLive(k) /\ ~Live(k) /\ ended' = ended
    BY <1>2, BeginsAt DEF Begins, Opens, Live, IsRow
  <2>2. \A j \in Pair \ {k} : lineage'[j] = lineage[j] /\ refreshTokens'[j] = refreshTokens[j]
    BY <1>2, BeginsAt
  <2>3. Kept(lineage'[k].session)
    BY <2>1
  <2>4. ASSUME NEW j \in Pair \ {k}, Due(j) PROVE Kept(lineage'[j].session)
    <3>1. CASE lineage[j].session \in ended
      BY <2>1, <2>2, <3>1
    <3>2. CASE lineage[j].session \notin ended
      <4>1. PICK i \in Pair : Live(i) /\ lineage[i].session = lineage[j].session
        BY <1>00, <2>2, <2>4, <3>2 DEF Born
      <4>2. i # k /\ NewLive(i) /\ lineage'[i] = lineage[i]
        BY <2>1, <2>2, <4>1 DEF Live, IsRow
      <4> QED
        BY <2>2, <4>1, <4>2
    <3> QED
      BY <3>1, <3>2
  <2> QED
    BY <1>0, <2>3, <2>4
<1>3. ASSUME NEW t \in Pair, NEW k \in Pair, NEW late, Continues(t, k, late)
      PROVE  SessionSurvivesRotation'
  <2>1. /\ lineage'[k].session = lineage[t].session /\ lineage'[t] = lineage[t]
        /\ refreshTokens[k] = Absent
    BY <1>3, ContinuesAt DEF Continues, Spends
  <2>2. NewLive(k) /\ ended' = ended
    BY <1>3, ContinuesAt DEF Continues, Live, IsRow
  <2>3. \A j \in Pair \ {t, k} : lineage'[j] = lineage[j] /\ refreshTokens'[j] = refreshTokens[j]
    BY <1>3, ContinuesAt
  <2>4. Kept(lineage[t].session)
    BY <2>1, <2>2
  <2>5. ASSUME NEW j \in Pair \ {t, k}, Due(j) PROVE Kept(lineage'[j].session)
    <3>1. CASE lineage[j].session \in ended
      BY <2>2, <2>3, <3>1
    <3>2. CASE lineage[j].session \notin ended
      <4>1. PICK i \in Pair : Live(i) /\ lineage[i].session = lineage[j].session
        BY <1>00, <2>3, <2>5, <3>2 DEF Born
      <4>2. CASE i = t
        BY <2>3, <2>4, <4>1, <4>2
      <4>3. CASE i # t
        <5>1. NewLive(i) /\ lineage'[i] = lineage[i]
          BY <2>1, <2>3, <4>1, <4>3 DEF Live, IsRow
        <5> QED
          BY <2>3, <4>1, <5>1
      <4> QED
        BY <4>2, <4>3
    <3> QED
      BY <3>1, <3>2
  <2> QED
    BY <1>0, <2>1, <2>4, <2>5
<1>4. ASSUME NEW K \in SUBSET Pair, Ends(K) PROVE SessionSurvivesRotation'
  <2>1. lineage' = lineage /\ ended \subseteq ended'
    BY <1>4, EndsAt
  <2>2. \A j \in Pair : /\ refreshTokens'[j] = Deleted <=> refreshTokens[j] = Deleted
                        /\ Live(j) => NewLive(j) \/ lineage[j].session \in ended'
    BY <1>4, EndsAt DEF Live, IsRow
  <2>3. ASSUME NEW k \in Pair, Due(k) PROVE Kept(lineage'[k].session)
    <3>1. CASE lineage[k].session \in ended
      BY <2>1, <3>1
    <3>2. CASE lineage[k].session \notin ended
      <4>1. PICK i \in Pair : Live(i) /\ lineage[i].session = lineage[k].session
        BY <1>00, <2>1, <2>2, <2>3, <3>2 DEF Born
      <4> QED
        BY <2>1, <2>2, <4>1
    <3> QED
      BY <3>1, <3>2
  <2> QED
    BY <1>0, <2>3
<1>5. ASSUME NEW u \in UserId, Removes(u) PROVE SessionSurvivesRotation'
  <2>1. lineage' = lineage /\ ended' = ended
    BY <1>5, RemovesAt
  <2>2. \A j \in Pair : refreshTokens'[j] = Deleted <=>
                            refreshTokens[j] = Deleted \/ (IsRow(j) /\ refreshTokens[j].userId = u)
    BY <1>5, RemovesAt
  <2>3. \A j \in Pair : Live(j) /\ refreshTokens[j].userId # u => NewLive(j)
    BY <1>5, RemovesAt DEF Live, IsRow
  <2>4. ASSUME NEW k \in Pair, Due(k), lineage[k].session \notin ended
        PROVE  Kept(lineage'[k].session)
    <3>1. Born(k) /\ IsRow(k) /\ refreshTokens[k].userId # u
      BY <2>1, <2>2, <2>4 DEF Born, LineageOK, IsRow
    <3>2. PICK i \in Pair : Live(i) /\ lineage[i].session = lineage[k].session
      BY <1>00, <2>4, <3>1 DEF IsRow
    <3>3. refreshTokens[i].userId # u
      BY <3>1, <3>2 DEF SessionOwner, Live
    <3> QED
      BY <2>1, <2>3, <3>2, <3>3
  <2> QED
    BY <1>0, <2>1, <2>4
<1> QED
  BY <1>1, <1>2, <1>3, <1>4, <1>5 DEF SessionStep, EndsOne, EndsAll

\* Only the selection brings a request to where changePassword commits.
LEMMA OnlySelectionSweeps ==
    ASSUME ApiInv, NEW r \in Request, Step(r), pc'[r] = "password_commit"
    PROVE  PasswordRevoke(r)
<1> USE DEF ApiInv, TypeOK
<1>0. ASSUME NEW label, label # "password_commit", Go(r, label) PROVE FALSE
  BY <1>0
<1>1. ASSUME NEW status, Answer(r, status) \/ \E k : AnswerWithTokens(r, status, k) PROVE FALSE
  BY <1>1 DEF Answer, AnswerWithTokens
<1>2. CASE Receive(r)
  <2>1. PICK q \in Inputs :
           \/ Answer(r, 422) \/ Answer(r, 401)
           \/ Go(r, IF q.op \in BearerOps THEN "authenticate" ELSE FirstStatement(q.op))
    BY <1>2 DEF Receive
  <2>2. q.op \in PublicOps \cup BearerOps
    BY InputsType DEF ClientInput
  <2>3. (IF q.op \in BearerOps THEN "authenticate" ELSE FirstStatement(q.op)) # "password_commit"
    BY <2>2 DEF FirstStatement, PublicOps
  <2> QED
    BY <1>0, <1>1, <2>1, <2>3
<1>3. CASE Authenticate(r)
  <2>1. \/ \E status : Answer(r, status)
        \/ req[r].op # "me" /\ Go(r, FirstStatement(req[r].op))
    BY <1>3 DEF Authenticate
  <2>2. req[r].op \in BearerOps
    BY <1>3 DEF Authenticate, RequestOK, InputOK
  <2>3. req[r].op # "me" => FirstStatement(req[r].op) # "password_commit"
    BY <2>2 DEF FirstStatement, BearerOps, AdminOps
  <2> QED
    BY <1>0, <1>1, <2>1, <2>3
<1>4. CASE StoreError(r) \/ Respond(r) \/ Drop(r)
  BY <1>0, <1>1, <1>4 DEF StoreError, Respond, Drop
<1>5. CASE UserStep(r)
  BY <1>0, <1>1, <1>5 DEF UserStep, GetUser, UpdateFind, UpdateWrite, DeleteFind, DeleteWrite, Find
<1>6. CASE LoginFind(r)
  <2>1. (\E status : Answer(r, status)) \/ Go(r, "login_compare")
    BY <1>6, Zenon DEF LoginFind
  <2> QED
    BY <1>0, <1>1, <2>1
<1>7. CASE RegisterFind(r) \/ RegisterCreate(r) \/ LoginCompare(r) \/ LoginCreate(r)
  <2>1. \/ \E status : Answer(r, status) \/ \E k : AnswerWithTokens(r, status, k)
        \/ Go(r, "register_create") \/ Go(r, "login_create")
    BY <1>7, ZenonT(30) DEF RegisterFind, RegisterCreate, LoginCompare, LoginCreate
  <2> QED
    BY <1>0, <1>1, <2>1
<1>8. CASE RefreshFind(r) \/ RefreshUser(r) \/ RefreshCommit(r)
  <2> DEFINE Goes == \/ \E status : Answer(r, status) \/ \E k : AnswerWithTokens(r, status, k)
                     \/ Go(r, "refresh_user") \/ Go(r, "refresh_commit")
  <2>1. RefreshFind(r) => Goes
    BY ZenonT(30) DEF RefreshFind
  <2>2. RefreshUser(r) => Goes
    BY ZenonT(30) DEF RefreshUser
  <2>3. RefreshCommit(r) => Goes
    BY ZenonT(30) DEF RefreshCommit
  <2> QED
    BY <1>0, <1>1, <1>8, <2>1, <2>2, <2>3
<1>9. CASE LogoutRevoke(r) \/ LogoutBlacklist(r)
           \/ PasswordFind(r) \/ PasswordUpdate(r) \/ PasswordCommit(r)
  <2>1. \/ \E status : Answer(r, status)
        \/ Go(r, "logout_blacklist") \/ Go(r, "password_update") \/ Go(r, "password_revoke")
    BY <1>9, ZenonT(30)
       DEF LogoutRevoke, LogoutBlacklist, PasswordFind, PasswordUpdate, PasswordCommit
  <2> QED
    BY <1>0, <1>1, <2>1
<1> QED
  BY <1>2, <1>3, <1>4, <1>5, <1>6, <1>7, <1>8, <1>9, Zenon DEF Step, MiddlewareStep, AuthStep

\* What joins the tokens of a user after the selection is late.
LEMMA SweepNext ==
    ASSUME ApiInv, LineageOK, SweepInv, SessionStep, HNext
    PROVE  SweepInv'
<1> SUFFICES ASSUME NEW s \in Request, pc'[s] = "password_commit",
                    NEW k \in Pair, Live(k)', refreshTokens'[k].userId = req'[s].user
             PROVE  k \in req'[s].revoking \/ lineage'[k].late
  BY DEF SweepInv, Live, IsRow
<1>1. ASSUME pc[s] = "password_commit", req'[s] = req[s]
      PROVE  k \in req'[s].revoking \/ lineage'[k].late
  <2>0. req[s].user \in UserId /\ Sweeping(req[s].user)
    BY <1>1 DEF Sweeping, ApiInv, RequestOK, LocalsOK, PasswordLabel
  <2>1. ASSUME Live(k), refreshTokens'[k].userId = refreshTokens[k].userId,
               lineage'[k] = lineage[k]
        PROVE  k \in req'[s].revoking \/ lineage'[k].late
    BY <1>1, <2>1 DEF SweepInv
  <2>2. CASE Nothing
    BY <2>1, <2>2 DEF Nothing, SameSessions, Live, IsRow
  <2>3. ASSUME NEW j \in Pair, NEW u \in UserId, NEW cred, NEW late, Begins(j, u, cred, late)
        PROVE  k \in req'[s].revoking \/ lineage'[k].late
    <3>1. CASE k = j
      <4>1. u = req[s].user /\ lineage'[k].late = late
        BY <1>1, <2>3, <3>1, BeginsAt
      <4> QED
        BY <2>0, <2>3, <4>1 DEF Begins
    <3>2. CASE k # j
      <4>1. lineage'[k] = lineage[k] /\ refreshTokens'[k] = refreshTokens[k]
        BY <2>3, <3>2, BeginsAt
      <4> QED
        BY <2>1, <4>1 DEF Live, IsRow
    <3> QED
      BY <3>1, <3>2
  <2>4. ASSUME NEW t \in Pair, NEW j \in Pair, NEW late, Continues(t, j, late)
        PROVE  k \in req'[s].revoking \/ lineage'[k].late
    <3>1. CASE k = j
      <4>1. /\ refreshTokens[t].userId = req[s].user
            /\ lineage'[k].late = (lineage[t].late \/ late)
        BY <1>1, <2>4, <3>1, ContinuesAt
      <4>2. late
        BY <2>0, <2>4, <4>1 DEF Continues
      <4> QED
        BY <4>1, <4>2
    <3>2. CASE k # j
      <4>1. k # t /\ lineage'[k] = lineage[k] /\ refreshTokens'[k] = refreshTokens[k]
        BY <2>4, <3>2, ContinuesAt
      <4> QED
        BY <2>1, <4>1 DEF Live, IsRow
    <3> QED
      BY <3>1, <3>2
  <2>5. ASSUME NEW K \in SUBSET Pair, Ends(K)
        PROVE  k \in req'[s].revoking \/ lineage'[k].late
    <3>1. Live(k) /\ lineage' = lineage /\ refreshTokens'[k].userId = refreshTokens[k].userId
      BY <2>5, EndsAt DEF Live
    <3> QED
      BY <2>1, <3>1
  <2>6. ASSUME NEW u \in UserId, Removes(u)
        PROVE  k \in req'[s].revoking \/ lineage'[k].late
    <3>1. Live(k) /\ lineage' = lineage /\ refreshTokens'[k] = refreshTokens[k]
      BY <2>6, RemovesAt DEF Live
    <3> QED
      BY <2>1, <3>1
  <2> QED
    BY <2>2, <2>3, <2>4, <2>5, <2>6 DEF SessionStep, EndsOne, EndsAll
<1>2. CASE Tick /\ UNCHANGED history
  BY <1>1, <1>2 DEF Tick
<1>3. ASSUME NEW r \in Request, Step(r), r # s
      PROVE  k \in req'[s].revoking \/ lineage'[k].late
  BY <1>1, <1>3, OthersStay
<1>4. CASE Step(s)
  <2>1. PasswordRevoke(s)
    BY <1>4, OnlySelectionSweeps
  <2>2. /\ req'[s] = [req[s] EXCEPT !.revoking = LiveTokensOf(req[s].user)]
        /\ req[s] \in Req /\ refreshTokens' = refreshTokens
    BY <2>1 DEF PasswordRevoke, ApiInv, TypeOK
  <2>3. req'[s].revoking = LiveTokensOf(req[s].user) /\ req'[s].user = req[s].user
    BY <2>2 DEF Req
  <2> QED
    BY <2>2, <2>3 DEF LiveTokensOf, Live, IsRow
<1> QED
  BY <1>2, <1>3, <1>4 DEF HNext

\* One of the tokens of a session was inserted late.
SessionLate(s) == \E j \in Pair : Born(j) /\ lineage[j].session = s /\ lineage[j].late

\* A session with two live tokens, or with a live one after its end, has a late
\* one.
DoublesOK ==
    /\ \A j, k \in Pair :
          (Live(j) /\ Live(k) /\ j # k /\ lineage[j].session = lineage[k].session)
              => SessionLate(lineage[k].session)
    /\ \A k \in Pair :
          (Live(k) /\ lineage[k].session \in ended) => SessionLate(lineage[k].session)
    /\ \A s \in ended : s \in Pair /\ Born(s)

LEMMA DoublesNext ==
    ASSUME ApiInv, LineageOK, DoublesOK, SessionStep
    PROVE  DoublesOK'
<1> DEFINE NewLive(k) == refreshTokens'[k] \notin {Absent, Deleted} /\ ~refreshTokens'[k].isRevoked
           NewLate(s) == \E j \in Pair : /\ lineage'[j] # Absent /\ lineage'[j].session = s
                                         /\ lineage'[j].late
           OK == /\ \A j, k \in Pair :
                       (NewLive(j) /\ NewLive(k) /\ j # k
                        /\ lineage'[j].session = lineage'[k].session)
                           => NewLate(lineage'[k].session)
                 /\ \A k \in Pair :
                       (NewLive(k) /\ lineage'[k].session \in ended')
                           => NewLate(lineage'[k].session)
                 /\ \A s \in ended' : s \in Pair /\ lineage'[s] # Absent
<1>0. OK => DoublesOK'
  BY DEF DoublesOK, SessionLate, Born, Live, IsRow
<1>1. CASE Nothing
  BY <1>1 DEF Nothing, SameSessions, DoublesOK, SessionLate, Born, Live, IsRow
<1>00. ASSUME NEW s, SessionLate(s), \A j \in Pair : Born(j) => lineage'[j] = lineage[j]
       PROVE  NewLate(s)
  BY <1>00 DEF SessionLate, Born
<1>2. ASSUME NEW k \in Pair, NEW u \in UserId, NEW cred, NEW late, Begins(k, u, cred, late)
      PROVE  OK
  <2>1. lineage'[k].session = k /\ ~Born(k) /\ lineage'[k] # Absent /\ ended' = ended
    BY <1>2, BeginsAt DEF Begins, Born
  <2>2. ASSUME NEW j \in Pair \ {k}
        PROVE  /\ lineage'[j] = lineage[j] /\ (NewLive(j) <=> Live(j))
               /\ Live(j) => lineage[j].session # k
    <3>1. /\ lineage'[j] = lineage[j] /\ refreshTokens'[j] = refreshTokens[j]
          /\ Born(j) => lineage[j].session # k
      BY <1>2, BeginsAt
    <3> QED
      BY <3>1, RowsBorn DEF Live, IsRow
  <2>3. \A s : SessionLate(s) => NewLate(s)
    BY <1>00, <2>1, <2>2
  <2> HIDE DEF NewLive, NewLate
  <2> QED
    BY <2>1, <2>2, <2>3 DEF DoublesOK, Born
<1>3. ASSUME NEW t \in Pair, NEW k \in Pair, NEW late, Continues(t, k, late)
      PROVE  OK
  <2>1. /\ Born(t) /\ lineage'[k].session = lineage[t].session
        /\ lineage'[k].late = (lineage[t].late \/ late) /\ lineage'[k] # Absent
        /\ ended' = ended /\ ~NewLive(t) /\ ~Born(k)
    BY <1>3, ContinuesAt, LineageAssumption DEF Continues, Live, IsRow
  <2>2. late \/ Live(t)
    BY <1>3 DEF Continues
  <2>3. \A j \in Pair \ {k} : lineage'[j] = lineage[j]
    BY <1>3, ContinuesAt
  <2>4. ASSUME NEW j \in Pair \ {t, k} PROVE NewLive(j) <=> Live(j)
    <3>1. refreshTokens'[j] = refreshTokens[j]
      BY <1>3, <2>4, ContinuesAt
    <3> QED
      BY <3>1 DEF Live, IsRow
  <2>5. \A s : SessionLate(s) => NewLate(s)
    BY <1>00, <2>1, <2>3
  <2>6. late => NewLate(lineage[t].session)
    BY <2>1
  <2> HIDE DEF NewLive, NewLate
  <2> QED
    BY <2>1, <2>2, <2>3, <2>4, <2>5, <2>6 DEF DoublesOK, Born
<1>4. ASSUME NEW K \in SUBSET Pair, Ends(K) PROVE OK
  <2>1. /\ lineage' = lineage
        /\ ended' = ended \cup {lineage[k].session : k \in {j \in K : Live(j)}}
    BY <1>4 DEF Ends
  <2>2. \A j \in Pair : NewLive(j) <=> Live(j) /\ j \notin K
    BY <1>4, EndsAt DEF Live, IsRow
  <2>3. ASSUME NEW s \in ended' PROVE s \in Pair /\ Born(s)
    <3>1. CASE s \in ended
      BY <3>1 DEF DoublesOK
    <3>2. ASSUME NEW k \in K, Live(k), s = lineage[k].session PROVE s \in Pair /\ Born(s)
      <4>1. Born(k) /\ lineage[k] \in Lineage
        BY <3>2, RowsBorn DEF Live, LineageOK, Born
      <4> QED
        BY <3>2, <4>1 DEF LineageOK, Lineage
    <3> QED
      BY <2>1, <3>1, <3>2
  <2>4. \A s : SessionLate(s) => NewLate(s)
    BY <1>00, <2>1
  <2>5. ASSUME NEW j \in Pair, NewLive(j), lineage[j].session \in ended'
        PROVE  SessionLate(lineage[j].session)
    <3>1. Live(j) /\ j \notin K
      BY <2>2, <2>5
    <3>2. CASE lineage[j].session \in ended
      BY <3>1, <3>2 DEF DoublesOK
    <3>3. ASSUME NEW k \in K, Live(k), lineage[j].session = lineage[k].session
          PROVE  SessionLate(lineage[j].session)
      BY <3>1, <3>3 DEF DoublesOK
    <3> QED
      BY <2>1, <2>5, <3>2, <3>3
  <2> HIDE DEF NewLive, NewLate
  <2> QED
    BY <2>1, <2>2, <2>3, <2>4, <2>5 DEF DoublesOK, Born
<1>5. ASSUME NEW u \in UserId, Removes(u) PROVE OK
  <2>1. lineage' = lineage /\ ended' = ended /\ \A j \in Pair : NewLive(j) => Live(j)
    BY <1>5, RemovesAt DEF Live, IsRow
  <2>2. \A s : SessionLate(s) => NewLate(s)
    BY <1>00, <2>1
  <2> HIDE DEF NewLive, NewLate
  <2> QED
    BY <2>1, <2>2 DEF DoublesOK, Born
<1> QED
  BY <1>0, <1>1, <1>2, <1>3, <1>4, <1>5 DEF SessionStep, EndsOne, EndsAll

-----------------------------------------------------------------------------
(* The theorems.                                                           *)

SessionInv ==
    /\ LineageOK /\ SessionOwner
    /\ SweepInv /\ DoublesOK
    /\ SessionSurvivesRotation /\ ForksWereOvertaken /\ StaleSessionsWereOvertaken

LEMMA SessionInvInit == HInit => SessionInv
BY LineageAssumption
   DEF HInit, Init, SessionInv, LineageOK, SessionOwner, SweepInv, DoublesOK,
       SessionSurvivesRotation, ForksWereOvertaken, StaleSessionsWereOvertaken, Born, Live, IsRow

LEMMA SessionInvNext ==
    ASSUME ApiInv, FlightInv, SessionInv, [HNext]_hvars
    PROVE  SessionInv'
<1>1. CASE UNCHANGED hvars
  BY <1>1 DEF hvars, vars, history, SessionInv, LineageOK, SessionOwner, SweepInv, DoublesOK,
              SessionLate, SessionSurvivesRotation, ForksWereOvertaken, StaleSessionsWereOvertaken, Born, Live, IsRow
<1>2. CASE HNext
  <2>1. ApiInv' /\ Grows
    BY <1>2, NextPreserves DEF HNext, Next
  <2>2. SessionStep
    BY <1>2, SessionSteps DEF SessionInv
  <2> QED
    BY <1>2, <2>1, <2>2, LineageOKNext, SessionOwnerNext, SweepNext, DoublesNext, SurvivesNext,
       ForksNext, StaleNext
       DEF SessionInv
<1> QED
  BY <1>1, <1>2

LEMMA SessionInvariant == HSpec => [](ApiInv /\ FlightInv /\ SessionInv)
BY SessionInvInit, SessionInvNext, FlightInvariant, PTL DEF HSpec

\* "No token is lost during rotation": unless logout, a change of password or
\* a deletion ends it, a session has a live token after any step of any
\* request, a failed or abandoned one included.
THEOREM SessionsSurvive == HSpec => []SessionSurvivesRotation
BY SessionInvariant, PTL DEF SessionInv

\* A token is rotated twice only by a request that was in flight when the token
\* was revoked.
THEOREM ForksNeedOvertaking == HSpec => []ForksWereOvertaken
BY SessionInvariant, PTL DEF SessionInv

\* A session outlives a change of password only through a token that a request
\* in flight at its COMMIT inserts, or that was inserted after its updateMany.
THEOREM StaleNeedOvertaking == HSpec => []StaleSessionsWereOvertaken
BY SessionInvariant, PTL DEF SessionInv

\* An ended session has a live token only if it has a token that was inserted
\* late: without one it has at most one live token, which the end revokes.
THEOREM EndedNeedOvertaking == HSpec => []EndedSessionsWereOvertaken
<1>1. DoublesOK => EndedSessionsWereOvertaken
  BY DEF DoublesOK, SessionLate, EndedSessionsWereOvertaken
<1> QED
  BY <1>1, SessionInvariant, PTL DEF SessionInv

\* No token has been inserted late.
NobodyLate == \A k \in Pair : Born(k) => ~lineage[k].late

\* What the documentation says of sessions without reservation is true, with
\* any number of requests in flight, until a token is inserted late: single
\* use, ended sessions that stay ended, and no session on an old password.
THEOREM PromisesKeptUntilLate ==
    HSpec => [](NobodyLate => /\ RotationSingleUse
                              /\ EndedSessionsStayEnded
                              /\ SessionsUseCurrentPassword)
<1>1. ApiInv /\ SessionInv /\ NobodyLate => RotationSingleUse
  BY DEF SessionInv, NobodyLate, ForksWereOvertaken, RotationSingleUse
<1>2. ApiInv /\ SessionInv /\ NobodyLate => EndedSessionsStayEnded
  BY DEF SessionInv, NobodyLate, DoublesOK, SessionLate, EndedSessionsStayEnded
<1>3. ApiInv /\ SessionInv /\ NobodyLate => SessionsUseCurrentPassword
  BY RowsBorn
     DEF SessionInv, NobodyLate, StaleSessionsWereOvertaken, SessionsUseCurrentPassword, Live
<1> QED
  BY <1>1, <1>2, <1>3, SessionInvariant, PTL

-----------------------------------------------------------------------------
(* Answers that carry tokens.                                              *)

\* What holds of a request that is about to deliver a pair.
IssueOK(r) ==
    LET k == req[r].pair
        u == jwt[k].sub
    IN  (pc[r] = "respond" /\ k # None) =>
            /\ Born(k)
            /\ \/ r \in overtaken
               \/ /\ Exists(u) /\ users[u].isActive /\ users[u].role = jwt[k].role
                  /\ lineage[k].parent = None => lineage[k].cred = users[u].passwordHash

\* Only the three inserts answer with tokens.
LEMMA OnlyInsertsIssue ==
    ASSUME ApiInv, NEW r \in Request, Step(r), pc'[r] = "respond", req'[r].pair # None
    PROVE  RegisterCreate(r) \/ LoginCreate(r) \/ RefreshCommit(r)
<1> USE DEF ApiInv, TypeOK
<1>0. ASSUME NEW status, Answer(r, status) PROVE FALSE
  BY <1>0 DEF Answer, NoReq
<1>1. CASE Receive(r)
  <2>1. PICK q \in Inputs :
           \/ Answer(r, 422) \/ Answer(r, 401)
           \/ Go(r, IF q.op \in BearerOps THEN "authenticate" ELSE FirstStatement(q.op))
    BY <1>1 DEF Receive
  <2>2. q.op \in PublicOps \cup BearerOps
    BY InputsType DEF ClientInput
  <2> DEFINE label == IF q.op \in BearerOps THEN "authenticate" ELSE FirstStatement(q.op)
  <2>3. label # "respond"
    BY <2>2 DEF FirstStatement, PublicOps
  <2> HIDE DEF label
  <2>4. Go(r, label)
    BY <1>0, <2>1 DEF label
  <2> QED
    BY <2>3, <2>4
<1>2. CASE Authenticate(r)
  <2>1. \/ \E status : Answer(r, status)
        \/ req[r].op # "me" /\ Go(r, FirstStatement(req[r].op))
    BY <1>2 DEF Authenticate
  <2>2. req[r].op \in BearerOps
    BY <1>2 DEF Authenticate, RequestOK, InputOK
  <2> DEFINE label == FirstStatement(req[r].op)
  <2>3. req[r].op # "me" => label # "respond"
    BY <2>2 DEF FirstStatement, BearerOps, AdminOps
  <2> HIDE DEF label
  <2>4. Go(r, label) /\ req[r].op # "me"
    BY <1>0, <2>1 DEF label
  <2> QED
    BY <2>3, <2>4
<1>3. CASE StoreError(r) \/ Respond(r) \/ Drop(r)
  BY <1>0, <1>3 DEF StoreError, Respond, Drop
<1>4. CASE UserStep(r)
  BY <1>0, <1>4 DEF UserStep, GetUser, UpdateFind, UpdateWrite, DeleteFind, DeleteWrite, Find
<1>5. CASE LoginFind(r)
  BY <1>0, <1>5, Zenon DEF LoginFind
<1>6. CASE RegisterFind(r) \/ LoginCompare(r) \/ RefreshFind(r) \/ RefreshUser(r)
  <2>1. \/ \E status : Answer(r, status)
        \/ Go(r, "register_create") \/ Go(r, "login_create")
        \/ Go(r, "refresh_user") \/ Go(r, "refresh_commit")
    BY <1>6, ZenonT(30) DEF RegisterFind, LoginCompare, RefreshFind, RefreshUser
  <2> QED
    BY <1>0, <2>1
<1>7. CASE LogoutRevoke(r) \/ LogoutBlacklist(r)
           \/ PasswordFind(r) \/ PasswordUpdate(r) \/ PasswordRevoke(r) \/ PasswordCommit(r)
  <2>1. \/ \E status : Answer(r, status)
        \/ Go(r, "logout_blacklist") \/ Go(r, "password_update")
        \/ Go(r, "password_revoke") \/ Go(r, "password_commit")
    BY <1>7, ZenonT(30) DEF LogoutRevoke, LogoutBlacklist, PasswordFind, PasswordUpdate,
                            PasswordRevoke, PasswordCommit
  <2> QED
    BY <1>0, <2>1
<1> QED
  BY <1>1, <1>2, <1>3, <1>4, <1>5, <1>6, <1>7, Zenon DEF Step, MiddlewareStep, AuthStep

\* The pair that an insert answers with: its lineage is its birth's.
LEMMA Issued ==
    ASSUME ApiInv, LineageOK, NEW r \in Request, Record(r),
           NEW k \in Pair, NEW status, AnswerWithTokens(r, status, k),
           refreshTokens[k] = Absent, Stored(k), Same(Pair \ {k}) \/ Spends(req[r].refresh, k)
    PROVE  /\ pc'[r] = "respond" /\ req'[r].pair = k
           /\ lineage'[k] = Birth(r, k)
<1>1. pc'[r] = "respond" /\ req'[r].pair = k
  BY DEF AnswerWithTokens, NoReq, ApiInv, TypeOK
<1>2. \A j \in Pair \ {k} : refreshTokens[j] = Absent => refreshTokens'[j] = Absent
  BY DEF Same, Spends, Revoking, IsRow
<1>3. NewLineage(k, Birth(r, k))
  BY <1>2, LineageExtended DEF Stored
<1> QED
  BY <1>1, <1>3, Written

LEMMA OwnIssue ==
    ASSUME ApiInv, FlightInv, LineageOK, LineageOK', NEW r \in Request, Step(r), Record(r)
    PROVE  IssueOK(r)'
<1> SUFFICES ASSUME pc'[r] = "respond", req'[r].pair # None
             PROVE  IssueOK(r)'
  BY DEF IssueOK
<1>0. FlightOK(r) /\ CurrentOK(r)
  BY DEF FlightInv
<1>00. r \in overtaken => r \in overtaken'
  BY DEF Record
<1>1. CASE RegisterCreate(r)
  <2>1. PICK u \in UserId, k \in Pair :
           /\ Opens(k, u)
           /\ users' = [users EXCEPT ![u] =
                  [email |-> req[r].email, username |-> req[r].username,
                   passwordHash |-> Digest[req[r].password], role |-> "USER", isActive |-> TRUE]]
           /\ Sign(k, u, "USER")
           /\ AnswerWithTokens(r, 201, k)
    BY <1>1, RegisterCreateEffect DEF Answer, NoReq, ApiInv, TypeOK
  <2>2. req'[r].pair = k /\ lineage'[k] = Birth(r, k) /\ refreshTokens'[k] # Absent
    BY <2>1, Issued DEF Opens, Stored
  <2>3. lineage'[k].cred = Digest[req[r].password]
    BY <1>0, <1>1, <2>2 DEF FlightOK, RegisterCreate, Birth
  <2>4. jwt'[k].sub = u /\ jwt'[k].role = "USER"
    BY <2>1 DEF Sign, ApiInv, TypeOK
  <2>5. /\ users'[u].isActive /\ users'[u].role = "USER"
        /\ users'[u].passwordHash = Digest[req[r].password]
        /\ users'[u] \notin {Absent, Deleted}
    <3>1. users'[u] = [email |-> req[r].email, username |-> req[r].username,
                       passwordHash |-> Digest[req[r].password], role |-> "USER", isActive |-> TRUE]
      BY <2>1 DEF ApiInv, TypeOK
    <3>2. /\ req[r].email \in Email /\ req[r].username \in Username
          /\ Digest[req[r].password] \in Hash
      BY <1>1, DigestType DEF RegisterCreate, ApiInv, RequestOK, InputOK
    <3>3. users'[u] \in UserRow
      BY <3>1, <3>2 DEF UserRow, Role
    <3>4. users'[u] \notin {Absent, Deleted}
      BY <3>3, NullsAssumption
    <3> QED
      BY <3>1, <3>4
  <2>6. Born(k)'
    BY <2>2 DEF LineageOK
  <2> QED
    BY <2>2, <2>3, <2>4, <2>5, <2>6 DEF IssueOK, Exists
<1>2. CASE LoginCreate(r)
  <2> DEFINE k == req[r].pair
             u == req[r].user
  <2>1. Opens(k, u) /\ Exists(u) /\ AnswerWithTokens(r, 200, k) /\ UNCHANGED users
    BY <1>2, LoginCreateEffect DEF Answer, NoReq, ApiInv, TypeOK
  <2>2. req'[r].pair = k /\ lineage'[k] = Birth(r, k) /\ refreshTokens'[k] # Absent
    BY <2>1, Issued DEF Opens, Stored
  <2>3. /\ req[r].op = "login" /\ pc[r] = "login_create" /\ UNCHANGED jwt
        /\ Digest[req[r].password] = req[r].row.passwordHash
        /\ jwt[k].sub = u /\ jwt[k].role = req[r].row.role /\ req[r].row.isActive
        /\ r \in overtaken \/ req[r].row = users[u]
    BY <1>0, <1>2 DEF FlightOK, CurrentOK, LoginCreate
  <2>4. lineage'[k].cred = req[r].row.passwordHash
    BY <2>2, <2>3 DEF Birth
  <2>5. lineage'[k] # Absent
    BY <2>1, <2>2 DEF LineageOK, Born, Opens
  <2> HIDE DEF k, u
  <2> QED
    BY <1>00, <2>1, <2>2, <2>3, <2>4, <2>5 DEF IssueOK, Born, Exists
<1>3. CASE RefreshCommit(r)
  <2> DEFINE k == req[r].pair
             t == req[r].refresh
             u == req[r].user
  <2>1. Spends(t, k) /\ AnswerWithTokens(r, 200, k) /\ UNCHANGED users
    BY <1>3, RefreshCommitEffect DEF Answer, NoReq, ApiInv, TypeOK
  <2>2. req'[r].pair = k /\ lineage'[k] = Birth(r, k) /\ refreshTokens'[k] # Absent
    BY <2>1, Issued DEF Spends, Stored
  <2>3. /\ req[r].op = "refresh" /\ pc[r] = "refresh_commit" /\ UNCHANGED jwt
        /\ jwt[k].sub = u
        /\ r \in overtaken \/ (Exists(u) /\ users[u].isActive /\ users[u].role = jwt[k].role)
    BY <1>0, <1>3 DEF FlightOK, CurrentOK, RefreshCommit
  <2>4. lineage[t] \in Lineage /\ t # None
    BY <2>1, NullsAssumption DEF Spends, Revoking, IsRow, LineageOK, Born
  <2>5. lineage'[k].parent = t
    BY <2>2, <2>3, <2>4 DEF Birth, Lineage
  <2>6. lineage'[k] # Absent
    BY <2>1, <2>2 DEF LineageOK, Born, Spends
  <2> HIDE DEF k, t, u
  <2> QED
    BY <1>00, <2>1, <2>2, <2>3, <2>4, <2>5, <2>6 DEF IssueOK, Born, Exists
<1> QED
  BY <1>1, <1>2, <1>3, OnlyInsertsIssue

LEMMA OthersIssue ==
    ASSUME ApiInv, LineageOK, NEW r \in Request, NEW s \in Request, s # r, Step(r), Record(r),
           IssueOK(s)
    PROVE  IssueOK(s)'
<1> DEFINE k == req[s].pair
<1>1. pc'[s] = pc[s] /\ req'[s] = req[s]
  BY OthersStay
<1> SUFFICES ASSUME pc[s] = "respond", k # None
             PROVE  IssueOK(s)'
  BY <1>1 DEF IssueOK
<1>2. k \in Pair /\ Born(k)
  BY DEF IssueOK, ApiInv, RequestOK, LocalsOK, Signed
<1>3. jwt'[k] = jwt[k]
  BY <1>2, NextPreserves DEF Next, LineageOK, ApiInv, FreshOK, Grows
<1>4. lineage'[k] = lineage[k]
  BY <1>2 DEF Record, LineageOK
<1>5. jwt[k].sub \in UserId
  BY <1>2 DEF LineageOK, ApiInv, TypeOK, FreshOK, Claims
<1>6. s \notin overtaken' => s \notin overtaken /\ users'[jwt[k].sub] = users[jwt[k].sub]
  BY <1>1, <1>5 DEF Record, Overtakes, ReliesOn
<1> HIDE DEF k
<1> QED
  BY <1>1, <1>2, <1>3, <1>4, <1>6 DEF IssueOK, Born, Exists, k

\* A request that nobody overtook answers with tokens only for an active user,
\* in that user's role and on that user's password at that moment.
THEOREM IssuesAreCurrent == HSpec => []IssueIsCurrent
<1> DEFINE Issues == \A r \in Request : IssueOK(r)
<1>1. HInit => Issues
  BY DEF HInit, Init, IssueOK
<1>2. ASSUME ApiInv, FlightInv, SessionInv, SessionInv', Issues, [HNext]_hvars PROVE Issues'
  <2>1. CASE UNCHANGED hvars \/ (Tick /\ UNCHANGED history)
    BY <1>2, <2>1 DEF hvars, vars, history, Tick, IssueOK, Born, Exists
  <2>2. ASSUME NEW r \in Request, Step(r), Record(r) PROVE Issues'
    BY <1>2, <2>2, OwnIssue, OthersIssue DEF SessionInv
  <2> QED
    BY <1>2, <2>1, <2>2 DEF HNext
<1>3. Issues => IssueIsCurrent
  BY DEF IssueOK, IssueIsCurrent
<1> QED
  BY <1>1, <1>2, <1>3, SessionInvariant, PTL DEF HSpec

=============================================================================
