----------------------------- MODULE ApiProofs -----------------------------
(***************************************************************************)
(* Theorems about the API, for every value of the constants: its types are *)
(* correct, no refresh token outlives its user, what is revoked stays      *)
(* revoked, and a logged out access token is refused.                      *)
(***************************************************************************)
EXTENDS ApiHistory, TLAPS

USE DEF At, Go, db, tokens

-----------------------------------------------------------------------------
(* Requests and responses.                                                 *)

LEMMA NoReqType == NoReq \in Req
BY DEF NoReq, Req, NoPatch, Patch

\* A response, with or without tokens, is a request record.
LEMMA ResponseType ==
    ASSUME NEW status \in Status, NEW k \in Pair \cup {None}
    PROVE  /\ [NoReq EXCEPT !.status = status] \in Req
           /\ [NoReq EXCEPT !.status = status].pair = None
           /\ [NoReq EXCEPT !.status = status, !.pair = k] \in Req
           /\ [NoReq EXCEPT !.status = status, !.pair = k].pair = k
BY DEF NoReq, Req, NoPatch, Patch

\* What a handler stores in its locals leaves it a request record.
LEMMA LocalsType ==
    /\ \A q \in Req, u \in UserId : [q EXCEPT !.user = u] \in Req
    /\ \A q \in Req, row \in UserRow : [q EXCEPT !.row = row] \in Req
    /\ \A q \in Req, k \in Pair : [q EXCEPT !.pair = k] \in Req
    /\ \A q \in Req, row \in TokenRow \cup {None} : [q EXCEPT !.stored = row] \in Req
    /\ \A q \in Req, K \in SUBSET Pair : [q EXCEPT !.revoking = K] \in Req
    /\ \A q \in Req, k \in Pair \cup {None} : [q EXCEPT !.access = k] \in Req
BY DEF Req

LEMMA TwoLocalsType ==
    ASSUME NEW q \in Req, NEW u \in UserId
    PROVE  /\ \A row \in UserRow : [q EXCEPT !.user = u, !.row = row] \in Req
           /\ \A row \in TokenRow : [q EXCEPT !.stored = row, !.user = u] \in Req
           /\ \A k \in Pair : [q EXCEPT !.stored = None, !.pair = k] \in Req
           /\ \A k \in Pair \cup {None} : [q EXCEPT !.user = u, !.access = k] \in Req
<1>1. ASSUME NEW row \in UserRow PROVE [q EXCEPT !.user = u, !.row = row] \in Req
  <2>1. [q EXCEPT !.user = u, !.row = row] = [[q EXCEPT !.user = u] EXCEPT !.row = row]
    OBVIOUS
  <2> QED
    BY <2>1, LocalsType
<1>2. ASSUME NEW row \in TokenRow PROVE [q EXCEPT !.stored = row, !.user = u] \in Req
  <2>1. [q EXCEPT !.stored = row, !.user = u] = [[q EXCEPT !.stored = row] EXCEPT !.user = u]
    OBVIOUS
  <2> QED
    BY <2>1, LocalsType
<1>3. ASSUME NEW k \in Pair PROVE [q EXCEPT !.stored = None, !.pair = k] \in Req
  <2>1. [q EXCEPT !.stored = None, !.pair = k] = [[q EXCEPT !.stored = None] EXCEPT !.pair = k]
    OBVIOUS
  <2> QED
    BY <2>1, LocalsType
<1>4. ASSUME NEW k \in Pair \cup {None} PROVE [q EXCEPT !.user = u, !.access = k] \in Req
  <2>1. [q EXCEPT !.user = u, !.access = k] = [[q EXCEPT !.user = u] EXCEPT !.access = k]
    OBVIOUS
  <2> QED
    BY <2>1, LocalsType
<1> QED
  BY <1>1, <1>2, <1>3, <1>4

LEMMA DigestType == \A p \in Password : Digest[p] \in Hash
BY DEF Hash

\* What a request record from a client holds: a type, no response yet, and the
\* fields that its operation reads.
ClientInput(q) ==
    /\ q \in Req
    /\ q.op \in PublicOps \cup BearerOps
    /\ ~q.malformed =>
          /\ q.op = "register" =>
                q.email \in Email /\ q.username \in Username /\ q.password \in Password
          /\ q.op = "login" => q.password \in Password
          /\ q.op = "changePassword" => q.newPassword \in Password
          /\ q.op \in {"getUserById"} \cup AdminOps => q.target \in UserId

\* Everything a client sends is of that kind.
LEMMA InputsType ==
    ASSUME held \subseteq Pair, NEW q \in Inputs
    PROVE  ClientInput(q)
<1>1. CASE q \in RegisterInputs
  <2>1. PICK b \in [email : Email, username : Username, password : Password] :
            q = [NoReq EXCEPT !.op = "register", !.email = b.email, !.username = Lower[b.username],
                        !.password = b.password]
    BY <1>1 DEF RegisterInputs
  <2>2. b.email \in Email /\ Lower[b.username] \in Username /\ b.password \in Password
    BY ConstantsAssumption DEF Known
  <2> QED
    BY <2>1, <2>2 DEF ClientInput, Req, NoReq, NoPatch, Patch, PublicOps, BearerOps, AdminOps
<1>2. CASE q \in LoginInputs
  <2>1. PICK b \in [email : Email, password : Password] :
            q = [NoReq EXCEPT !.op = "login", !.email = b.email, !.password = b.password]
    BY <1>2 DEF LoginInputs
  <2>2. b.email \in Email /\ b.password \in Password
    BY DEF Known
  <2> QED
    BY <2>1, <2>2 DEF ClientInput, Req, NoReq, NoPatch, Patch, PublicOps, BearerOps, AdminOps
<1>3. CASE q \in RefreshInputs
  <2>1. PICK b \in Known :
            q = [NoReq EXCEPT !.op = "refresh", !.refresh = b]
    BY <1>3 DEF RefreshInputs
  <2>2. b \in Pair \cup {None}
    BY DEF Known
  <2> QED
    BY <2>1, <2>2 DEF ClientInput, Req, NoReq, NoPatch, Patch, PublicOps, BearerOps, AdminOps
<1>4. CASE q \in MeInputs
  <2>1. PICK b \in Known :
            q = [NoReq EXCEPT !.op = "me", !.access = b]
    BY <1>4 DEF MeInputs
  <2>2. b \in Pair \cup {None}
    BY DEF Known
  <2> QED
    BY <2>1, <2>2 DEF ClientInput, Req, NoReq, NoPatch, Patch, PublicOps, BearerOps, AdminOps
<1>5. CASE q \in LogoutInputs
  <2>1. PICK b \in [access : Known, refresh : Known] :
            q = [NoReq EXCEPT !.op = "logout", !.access = b.access, !.refresh = b.refresh]
    BY <1>5 DEF LogoutInputs
  <2>2. b.access \in Pair \cup {None} /\ b.refresh \in Pair \cup {None}
    BY DEF Known
  <2>3. NoReq \in Req
    BY DEF Req, NoReq, NoPatch, Patch
  <2>4. q \in Req
    BY <2>1, <2>2, <2>3, ZenonT(60) DEF Req, BearerOps
  <2>5. q.op = "logout"
    BY <2>1 DEF NoReq
  <2> QED
    BY <2>4, <2>5 DEF ClientInput, PublicOps, BearerOps, AdminOps
<1>6. CASE q \in ChangePasswordInputs
  <2>1. PICK b \in [access : Known, currentPassword : Password, newPassword : Password] :
            q = [NoReq EXCEPT !.op = "changePassword", !.access = b.access,
                        !.password = b.currentPassword, !.newPassword = b.newPassword]
    BY <1>6 DEF ChangePasswordInputs
  <2>2. /\ b.access \in Pair \cup {None}
         /\ b.currentPassword \in Password /\ b.newPassword \in Password
    BY DEF Known
  <2> QED
    BY <2>1, <2>2 DEF ClientInput, Req, NoReq, NoPatch, Patch, PublicOps, BearerOps, AdminOps
<1>7. CASE q \in UserIdInputs
  <2>1. PICK b \in [op : {"getUserById", "deleteUser"}, access : Known, id : UserId] :
            q = [NoReq EXCEPT !.op = b.op, !.access = b.access, !.target = b.id]
    BY <1>7 DEF UserIdInputs
  <2>2. /\ b.op \in {"getUserById", "deleteUser"}
         /\ b.access \in Pair \cup {None} /\ b.id \in UserId
    BY DEF Known
  <2> QED
    BY <2>1, <2>2 DEF ClientInput, Req, NoReq, NoPatch, Patch, PublicOps, BearerOps, AdminOps
<1>8. CASE q \in UpdateInputs
  <2>1. PICK b \in [access : Known, id : UserId, patch : Patches] :
            q = [NoReq EXCEPT !.op = "updateUser", !.access = b.access, !.target = b.id,
                        !.patch = b.patch]
    BY <1>8 DEF UpdateInputs
  <2>2. b.access \in Pair \cup {None} /\ b.id \in UserId /\ b.patch \in Patch
    BY ConstantsAssumption DEF Known
  <2> QED
    BY <2>1, <2>2, ZenonT(30) DEF ClientInput, Req, NoReq, NoPatch, Patch, PublicOps, BearerOps, AdminOps
<1>9. CASE q \in MalformedInputs
  <2>1. CASE \E b \in [op : BearerOps \ {"me"}, access : Known] :
            q = [NoReq EXCEPT !.op = b.op, !.access = b.access, !.malformed = TRUE]
    <3>1. PICK b \in [op : BearerOps \ {"me"}, access : Known] :
              q = [NoReq EXCEPT !.op = b.op, !.access = b.access, !.malformed = TRUE]
      BY <2>1
    <3>2. b.op \in BearerOps /\ b.access \in Pair \cup {None}
      BY DEF Known
    <3> QED
      BY <3>1, <3>2 DEF ClientInput, Req, NoReq, NoPatch, Patch, PublicOps, BearerOps, AdminOps
  <2>2. CASE \E op \in PublicOps : q = [NoReq EXCEPT !.op = op, !.malformed = TRUE]
    <3>1. PICK op \in PublicOps : q = [NoReq EXCEPT !.op = op, !.malformed = TRUE]
      BY <2>2
    <3> QED
      BY <3>1 DEF ClientInput, Req, NoReq, NoPatch, Patch, PublicOps, BearerOps, AdminOps
  <2> QED
    BY <1>9, <2>1, <2>2, Zenon DEF MalformedInputs
<1> QED
  BY <1>1, <1>2, <1>3, <1>4, <1>5, <1>6, <1>7, <1>8, <1>9, Zenon DEF Inputs

-----------------------------------------------------------------------------
(* A step of one request, seen by the others.                              *)

DataTypeOK ==
    /\ users \in [UserId -> UserRow \cup {Absent, Deleted}]
    /\ refreshTokens \in [Pair -> TokenRow \cup {Absent, Deleted}]
    /\ blacklist \in [Pair -> Nat]
    /\ jwt \in [Pair -> Claims \cup {Absent}]
    /\ held \in SUBSET {k \in Pair : jwt[k] # Absent}
    /\ clock \in Nat

\* Claims never change; a row keeps its owner, and stays revoked or deleted.
Grows ==
    /\ \A k \in Pair : jwt[k] # Absent => jwt'[k] = jwt[k]
    /\ \A k \in Pair : refreshTokens[k] # Absent =>
          \/ refreshTokens'[k] = Deleted
          \/ /\ IsRow(k)
             /\ refreshTokens'[k] \in TokenRow
             /\ refreshTokens'[k].userId = refreshTokens[k].userId
             /\ refreshTokens[k].isRevoked => refreshTokens'[k] = refreshTokens[k]

\* Request r inserts only the pair it has signed, in this step or before.
Inserts(r) ==
    \A k \in Pair :
        (refreshTokens[k] = Absent /\ refreshTokens'[k] # Absent) =>
            /\ jwt'[k] # Absent
            /\ jwt[k] = Absent \/ (pc[r] \in InsertLabel /\ k = req[r].pair)

\* Request r moves on to a state that satisfies RequestOK; the others stay.
Moved(r) ==
    /\ pc' \in [Request -> Label]
    /\ req' \in [Request -> Req]
    /\ \A s \in Request \ {r} : pc'[s] = pc[s] /\ req'[s] = req[s]
    /\ InputOK(r)' /\ LocalsOK(r)'
    /\ pc'[r] \in InsertLabel => jwt[req'[r].pair] = Absent

\* A request that holds a user's row keeps the user, and the user's tokens.
LocksKept(r) ==
    \A s \in Request \ {r} : pc[s] \in LockLabel =>
        /\ users'[req[s].user] \notin {Absent, Deleted}
        /\ \A k \in Pair : IsRow(k) /\ refreshTokens[k].userId = req[s].user => IsRow(k)'

LEMMA NoDeletion ==
    ASSUME ApiInv, NEW r \in Request,
           \A u \in UserId : Exists(u) => Exists(u)', \A k \in Pair : IsRow(k) => IsRow(k)'
    PROVE  LocksKept(r)
BY DEF LocksKept, LockLabel, PasswordLabel, Exists, ApiInv, RequestOK, LocalsOK

\* The invariant of one request is stable under the steps of another.
LEMMA OthersUndisturbed ==
    ASSUME ApiInv, NEW r \in Request, Grows, Inserts(r), Moved(r), LocksKept(r),
           NEW s \in Request \ {r}
    PROVE  InputOK(s)' /\ LocalsOK(s)'
<1>1. \A k \in Pair \cup {None} : Signed(k) => Signed(k)'
  BY DEF Grows, Signed
<1>2. InputOK(s) /\ LocalsOK(s)
  BY DEF ApiInv, RequestOK
<1>3. pc'[s] = pc[s] /\ req'[s] = req[s] /\ req[s] \in Req
  BY DEF Moved, ApiInv, TypeOK
<1>4. InputOK(s)'
  BY <1>1, <1>2, <1>3 DEF InputOK, Req
<1>5. pc[s] \in InsertLabel => refreshTokens'[req[s].pair] = Absent
  BY <1>2 DEF LocalsOK, Signed, Inserts, ApiInv, FreshOK
<1>6. pc[s] \in {"refresh_user", "refresh_commit"} =>
         /\ refreshTokens'[req[s].refresh] # Absent
         /\ IsRow(req[s].refresh)' => refreshTokens'[req[s].refresh].userId = req[s].user
  <2> SUFFICES ASSUME pc[s] \in {"refresh_user", "refresh_commit"}
               PROVE  /\ refreshTokens'[req[s].refresh] # Absent
                      /\ IsRow(req[s].refresh)' =>
                             refreshTokens'[req[s].refresh].userId = req[s].user
    OBVIOUS
  <2>1. req[s].refresh \in Pair /\ refreshTokens[req[s].refresh] # Absent
    BY <1>2 DEF InputOK, LocalsOK, Signed
  <2> QED
    BY <2>1, <1>2, <1>3, NullsAssumption DEF Grows, LocalsOK, IsRow
<1>7. pc[s] = "password_commit" =>
         \A k \in req[s].revoking : IsRow(k)' /\ refreshTokens'[k].userId = req[s].user
  <2> SUFFICES ASSUME pc[s] = "password_commit", NEW k \in req[s].revoking
               PROVE  IsRow(k)' /\ refreshTokens'[k].userId = req[s].user
    OBVIOUS
  <2>1. k \in Pair /\ IsRow(k) /\ refreshTokens[k].userId = req[s].user
    BY <1>2, <1>3 DEF LocalsOK, Req
  <2> QED
    BY <2>1 DEF LocksKept, LockLabel, Grows, IsRow
<1>8. pc[s] \in LockLabel => users'[req[s].user] \notin {Absent, Deleted}
  BY DEF LocksKept
<1>9. LocalsOK(s)'
  BY <1>1, <1>2, <1>3, <1>5, <1>6, <1>7, <1>8 DEF LocalsOK, Req, Exists
<1> QED
  BY <1>4, <1>9

\* A step keeps the invariant if it keeps the data's part of it and if its
\* request keeps its own.  (That it only grows is passed on to RevocationFinal.)
LEMMA StepPreserves ==
    ASSUME ApiInv, NEW r \in Request, DataTypeOK', Grows, Inserts(r), Moved(r), LocksKept(r),
           NoOrphanSession'
    PROVE  ApiInv' /\ Grows
<1>1. TypeOK'
  BY DEF Moved, DataTypeOK, TypeOK
<1>2. RequestOK'
  <2> SUFFICES ASSUME NEW s \in Request
               PROVE  InputOK(s)' /\ LocalsOK(s)'
    BY DEF RequestOK
  <2>1. CASE s = r
    BY <2>1 DEF Moved
  <2>2. CASE s # r
    BY <2>2, OthersUndisturbed
  <2> QED
    BY <2>1, <2>2
<1>3. \A k \in Pair : jwt'[k] = Absent => refreshTokens'[k] = Absent
  BY DEF ApiInv, FreshOK, Grows, Inserts
<1>4. ASSUME NEW a \in Request, NEW b \in Request, a # b,
             pc'[a] \in InsertLabel, pc'[b] \in InsertLabel
      PROVE  req'[a].pair # req'[b].pair
  <2>1. ASSUME NEW s \in Request \ {r}, pc[s] \in InsertLabel PROVE Signed(req[s].pair)
    BY <2>1 DEF ApiInv, RequestOK, LocalsOK
  <2> QED
    BY <1>4, <2>1 DEF Moved, Signed, ApiInv, FreshOK
<1> QED
  BY <1>1, <1>2, <1>3, <1>4 DEF ApiInv, FreshOK

\* A step that only reads.
LEMMA ReadPreserves ==
    ASSUME ApiInv, NEW r \in Request, UNCHANGED <<db, tokens, clock>>, Moved(r)
    PROVE  ApiInv' /\ Grows
<1>1. DataTypeOK' /\ NoOrphanSession'
  BY DEF ApiInv, TypeOK, DataTypeOK, NoOrphanSession, IsRow, Exists
<1>2. Grows /\ Inserts(r)
  BY NullsAssumption DEF ApiInv, TypeOK, Grows, Inserts, IsRow
<1>3. LocksKept(r)
  BY NoDeletion DEF Exists, IsRow
<1> QED
  BY <1>1, <1>2, <1>3, StepPreserves

\* To answer is to move.
LEMMA AnswerMoves ==
    ASSUME ApiInv, NEW r \in Request, NEW status \in Status, Answer(r, status)
    PROVE  Moved(r)
<1>1. pc' \in [Request -> Label] /\ req' \in [Request -> Req]
  BY ResponseType DEF ApiInv, TypeOK, Answer, Label
<1>2. pc'[r] = "respond" /\ req'[r].pair = None
  BY ResponseType DEF ApiInv, TypeOK, Answer
<1> QED
  BY <1>1, <1>2 DEF Moved, Answer, ApiInv, TypeOK, InputOK, LocalsOK, BearerLabel,
                    PasswordLabel, LockLabel, TargetLabel, InsertLabel

LEMMA AnswerWithTokensMoves ==
    ASSUME ApiInv, NEW r \in Request, NEW status \in Status, NEW k \in Pair, jwt'[k] # Absent,
           AnswerWithTokens(r, status, k)
    PROVE  Moved(r)
<1>1. pc' \in [Request -> Label] /\ req' \in [Request -> Req]
  BY ResponseType DEF ApiInv, TypeOK, AnswerWithTokens, Label
<1>2. pc'[r] = "respond" /\ req'[r].pair = k
  BY ResponseType DEF ApiInv, TypeOK, AnswerWithTokens
<1> QED
  BY <1>1, <1>2 DEF Moved, AnswerWithTokens, ApiInv, TypeOK, InputOK, LocalsOK, BearerLabel,
                    PasswordLabel, LockLabel, TargetLabel, InsertLabel, Signed

-----------------------------------------------------------------------------
(* The actions that only read.                                             *)

LEMMA ReceivePreserves ==
    ASSUME ApiInv, NEW r \in Request, Receive(r)
    PROVE  ApiInv' /\ Grows
<1>1. PICK q \in Inputs :
         \/ \E status \in {401, 422} : Answer(r, status)
         \/ /\ ~RefusedBody(q) /\ ~Refused(q)
            /\ Go(r, IF q.op \in BearerOps THEN "authenticate" ELSE FirstStatement(q.op))
            /\ req' = [req EXCEPT ![r] = q]
  BY DEF Receive
<1>2. Moved(r)
  <2>1. CASE \E status \in {401, 422} : Answer(r, status)
    BY <2>1, AnswerMoves DEF Status
  <2>2. CASE /\ ~RefusedBody(q) /\ ~Refused(q)
             /\ Go(r, IF q.op \in BearerOps THEN "authenticate" ELSE FirstStatement(q.op))
             /\ req' = [req EXCEPT ![r] = q]
    <3>1. ClientInput(q)
      BY InputsType DEF ApiInv, TypeOK
    <3> DEFINE label == IF q.op \in BearerOps THEN "authenticate" ELSE FirstStatement(q.op)
    <3>2. /\ label \in {"authenticate", "register_find", "login_find", "refresh_find"}
          /\ label = "authenticate" => q.op \in BearerOps
          /\ label = "register_find" => q.op = "register"
          /\ label = "refresh_find" => q.op = "refresh"
          /\ label # "authenticate" => ~q.malformed
      BY <2>2, <3>1 DEF ClientInput, FirstStatement, PublicOps, BearerOps, AdminOps, RefusedBody
    <3>3. /\ q.op \in BearerOps => Signed(q.access)
          /\ q.op = "refresh" => Signed(q.refresh)
      BY <2>2 DEF Refused, AccessValid, RefreshValid, Signed
    <3> HIDE DEF label
    <3>4. pc' = [pc EXCEPT ![r] = label]
      BY <2>2 DEF label
    <3>5. pc' \in [Request -> Label] /\ req' \in [Request -> Req]
      BY <2>2, <3>1, <3>2, <3>4 DEF ApiInv, TypeOK, ClientInput, Label
    <3>6. pc'[r] = label /\ req'[r] = q /\ UNCHANGED <<jwt, refreshTokens>>
      BY <2>2, <3>4 DEF ApiInv, TypeOK, Receive
    <3>7. InputOK(r)'
      BY <3>1, <3>2, <3>3, <3>6 DEF InputOK, ClientInput, BearerLabel, PasswordLabel,
                                    TargetLabel, Signed
    <3>8. LocalsOK(r)' /\ pc'[r] \notin InsertLabel
      BY <3>2, <3>6 DEF LocalsOK, InsertLabel, PasswordLabel, LockLabel
    <3> QED
      BY <2>2, <3>4, <3>5, <3>7, <3>8 DEF Moved, ApiInv, TypeOK
  <2> QED
    BY <1>1, <2>1, <2>2
<1> QED
  BY <1>2, ReadPreserves DEF Receive

LEMMA AuthenticatePreserves ==
    ASSUME ApiInv, NEW r \in Request, Authenticate(r)
    PROVE  ApiInv' /\ Grows
<1> DEFINE q == req[r]
           label == FirstStatement(q.op)
           kept == IF q.op = "logout" THEN q.access ELSE None
           new == [q EXCEPT !.user = jwt[q.access].sub, !.access = kept]
<1>1. \/ \E status \in Status : Answer(r, status)
      \/ /\ q.op # "me"
         /\ ~q.malformed
         /\ Go(r, label)
         /\ req' = [req EXCEPT ![r] = new]
  BY DEF Authenticate, Status
<1>2. Moved(r)
  <2>1. CASE \E status \in Status : Answer(r, status)
    BY <2>1, AnswerMoves
  <2>2. CASE /\ q.op # "me"
             /\ ~q.malformed
             /\ Go(r, label)
             /\ req' = [req EXCEPT ![r] = new]
    <3>1. InputOK(r) /\ q \in Req /\ pc[r] = "authenticate"
      BY DEF ApiInv, RequestOK, TypeOK, Authenticate
    <3>2. /\ label \in {"logout_revoke", "password_find", "user_find", "update_find", "delete_find"}
          /\ label = "password_find" => q.op = "changePassword"
          /\ label = "logout_revoke" => q.op = "logout"
          /\ label \in TargetLabel => q.op \in {"getUserById"} \cup AdminOps
      BY <2>2, <3>1 DEF InputOK, FirstStatement, BearerOps, AdminOps, TargetLabel
    <3>3. jwt[q.access].sub \in UserId /\ Signed(q.access)
      BY <3>1 DEF InputOK, Signed, ApiInv, TypeOK, Claims, BearerLabel
    <3>9. kept \in Pair \cup {None} /\ (label = "logout_revoke" => kept = q.access)
      BY <3>1, <3>2, <3>3 DEF Signed
    <3> HIDE DEF label, kept
    <3>4. label \in Label /\ new \in Req
      BY <3>1, <3>2, <3>3, <3>9, TwoLocalsType DEF Label
    <3>10. /\ new.user = jwt[q.access].sub /\ new.access = kept
           /\ new.newPassword = q.newPassword /\ new.target = q.target
      BY <3>1 DEF Req
    <3> HIDE DEF new
    <3>5. pc' \in [Request -> Label] /\ req' \in [Request -> Req]
      BY <2>2, <3>4 DEF ApiInv, TypeOK
    <3>6. pc'[r] = label /\ req'[r] = new
      BY <2>2 DEF ApiInv, TypeOK
    <3>7. InputOK(r)'
      BY <2>2, <3>1, <3>2, <3>3, <3>6, <3>9, <3>10
         DEF InputOK, BearerLabel, PasswordLabel, LockLabel, TargetLabel, Signed, Req, Authenticate
    <3>8. LocalsOK(r)' /\ pc'[r] \notin InsertLabel
      BY <3>2, <3>3, <3>6, <3>10 DEF LocalsOK, InsertLabel, PasswordLabel, LockLabel
    <3> QED
      BY <2>2, <3>5, <3>7, <3>8 DEF Moved, ApiInv, TypeOK
  <2> QED
    BY <1>1, <2>1, <2>2
<1> QED
  BY <1>2, ReadPreserves DEF Authenticate

LEMMA StoreErrorPreserves ==
    ASSUME ApiInv, NEW r \in Request, StoreError(r)
    PROVE  ApiInv' /\ Grows
BY AnswerMoves, ReadPreserves DEF StoreError, Status

\* A request that goes back to idle moves, whatever it was doing.
LEMMA IdleMoves ==
    ASSUME ApiInv, NEW r \in Request, Go(r, "idle"), req' = [req EXCEPT ![r] = NoReq]
    PROVE  Moved(r)
<1>1. pc' \in [Request -> Label] /\ req' \in [Request -> Req]
  BY NoReqType DEF ApiInv, TypeOK, Label
<1>2. pc'[r] = "idle"
  BY DEF ApiInv, TypeOK
<1> QED
  BY <1>1, <1>2 DEF Moved, ApiInv, TypeOK, InputOK, LocalsOK, BearerLabel,
                    PasswordLabel, LockLabel, TargetLabel, InsertLabel

LEMMA DropPreserves ==
    ASSUME ApiInv, NEW r \in Request, Drop(r)
    PROVE  ApiInv' /\ Grows
BY IdleMoves, ReadPreserves DEF Drop

LEMMA RespondPreserves ==
    ASSUME ApiInv, NEW r \in Request, Respond(r)
    PROVE  ApiInv' /\ Grows
<1>1. Moved(r)
  BY IdleMoves DEF Respond
<1>2. req[r].pair = None \/ Signed(req[r].pair)
  BY DEF Respond, ApiInv, RequestOK, LocalsOK
<1>3. DataTypeOK' /\ NoOrphanSession'
  BY <1>2 DEF Respond, ApiInv, TypeOK, DataTypeOK, Signed, NoOrphanSession, IsRow, Exists
<1>4. Grows /\ Inserts(r)
  BY NullsAssumption DEF Respond, ApiInv, TypeOK, Grows, Inserts, IsRow
<1>5. LocksKept(r)
  BY NoDeletion DEF Respond, Exists, IsRow
<1> QED
  BY <1>1, <1>3, <1>4, <1>5, StepPreserves

LEMMA TickPreserves ==
    ASSUME ApiInv, Tick
    PROVE  ApiInv' /\ Grows
<1>1. TypeOK'
  BY DEF Tick, ApiInv, TypeOK
<1>2. RequestOK'
  BY DEF Tick, ApiInv, RequestOK, InputOK, LocalsOK, Signed, IsRow, Exists
<1>3. FreshOK' /\ NoOrphanSession'
  BY DEF Tick, ApiInv, FreshOK, NoOrphanSession, IsRow, Exists
<1>4. Grows
  BY NullsAssumption DEF Tick, Grows, IsRow, ApiInv, TypeOK
<1> QED
  BY <1>1, <1>2, <1>3, <1>4 DEF ApiInv

-----------------------------------------------------------------------------
(* The actions of AuthService.                                             *)

LEMMA RegisterFindPreserves ==
    ASSUME ApiInv, NEW r \in Request, RegisterFind(r)
    PROVE  ApiInv' /\ Grows
<1>1. CASE Answer(r, 409)
  BY <1>1, AnswerMoves, ReadPreserves DEF RegisterFind, Status
<1>2. CASE Go(r, "register_create") /\ UNCHANGED req
  <2>1. Moved(r)
    BY <1>2 DEF RegisterFind, Moved, ApiInv, TypeOK, RequestOK, InputOK, LocalsOK, Label,
                BearerLabel, PasswordLabel, LockLabel, TargetLabel, InsertLabel
  <2> QED
    BY <2>1, ReadPreserves DEF RegisterFind
<1> QED
  BY <1>1, <1>2 DEF RegisterFind

LEMMA RegisterCreatePreserves ==
    ASSUME ApiInv, NEW r \in Request, RegisterCreate(r)
    PROVE  ApiInv' /\ Grows
<1> DEFINE q == req[r]
<1>1. CASE Answer(r, 409) /\ UNCHANGED <<db, jwt>>
  BY <1>1, AnswerMoves, ReadPreserves DEF RegisterCreate, Status
<1>2. ASSUME NEW u \in UserId, NEW k \in Pair,
             users[u] = Absent, Unused(k),
             users' = [users EXCEPT ![u] =
                 [email |-> q.email, username |-> q.username,
                  passwordHash |-> Digest[q.password], role |-> "USER", isActive |-> TRUE]],
             Sign(k, u, "USER"), refreshTokens' = InitialTokens(k, u),
             AnswerWithTokens(r, 201, k)
      PROVE  ApiInv' /\ Grows
  <2>1. q.email \in Email /\ q.username \in Username /\ Digest[q.password] \in Hash
    BY DigestType DEF ApiInv, RequestOK, InputOK, RegisterCreate
  <2>2. NewTokenRow(u, clock) \in TokenRow
    BY ConstantsAssumption DEF NewTokenRow, TokenRow, ApiInv, TypeOK
  <2>3. jwt[k] = Absent /\ refreshTokens[k] = Absent
    BY <1>2 DEF Unused, ApiInv, FreshOK
  <2>4. [sub |-> u, role |-> "USER", iat |-> clock] \in Claims
    BY DEF Claims, Role, ApiInv, TypeOK
  <2>5. DataTypeOK'
    <3>1. users' \in [UserId -> UserRow \cup {Absent, Deleted}]
      BY <1>2, <2>1 DEF UserRow, Role, ApiInv, TypeOK
    <3>2. refreshTokens' \in [Pair -> TokenRow \cup {Absent, Deleted}]
      BY <1>2, <2>2 DEF InitialTokens, ApiInv, TypeOK
    <3>3. jwt' \in [Pair -> Claims \cup {Absent}]
      BY <1>2, <2>4 DEF Sign, ApiInv, TypeOK
    <3>4. held' \in SUBSET {j \in Pair : jwt'[j] # Absent}
      BY <1>2, <2>3 DEF RegisterCreate, Sign, ApiInv, TypeOK
    <3> QED
      BY <3>1, <3>2, <3>3, <3>4 DEF DataTypeOK, RegisterCreate, ApiInv, TypeOK
  <2>6. Grows /\ Inserts(r)
    BY <1>2, <2>3, <2>4, NullsAssumption
       DEF Grows, Inserts, InitialTokens, Sign, IsRow, ApiInv, TypeOK
  <2>7. NoOrphanSession'
    <3>1. \A v \in UserId : Exists(v) => Exists(v)'
      BY <1>2 DEF Exists, ApiInv, TypeOK
    <3>2. Exists(u)'
      <4>1. users'[u] \in UserRow
        BY <1>2, <2>1 DEF UserRow, Role, ApiInv, TypeOK
      <4> QED
        BY <4>1, NullsAssumption DEF Exists
    <3>3. refreshTokens'[k].userId = u
      BY <1>2 DEF InitialTokens, NewTokenRow, ApiInv, TypeOK
    <3>4. \A j \in Pair \ {k} : refreshTokens'[j] = refreshTokens[j]
      BY <1>2 DEF InitialTokens, ApiInv, TypeOK
    <3>5. ASSUME NEW j \in Pair \ {k}, IsRow(j)' PROVE Exists(refreshTokens[j].userId)'
      <4>1. IsRow(j) /\ refreshTokens[j].userId \in UserId
        BY <3>4, <3>5 DEF IsRow, ApiInv, TypeOK, TokenRow
      <4> QED
        BY <3>1, <3>4, <4>1 DEF ApiInv, NoOrphanSession, Exists
    <3> QED
      BY <3>2, <3>3, <3>5 DEF NoOrphanSession, Exists
  <2>8. jwt'[k] # Absent
    BY <1>2, <2>4, NullsAssumption DEF Sign, ApiInv, TypeOK
  <2>9. LocksKept(r)
    <3>1. \A v \in UserId : Exists(v) => Exists(v)'
      BY <1>2 DEF Exists, ApiInv, TypeOK
    <3>2. \A j \in Pair : IsRow(j) => IsRow(j)'
      BY <1>2, <2>3 DEF InitialTokens, IsRow, ApiInv, TypeOK
    <3> QED
      BY <3>1, <3>2, NoDeletion
  <2> QED
    BY <1>2, <2>5, <2>6, <2>7, <2>8, <2>9, AnswerWithTokensMoves, StepPreserves DEF Status
<1> QED
  BY <1>1, <1>2 DEF RegisterCreate

LEMMA LoginFindPreserves ==
    ASSUME ApiInv, NEW r \in Request, LoginFind(r)
    PROVE  ApiInv' /\ Grows
<1>0. UNCHANGED <<db, tokens, clock>>
  BY Zenon DEF LoginFind
<1>1. CASE Answer(r, 401)
  BY <1>0, <1>1, AnswerMoves, ReadPreserves DEF Status
<1>2. ASSUME NEW u \in UserId, Exists(u), Go(r, "login_compare"),
             req' = [req EXCEPT ![r] = [req[r] EXCEPT !.user = u, !.row = users[u]]]
      PROVE  ApiInv' /\ Grows
  <2>1. users[u] \in UserRow /\ req[r] \in Req
    BY <1>2 DEF Exists, ApiInv, TypeOK
  <2>2. req' \in [Request -> Req] /\ req'[r] = [req[r] EXCEPT !.user = u, !.row = users[u]]
    <3>1. [req[r] EXCEPT !.user = u, !.row = users[u]] \in Req
      BY <2>1, TwoLocalsType
    <3> QED
      BY <1>2, <3>1 DEF ApiInv, TypeOK
  <2>3. pc' \in [Request -> Label] /\ pc'[r] = "login_compare"
    BY <1>2 DEF Label, ApiInv, TypeOK
  <2>4. Moved(r)
    BY <1>2, <2>1, <2>2, <2>3
       DEF Moved, InputOK, LocalsOK, Req, ApiInv, TypeOK,
           BearerLabel, PasswordLabel, LockLabel, TargetLabel, InsertLabel
  <2> QED
    BY <1>0, <2>4, ReadPreserves
<1> QED
  BY <1>1, <1>2, Zenon DEF LoginFind

\* Signing a fresh pair, for the request that is going to store it.
LEMMA SignPreserves ==
    ASSUME ApiInv, NEW r \in Request, NEW k \in Pair, NEW u \in UserId, NEW role \in Role,
           Unused(k), Sign(k, u, role), UNCHANGED <<db, blacklist, held, clock>>,
           Moved(r)
    PROVE  ApiInv' /\ Grows
<1>1. jwt[k] = Absent /\ refreshTokens[k] = Absent
  BY DEF Unused, ApiInv, FreshOK
<1>2. [sub |-> u, role |-> role, iat |-> clock] \in Claims
  BY DEF Claims, ApiInv, TypeOK
<1>3. DataTypeOK'
  BY <1>1, <1>2, NullsAssumption DEF DataTypeOK, Sign, ApiInv, TypeOK
<1>4. Grows /\ Inserts(r)
  BY <1>1, <1>2, NullsAssumption DEF Grows, Inserts, Sign, IsRow, ApiInv, TypeOK
<1>5. NoOrphanSession' /\ LocksKept(r)
  BY NoDeletion DEF NoOrphanSession, IsRow, Exists, ApiInv
<1> QED
  BY <1>3, <1>4, <1>5, StepPreserves

LEMMA LoginComparePreserves ==
    ASSUME ApiInv, NEW r \in Request, LoginCompare(r)
    PROVE  ApiInv' /\ Grows
<1>1. CASE Answer(r, 401) /\ UNCHANGED jwt
  BY <1>1, AnswerMoves, ReadPreserves DEF LoginCompare, Status
<1>2. ASSUME NEW k \in Pair, Unused(k), Sign(k, req[r].user, req[r].row.role),
             req' = [req EXCEPT ![r].pair = k], Go(r, "login_create")
      PROVE  ApiInv' /\ Grows
  <2>1. req[r] \in Req /\ req[r].user \in UserId /\ req[r].row.role \in Role
    BY DEF LoginCompare, ApiInv, TypeOK, RequestOK, LocalsOK, UserRow
  <2>2. req' \in [Request -> Req] /\ req'[r] = [req[r] EXCEPT !.pair = k]
    <3>1. [req[r] EXCEPT !.pair = k] \in Req
      BY <2>1 DEF Req
    <3> QED
      BY <1>2, <3>1 DEF ApiInv, TypeOK
  <2>3. pc' \in [Request -> Label] /\ pc'[r] = "login_create"
    BY <1>2 DEF Label, ApiInv, TypeOK
  <2>4. Signed(k)' /\ jwt[k] = Absent /\ refreshTokens'[k] = Absent
    BY <1>2, NullsAssumption, <2>1
       DEF Sign, Signed, Unused, ApiInv, FreshOK, TypeOK, LoginCompare, Claims
  <2>5. Moved(r)
    BY <1>2, <2>1, <2>2, <2>3, <2>4
       DEF Moved, InputOK, LocalsOK, Req, ApiInv, TypeOK,
           BearerLabel, PasswordLabel, LockLabel, TargetLabel, InsertLabel
  <2> QED
    BY <1>2, <2>1, <2>5, SignPreserves DEF LoginCompare
<1> QED
  BY <1>1, <1>2 DEF LoginCompare

\* Storing the pair that a request has signed before, for a user that exists,
\* perhaps revoking some rows with the same statement or transaction.
LEMMA InsertPreserves ==
    ASSUME ApiInv, NEW r \in Request, pc[r] \in InsertLabel,
           NEW K \in SUBSET Pair, req[r].pair \notin K, NEW now \in Nat,
           Exists(req[r].user), Moved(r),
           refreshTokens' = [WithRevoked(K) EXCEPT ![req[r].pair] = NewTokenRow(req[r].user, now)],
           UNCHANGED <<users, tokens, clock>>
    PROVE  ApiInv' /\ Grows
<1> DEFINE k == req[r].pair
           u == req[r].user
<1>1. u \in UserId /\ Signed(k) /\ refreshTokens[k] = Absent
  BY DEF ApiInv, RequestOK, LocalsOK
<1>2. NewTokenRow(u, now) \in TokenRow /\ NewTokenRow(u, now).userId = u
  BY <1>1, ConstantsAssumption DEF NewTokenRow, TokenRow
<1>3. refreshTokens'[k] = NewTokenRow(u, now) /\ k \in Pair
  BY <1>1 DEF WithRevoked, Signed
<1>4. \A j \in Pair \ {k} :
         refreshTokens'[j] = IF j \in K /\ IsRow(j)
                             THEN [refreshTokens[j] EXCEPT !.isRevoked = TRUE]
                             ELSE refreshTokens[j]
  BY DEF WithRevoked
<1>5. \A j \in Pair : IsRow(j) =>
         /\ [refreshTokens[j] EXCEPT !.isRevoked = TRUE] \in TokenRow
         /\ [refreshTokens[j] EXCEPT !.isRevoked = TRUE].userId = refreshTokens[j].userId
         /\ refreshTokens[j].isRevoked =>
               [refreshTokens[j] EXCEPT !.isRevoked = TRUE] = refreshTokens[j]
  BY DEF IsRow, ApiInv, TypeOK, TokenRow
<1> HIDE DEF k, u
<1>6. refreshTokens' \in [Pair -> TokenRow \cup {Absent, Deleted}]
  <2>1. refreshTokens' = [j \in Pair |-> refreshTokens'[j]]
    BY DEF WithRevoked
  <2>2. ASSUME NEW j \in Pair PROVE refreshTokens'[j] \in TokenRow \cup {Absent, Deleted}
    <3>1. CASE j = k
      BY <3>1, <1>2, <1>3
    <3>2. CASE j # k /\ j \in K /\ IsRow(j)
      BY <3>2, <1>4, <1>5
    <3>3. CASE j # k /\ ~(j \in K /\ IsRow(j))
      BY <3>3, <1>4 DEF ApiInv, TypeOK
    <3> QED
      BY <3>1, <3>2, <3>3
  <2> QED
    BY <2>1, <2>2
<1>7. DataTypeOK'
  BY <1>6 DEF DataTypeOK, ApiInv, TypeOK
<1>8. Grows
  <2> SUFFICES ASSUME NEW j \in Pair, refreshTokens[j] # Absent
               PROVE  \/ refreshTokens'[j] = Deleted
                      \/ /\ IsRow(j)
                         /\ refreshTokens'[j] \in TokenRow
                         /\ refreshTokens'[j].userId = refreshTokens[j].userId
                         /\ refreshTokens[j].isRevoked => refreshTokens'[j] = refreshTokens[j]
    BY DEF Grows
  <2>1. CASE j \in K /\ IsRow(j)
    BY <2>1, <1>1, <1>4, <1>5
  <2>2. CASE j \notin K /\ IsRow(j)
    BY <2>2, <1>1, <1>4 DEF IsRow, ApiInv, TypeOK
  <2>3. CASE ~IsRow(j)
    BY <2>3, <1>1, <1>4 DEF IsRow
  <2> QED
    BY <2>1, <2>2, <2>3
<1>9. Inserts(r)
  BY <1>1, <1>3, <1>4 DEF Inserts, IsRow, Signed, k
<1>10. NoOrphanSession'
  <2> SUFFICES ASSUME NEW j \in Pair, IsRow(j)'
               PROVE  Exists(refreshTokens'[j].userId)
    BY DEF NoOrphanSession, Exists
  <2>1. CASE j = k
    BY <2>1, <1>2, <1>3 DEF u
  <2>2. CASE j # k
    <3>1. IsRow(j)
      BY <2>2, <1>4 DEF IsRow
    <3>2. refreshTokens'[j].userId = refreshTokens[j].userId
      BY <2>2, <3>1, <1>4, <1>5
    <3> QED
      BY <3>1, <3>2 DEF ApiInv, NoOrphanSession
  <2> QED
    BY <2>1, <2>2
<1>11. LocksKept(r)
  <2>1. \A j \in Pair : IsRow(j) => IsRow(j)'
    BY <1>1, <1>3, <1>4, <1>5, NullsAssumption DEF IsRow
  <2> QED
    BY <2>1, NoDeletion DEF Exists
<1> QED
  BY <1>7, <1>8, <1>9, <1>10, <1>11, StepPreserves

LEMMA RevokeNobody ==
    ASSUME ApiInv
    PROVE  WithRevoked({}) = refreshTokens
BY DEF WithRevoked, ApiInv, TypeOK

LEMMA LoginCreatePreserves ==
    ASSUME ApiInv, NEW r \in Request, LoginCreate(r)
    PROVE  ApiInv' /\ Grows
<1> DEFINE k == req[r].pair
           u == req[r].user
<1>1. CASE Answer(r, 500) /\ UNCHANGED refreshTokens
  BY <1>1, AnswerMoves, ReadPreserves DEF LoginCreate, Status
<1>2. CASE /\ Exists(u)
           /\ refreshTokens' = [refreshTokens EXCEPT ![k] = NewTokenRow(u, jwt[k].iat)]
           /\ AnswerWithTokens(r, 200, k)
  <2>1. pc[r] \in InsertLabel /\ UNCHANGED <<users, tokens, clock>>
    BY DEF LoginCreate, InsertLabel
  <2>2. Signed(k)
    BY <2>1 DEF ApiInv, RequestOK, LocalsOK
  <2>3. k \in Pair /\ jwt'[k] # Absent
    BY <2>1, <2>2 DEF Signed
  <2>4. jwt[k].iat \in Nat
    BY <2>2 DEF Signed, ApiInv, TypeOK, Claims
  <2>5. Moved(r)
    BY <1>2, <2>3, AnswerWithTokensMoves DEF Status
  <2> QED
    BY <1>2, <2>1, <2>4, <2>5, RevokeNobody, InsertPreserves
<1> QED
  BY <1>1, <1>2 DEF LoginCreate, ForeignKey

LEMMA RefreshFindPreserves ==
    ASSUME ApiInv, NEW r \in Request, RefreshFind(r)
    PROVE  ApiInv' /\ Grows
<1> DEFINE t == req[r].refresh
           u == refreshTokens[t].userId
           new == [req[r] EXCEPT !.stored = refreshTokens[t], !.user = u]
<1>0. UNCHANGED <<db, tokens, clock>> /\ pc[r] = "refresh_find"
  BY DEF RefreshFind
<1>1. CASE Answer(r, 401)
  BY <1>0, <1>1, AnswerMoves, ReadPreserves DEF Status
<1>2. CASE IsRow(t) /\ req' = [req EXCEPT ![r] = new] /\ Go(r, "refresh_user")
  <2>1. req[r] \in Req /\ Signed(t)
    BY <1>0 DEF ApiInv, TypeOK, RequestOK, InputOK
  <2>2. refreshTokens[t] \in TokenRow /\ u \in UserId /\ refreshTokens[t] # Absent
    BY <1>2, <2>1 DEF IsRow, Signed, ApiInv, TypeOK, TokenRow
  <2>3. new \in Req
    BY <2>1, <2>2, TwoLocalsType
  <2>4. new.refresh = t /\ new.user = u /\ new.stored = refreshTokens[t]
    BY <2>1 DEF Req
  <2> HIDE DEF new, u
  <2>5. req' \in [Request -> Req] /\ req'[r] = new
    BY <1>2, <2>3 DEF ApiInv, TypeOK
  <2>6. pc' \in [Request -> Label] /\ pc'[r] = "refresh_user"
    BY <1>2 DEF Label, ApiInv, TypeOK
  <2>7. InputOK(r)'
    BY <1>0, <2>1, <2>4, <2>5, <2>6
       DEF InputOK, Signed, BearerLabel, PasswordLabel, LockLabel, TargetLabel
  <2>8. LocalsOK(r)' /\ pc'[r] \notin InsertLabel
    BY <1>0, <2>2, <2>4, <2>5, <2>6, Zenon DEF LocalsOK, IsRow, InsertLabel, PasswordLabel, LockLabel, u
  <2>9. Moved(r)
    BY <1>2, <2>5, <2>6, <2>7, <2>8 DEF Moved, ApiInv, TypeOK
  <2> QED
    BY <1>0, <2>9, ReadPreserves
<1> QED
  BY <1>1, <1>2, Zenon DEF RefreshFind

LEMMA RefreshUserPreserves ==
    ASSUME ApiInv, NEW r \in Request, RefreshUser(r)
    PROVE  ApiInv' /\ Grows
<1> DEFINE t == req[r].refresh
           u == req[r].user
<1>0. UNCHANGED <<db, blacklist, held, clock>> /\ pc[r] = "refresh_user"
  BY DEF RefreshUser
<1>1. CASE (Answer(r, 401) \/ Answer(r, 500)) /\ UNCHANGED jwt
  BY <1>0, <1>1, AnswerMoves, ReadPreserves DEF Status
<1>2. ASSUME Exists(u), NEW k \in Pair, Unused(k), Sign(k, u, users[u].role),
             req' = [req EXCEPT ![r] = [req[r] EXCEPT !.stored = None, !.pair = k]],
             Go(r, "refresh_commit")
      PROVE  ApiInv' /\ Grows
  <2>1. req[r] \in Req /\ Signed(t)
    BY <1>0 DEF ApiInv, TypeOK, RequestOK, InputOK
  <2>2. /\ u \in UserId /\ refreshTokens[t] # Absent
        /\ IsRow(t) => refreshTokens[t].userId = u
    BY <1>0 DEF ApiInv, RequestOK, LocalsOK
  <2>3. users[u].role \in Role
    BY <1>2, <2>2 DEF Exists, UserRow, ApiInv, TypeOK
  <2>4. req' \in [Request -> Req] /\ req'[r] = [req[r] EXCEPT !.stored = None, !.pair = k]
    <3>1. [req[r] EXCEPT !.stored = None, !.pair = k] \in Req
      BY <2>1, <2>2, TwoLocalsType
    <3> QED
      BY <1>2, <3>1 DEF ApiInv, TypeOK
  <2>5. req'[r].refresh = t /\ req'[r].user = u /\ req'[r].pair = k
    BY <2>1, <2>4 DEF Req
  <2>6. pc' \in [Request -> Label] /\ pc'[r] = "refresh_commit"
    BY <1>2 DEF Label, ApiInv, TypeOK
  <2>7. [sub |-> u, role |-> users[u].role, iat |-> clock] \in Claims
    BY <2>2, <2>3 DEF Claims, ApiInv, TypeOK
  <2>8. Signed(k)' /\ jwt[k] = Absent /\ refreshTokens'[k] = Absent
    <3>1. jwt[k] = Absent /\ refreshTokens[k] = Absent
      BY <1>2 DEF Unused, ApiInv, FreshOK
    <3>2. jwt'[k] # Absent
      BY <1>2, <2>7, NullsAssumption DEF Sign, ApiInv, TypeOK
    <3> QED
      BY <3>1, <3>2, <1>0 DEF Signed
  <2>9. jwt'[t] # Absent /\ t \in Pair
    BY <1>2, <2>1, <2>8 DEF Sign, Signed, ApiInv, TypeOK
  <2>10. InputOK(r)'
    BY <2>5, <2>6, <2>9 DEF InputOK, Signed, BearerLabel, PasswordLabel, LockLabel, TargetLabel
  <2>11. LocalsOK(r)'
    BY <1>0, <2>2, <2>5, <2>6, <2>8 DEF LocalsOK, IsRow, InsertLabel, PasswordLabel, LockLabel
  <2>12. Moved(r)
    BY <1>2, <2>4, <2>5, <2>6, <2>8, <2>10, <2>11 DEF Moved, ApiInv, TypeOK
  <2> QED
    BY <1>0, <1>2, <2>2, <2>3, <2>12, SignPreserves
<1> QED
  BY <1>1, <1>2, Zenon DEF RefreshUser

LEMMA RefreshCommitPreserves ==
    ASSUME ApiInv, NEW r \in Request, RefreshCommit(r)
    PROVE  ApiInv' /\ Grows
<1> DEFINE t == req[r].refresh
           k == req[r].pair
           u == req[r].user
<1>1. CASE Answer(r, 404) /\ UNCHANGED refreshTokens
  BY <1>1, AnswerMoves, ReadPreserves DEF RefreshCommit, Status
<1>2. CASE /\ IsRow(t)
           /\ refreshTokens' = Rotated(t, k, u)
           /\ AnswerWithTokens(r, 200, k)
  <2>1. pc[r] = "refresh_commit" /\ UNCHANGED <<users, tokens, clock>>
    BY DEF RefreshCommit
  <2>2. /\ Signed(k) /\ refreshTokens[k] = Absent
        /\ Signed(t) /\ refreshTokens[t].userId = u
    BY <1>2, <2>1 DEF ApiInv, RequestOK, InputOK, LocalsOK, InsertLabel
  <2>3. Exists(u) /\ k # t /\ t \in Pair /\ k \in Pair
    BY <1>2, <2>2 DEF Signed, IsRow, ApiInv, NoOrphanSession
  <2>4. jwt'[k] # Absent
    BY <2>1, <2>2 DEF Signed
  <2>5. Moved(r)
    BY <1>2, <2>3, <2>4, AnswerWithTokensMoves DEF Status
  <2>6. clock \in Nat /\ {t} \in SUBSET Pair /\ k \notin {t} /\ pc[r] \in InsertLabel
    BY <2>1, <2>3 DEF ApiInv, TypeOK, InsertLabel
  <2> QED
    BY <1>2, <2>1, <2>3, <2>5, <2>6, InsertPreserves DEF Rotated
<1> QED
  BY <1>1, <1>2 DEF RefreshCommit

\* Revoking rows, and writing users in a way that removes none.
LEMMA RevokePreserves ==
    ASSUME ApiInv, NEW r \in Request, NEW K \in SUBSET Pair, Moved(r),
           refreshTokens' = WithRevoked(K),
           users' \in [UserId -> UserRow \cup {Absent, Deleted}],
           \A u \in UserId : Exists(u) => Exists(u)',
           UNCHANGED <<jwt, held, clock>>, blacklist' \in [Pair -> Nat]
    PROVE  ApiInv' /\ Grows
<1>1. \A j \in Pair :
         refreshTokens'[j] = IF j \in K /\ IsRow(j)
                             THEN [refreshTokens[j] EXCEPT !.isRevoked = TRUE]
                             ELSE refreshTokens[j]
  BY DEF WithRevoked
<1>2. \A j \in Pair : IsRow(j) =>
         /\ refreshTokens[j].userId \in UserId
         /\ [refreshTokens[j] EXCEPT !.isRevoked = TRUE] \in TokenRow
         /\ [refreshTokens[j] EXCEPT !.isRevoked = TRUE].userId = refreshTokens[j].userId
         /\ refreshTokens[j].isRevoked =>
               [refreshTokens[j] EXCEPT !.isRevoked = TRUE] = refreshTokens[j]
  BY DEF IsRow, ApiInv, TypeOK, TokenRow
<1>3. ASSUME NEW j \in Pair
      PROVE  /\ refreshTokens'[j] \in TokenRow \cup {Absent, Deleted}
             /\ refreshTokens[j] = Absent => refreshTokens'[j] = Absent
             /\ refreshTokens[j] = Deleted => refreshTokens'[j] = Deleted
             /\ IsRow(j) =>
                   /\ refreshTokens'[j] \in TokenRow
                   /\ refreshTokens'[j].userId = refreshTokens[j].userId
                   /\ refreshTokens[j].isRevoked => refreshTokens'[j] = refreshTokens[j]
  <2>1. CASE j \in K /\ IsRow(j)
    BY <2>1, <1>1, <1>2 DEF IsRow
  <2>2. CASE ~(j \in K /\ IsRow(j))
    BY <2>2, <1>1 DEF IsRow, ApiInv, TypeOK
  <2> QED
    BY <2>1, <2>2
<1>4. refreshTokens' \in [Pair -> TokenRow \cup {Absent, Deleted}]
  <2>1. refreshTokens' = [j \in Pair |-> refreshTokens'[j]]
    BY DEF WithRevoked
  <2> QED
    BY <2>1, <1>3
<1>5. DataTypeOK'
  BY <1>4 DEF DataTypeOK, ApiInv, TypeOK
<1>6. Grows
  BY <1>3 DEF Grows, IsRow
<1>7. Inserts(r)
  BY <1>3 DEF Inserts
<1>8. NoOrphanSession'
  <2> SUFFICES ASSUME NEW j \in Pair, IsRow(j)'
               PROVE  Exists(refreshTokens[j].userId)'
    BY DEF NoOrphanSession, Exists
  <2>1. IsRow(j)
    BY <1>3 DEF IsRow
  <2>2. Exists(refreshTokens[j].userId) /\ refreshTokens'[j].userId = refreshTokens[j].userId
    BY <1>3, <2>1 DEF ApiInv, NoOrphanSession
  <2> QED
    BY <1>2, <2>1, <2>2 DEF Exists
<1>9. LocksKept(r)
  BY <1>3, NullsAssumption, NoDeletion DEF IsRow
<1> QED
  BY <1>5, <1>6, <1>7, <1>8, <1>9, StepPreserves

LEMMA LogoutRevokePreserves ==
    ASSUME ApiInv, NEW r \in Request, LogoutRevoke(r)
    PROVE  ApiInv' /\ Grows
<1> DEFINE K == {k \in Pair : /\ k = req[r].refresh
                              /\ IsRow(k)
                              /\ refreshTokens[k].userId = req[r].user}
<1>1. pc[r] = "logout_revoke" /\ UNCHANGED <<users, tokens, clock, req>>
  BY DEF LogoutRevoke
<1>2. InputOK(r) /\ LocalsOK(r)
  BY DEF ApiInv, RequestOK
<1>3. pc' \in [Request -> Label] /\ pc'[r] = "logout_blacklist"
  BY DEF LogoutRevoke, Label, ApiInv, TypeOK
<1>4. Moved(r)
  BY <1>1, <1>2, <1>3 DEF LogoutRevoke, Moved, InputOK, LocalsOK, Signed, ApiInv, TypeOK,
                          BearerLabel, PasswordLabel, LockLabel, TargetLabel, InsertLabel
<1>5. \A u \in UserId : Exists(u) => Exists(u)'
  BY <1>1 DEF Exists
<1>6. refreshTokens' = WithRevoked(K) /\ K \in SUBSET Pair
  BY DEF LogoutRevoke
<1> HIDE DEF K
<1> QED
  BY <1>1, <1>4, <1>5, <1>6, RevokePreserves DEF ApiInv, TypeOK

LEMMA LogoutBlacklistPreserves ==
    ASSUME ApiInv, NEW r \in Request, LogoutBlacklist(r)
    PROVE  ApiInv' /\ Grows
<1>1. Moved(r)
  BY AnswerMoves DEF LogoutBlacklist, Status
<1>2. blacklist' \in [Pair -> Nat]
  <2>1. BlacklistExpiry(req[r].access) \in Nat
    BY ConstantsAssumption DEF BlacklistExpiry, ApiInv, TypeOK
  <2> QED
    BY <2>1 DEF LogoutBlacklist, ApiInv, TypeOK
<1>3. UNCHANGED <<users, refreshTokens, jwt, held, clock>>
  BY DEF LogoutBlacklist
<1>4. refreshTokens' = WithRevoked({}) /\ {} \in SUBSET Pair
  BY <1>3, RevokeNobody
<1>5. users' \in [UserId -> UserRow \cup {Absent, Deleted}]
      /\ \A u \in UserId : Exists(u) => Exists(u)'
  BY <1>3 DEF Exists, ApiInv, TypeOK
<1> QED
  BY <1>1, <1>2, <1>3, <1>4, <1>5, RevokePreserves

LEMMA PasswordFindPreserves ==
    ASSUME ApiInv, NEW r \in Request, PasswordFind(r)
    PROVE  ApiInv' /\ Grows
<1>1. CASE Answer(r, 404) \/ Answer(r, 401)
  BY <1>1, AnswerMoves, ReadPreserves DEF PasswordFind, Status
<1>2. CASE Go(r, "password_update") /\ UNCHANGED req
  <2>1. Moved(r)
    BY <1>2 DEF PasswordFind, Moved, ApiInv, TypeOK, RequestOK, InputOK, LocalsOK, Signed,
                Label, BearerLabel, PasswordLabel, LockLabel, TargetLabel, InsertLabel
  <2> QED
    BY <2>1, ReadPreserves DEF PasswordFind
<1> QED
  BY <1>1, <1>2 DEF PasswordFind

LEMMA PasswordUpdatePreserves ==
    ASSUME ApiInv, NEW r \in Request, PasswordUpdate(r)
    PROVE  ApiInv' /\ Grows
<1>1. CASE Answer(r, 404)
  BY <1>1, AnswerMoves, ReadPreserves DEF PasswordUpdate, Status
<1>2. CASE Exists(req[r].user) /\ Go(r, "password_revoke") /\ UNCHANGED req
  <2>1. Exists(req[r].user)'
    BY <1>2 DEF PasswordUpdate, Exists
  <2>2. Moved(r)
    BY <1>2, <2>1 DEF PasswordUpdate, Moved, ApiInv, TypeOK, RequestOK, InputOK, LocalsOK,
                Signed, Label, BearerLabel, PasswordLabel, LockLabel, TargetLabel, InsertLabel
  <2> QED
    BY <2>2, ReadPreserves DEF PasswordUpdate
<1> QED
  BY <1>1, <1>2 DEF PasswordUpdate

LEMMA PasswordRevokePreserves ==
    ASSUME ApiInv, NEW r \in Request, PasswordRevoke(r)
    PROVE  ApiInv' /\ Grows
<1> DEFINE u == req[r].user
           K == LiveTokensOf(u)
           new == [req[r] EXCEPT !.revoking = K]
<1>0. /\ pc[r] = "password_revoke" /\ UNCHANGED <<db, tokens, clock>>
      /\ req' = [req EXCEPT ![r] = new] /\ Go(r, "password_commit")
  BY DEF PasswordRevoke
<1>1. req[r] \in Req /\ u \in UserId /\ Exists(u) /\ req[r].newPassword \in Password
  BY <1>0 DEF ApiInv, TypeOK, RequestOK, InputOK, LocalsOK, PasswordLabel, LockLabel
<1>2. K \in SUBSET Pair /\ \A k \in K : IsRow(k) /\ refreshTokens[k].userId = u
  BY DEF LiveTokensOf, Live
<1> HIDE DEF K
<1>3. new \in Req
  BY <1>1, <1>2, LocalsType
<1>4. new.user = u /\ new.revoking = K /\ new.newPassword = req[r].newPassword
  BY <1>1 DEF Req
<1> HIDE DEF new, u
<1>5. req' \in [Request -> Req] /\ req'[r] = new
  BY <1>0, <1>3 DEF ApiInv, TypeOK
<1>6. pc' \in [Request -> Label] /\ pc'[r] = "password_commit"
  BY <1>0 DEF Label, ApiInv, TypeOK
<1>7. InputOK(r)'
  BY <1>1, <1>4, <1>5, <1>6
     DEF InputOK, BearerLabel, PasswordLabel, LockLabel, TargetLabel
<1>8. LocalsOK(r)' /\ pc'[r] \notin InsertLabel
  BY <1>0, <1>1, <1>2, <1>4, <1>5, <1>6
     DEF LocalsOK, IsRow, Exists, InsertLabel, PasswordLabel, LockLabel
<1>9. Moved(r)
  BY <1>0, <1>5, <1>6, <1>7, <1>8 DEF Moved, ApiInv, TypeOK
<1> QED
  BY <1>0, <1>9, ReadPreserves

LEMMA PasswordCommitPreserves ==
    ASSUME ApiInv, NEW r \in Request, PasswordCommit(r)
    PROVE  ApiInv' /\ Grows
<1> DEFINE u == req[r].user
           hash == Digest[req[r].newPassword]
           K == req[r].revoking
<1>0. /\ UNCHANGED <<tokens, clock>> /\ pc[r] = "password_commit"
      /\ users' = [users EXCEPT ![u].passwordHash = hash]
      /\ refreshTokens' = WithRevoked(K)
      /\ Answer(r, 200)
  BY DEF PasswordCommit
<1>1. u \in UserId /\ hash \in Hash /\ Exists(u) /\ K \in SUBSET Pair
  BY <1>0, DigestType
     DEF ApiInv, TypeOK, Req, RequestOK, InputOK, LocalsOK, PasswordLabel, LockLabel
<1>2. users[u] \in UserRow
  BY <1>1 DEF Exists, ApiInv, TypeOK
<1>3. [users[u] EXCEPT !.passwordHash = hash] \in UserRow
  BY <1>1, <1>2 DEF UserRow
<1> HIDE DEF u, hash, K
<1>4. users' = [users EXCEPT ![u] = [users[u] EXCEPT !.passwordHash = hash]]
  BY <1>0 DEF ApiInv, TypeOK
<1>5. users' \in [UserId -> UserRow \cup {Absent, Deleted}]
  BY <1>1, <1>3, <1>4 DEF ApiInv, TypeOK
<1>6. \A v \in UserId : Exists(v) => Exists(v)'
  BY <1>1, <1>3, <1>4, NullsAssumption DEF Exists, ApiInv, TypeOK
<1>7. Moved(r)
  BY <1>0, AnswerMoves DEF Status
<1> QED
  BY <1>0, <1>1, <1>5, <1>6, <1>7, RevokePreserves DEF ApiInv, TypeOK

-----------------------------------------------------------------------------
(* The actions of UserService.                                             *)

LEMMA GetUserPreserves ==
    ASSUME ApiInv, NEW r \in Request, GetUser(r)
    PROVE  ApiInv' /\ Grows
<1> DEFINE status == IF Exists(req[r].target) THEN 200 ELSE 404
<1>1. status \in Status /\ Answer(r, status)
  BY DEF GetUser, Status
<1> HIDE DEF status
<1> QED
  BY <1>1, AnswerMoves, ReadPreserves DEF GetUser

LEMMA FindPreserves ==
    ASSUME ApiInv, NEW r \in Request, NEW found \in {"update_write", "delete_write"},
           pc[r] \in {"update_find", "delete_find"}, Find(r, found)
    PROVE  ApiInv' /\ Grows
<1>1. CASE Answer(r, 404)
  BY <1>1, AnswerMoves, ReadPreserves DEF Find, Status
<1>2. CASE Go(r, found) /\ UNCHANGED req
  <2>1. Moved(r)
    BY <1>2 DEF Find, Moved, ApiInv, TypeOK, RequestOK, InputOK, LocalsOK, Signed,
                Label, BearerLabel, PasswordLabel, LockLabel, TargetLabel, InsertLabel
  <2> QED
    BY <2>1, ReadPreserves DEF Find
<1> QED
  BY <1>1, <1>2 DEF Find

\* What PATCH makes of a row is a row.
LEMMA PatchedType ==
    ASSUME NEW row \in UserRow, NEW p \in Patch
    PROVE  Patched(row, p) \in UserRow
BY NullsAssumption DEF Patched, UserRow, Patch

LEMMA UpdateWritePreserves ==
    ASSUME ApiInv, NEW r \in Request, UpdateWrite(r)
    PROVE  ApiInv' /\ Grows
<1> DEFINE u == req[r].target
           new == Patched(users[u], req[r].patch)
<1>0. UNCHANGED <<refreshTokens, tokens, clock>> /\ pc[r] = "update_write"
  BY DEF UpdateWrite
<1>1. CASE (Answer(r, 404) \/ Answer(r, 409)) /\ UNCHANGED users
  BY <1>0, <1>1, AnswerMoves, ReadPreserves DEF Status
<1>2. CASE Exists(u) /\ users' = [users EXCEPT ![u] = new] /\ Answer(r, 200)
  <2>1. u \in UserId /\ req[r].patch \in Patch
    BY <1>0 DEF ApiInv, TypeOK, RequestOK, InputOK, TargetLabel, Req
  <2>2. users[u] \in UserRow
    BY <1>2, <2>1 DEF Exists, ApiInv, TypeOK
  <2>3. new \in UserRow
    BY <2>1, <2>2, PatchedType
  <2> HIDE DEF u, new
  <2>4. users' \in [UserId -> UserRow \cup {Absent, Deleted}]
    BY <1>2, <2>1, <2>3 DEF ApiInv, TypeOK
  <2>5. \A v \in UserId : Exists(v) => Exists(v)'
    BY <1>2, <2>1, <2>3, NullsAssumption DEF Exists, ApiInv, TypeOK
  <2>6. refreshTokens' = WithRevoked({}) /\ {} \in SUBSET Pair
    BY <1>0, RevokeNobody
  <2>7. Moved(r)
    BY <1>2, AnswerMoves DEF Status
  <2> QED
    BY <1>0, <2>4, <2>5, <2>6, <2>7, RevokePreserves DEF ApiInv, TypeOK
<1> QED
  BY <1>1, <1>2 DEF UpdateWrite

LEMMA DeleteWritePreserves ==
    ASSUME ApiInv, NEW r \in Request, DeleteWrite(r)
    PROVE  ApiInv' /\ Grows
<1> DEFINE u == req[r].target
<1>0. UNCHANGED <<tokens, clock>> /\ pc[r] = "delete_write"
  BY DEF DeleteWrite
<1>1. CASE Answer(r, 404) /\ UNCHANGED db
  BY <1>0, <1>1, AnswerMoves, ReadPreserves DEF Status
<1>2. CASE /\ users' = [users EXCEPT ![u] = Deleted]
           /\ refreshTokens' = Cascaded(u)
           /\ Answer(r, 204)
  <2>0. ~Locked(u)
    BY DEF DeleteWrite
  <2>1. u \in UserId
    BY <1>0 DEF ApiInv, RequestOK, InputOK, TargetLabel
  <2> HIDE DEF u
  <2>2. \A k \in Pair :
           refreshTokens'[k] = IF IsRow(k) /\ refreshTokens[k].userId = u
                               THEN Deleted ELSE refreshTokens[k]
    BY <1>2 DEF Cascaded
  <2>3. users' \in [UserId -> UserRow \cup {Absent, Deleted}]
    BY <1>2 DEF ApiInv, TypeOK
  <2>4. refreshTokens' \in [Pair -> TokenRow \cup {Absent, Deleted}]
    BY <1>2 DEF Cascaded, ApiInv, TypeOK
  <2>5. DataTypeOK'
    BY <1>0, <2>3, <2>4 DEF DataTypeOK, ApiInv, TypeOK
  <2>6. Grows
    BY <1>0, <2>2 DEF Grows, IsRow, ApiInv, TypeOK
  <2>7. Inserts(r)
    BY <2>2 DEF Inserts, IsRow
  <2>8. NoOrphanSession'
    <3> SUFFICES ASSUME NEW k \in Pair, IsRow(k)'
                 PROVE  Exists(refreshTokens[k].userId)'
      BY DEF NoOrphanSession, Exists
    <3>1. IsRow(k) /\ refreshTokens[k].userId # u /\ refreshTokens'[k] = refreshTokens[k]
      BY <2>2 DEF IsRow
    <3>2. refreshTokens[k].userId \in UserId
      BY <3>1 DEF IsRow, ApiInv, TypeOK, TokenRow
    <3> QED
      BY <1>2, <3>1, <3>2 DEF ApiInv, NoOrphanSession, Exists, TypeOK
  <2>9. Moved(r)
    BY <1>2, AnswerMoves DEF Status
  <2>10. LocksKept(r)
    <3> SUFFICES ASSUME NEW s \in Request \ {r}, pc[s] \in LockLabel
                 PROVE  /\ users'[req[s].user] \notin {Absent, Deleted}
                        /\ \A k \in Pair : IsRow(k) /\ refreshTokens[k].userId = req[s].user
                               => IsRow(k)'
      BY DEF LocksKept
    <3>1. req[s].user # u /\ req[s].user \in UserId
      BY <2>0 DEF Locked, LockLabel, PasswordLabel, ApiInv, RequestOK, LocalsOK
    <3>2. users'[req[s].user] = users[req[s].user] /\ Exists(req[s].user)
      BY <1>2, <3>1 DEF ApiInv, TypeOK, RequestOK, LocalsOK
    <3> QED
      BY <2>2, <3>1, <3>2 DEF Exists, IsRow
  <2> QED
    BY <2>5, <2>6, <2>7, <2>8, <2>9, <2>10, StepPreserves
<1> QED
  BY <1>1, <1>2 DEF DeleteWrite

-----------------------------------------------------------------------------
(* The invariant of the API.                                               *)

LEMMA NextPreserves ==
    ASSUME ApiInv, Next
    PROVE  ApiInv' /\ Grows
<1>1. CASE Tick
  BY <1>1, TickPreserves
<1>2. ASSUME NEW r \in Request, MiddlewareStep(r) PROVE ApiInv' /\ Grows
  BY <1>2, ReceivePreserves, AuthenticatePreserves, StoreErrorPreserves, RespondPreserves,
     DropPreserves DEF MiddlewareStep
<1>3. ASSUME NEW r \in Request, AuthStep(r) PROVE ApiInv' /\ Grows
  BY <1>3, RegisterFindPreserves, RegisterCreatePreserves, LoginFindPreserves,
     LoginComparePreserves, LoginCreatePreserves, RefreshFindPreserves,
     RefreshUserPreserves, RefreshCommitPreserves, LogoutRevokePreserves, LogoutBlacklistPreserves,
     PasswordFindPreserves, PasswordUpdatePreserves, PasswordRevokePreserves,
     PasswordCommitPreserves DEF AuthStep
<1>4. ASSUME NEW r \in Request, UserStep(r) PROVE ApiInv' /\ Grows
  <2>1. CASE GetUser(r)
    BY <2>1, GetUserPreserves
  <2>2. CASE UpdateFind(r)
    BY <2>2, FindPreserves DEF UpdateFind
  <2>3. CASE UpdateWrite(r)
    BY <2>3, UpdateWritePreserves
  <2>4. CASE DeleteFind(r)
    BY <2>4, FindPreserves DEF DeleteFind
  <2>5. CASE DeleteWrite(r)
    BY <2>5, DeleteWritePreserves
  <2> QED
    BY <1>4, <2>1, <2>2, <2>3, <2>4, <2>5 DEF UserStep
<1> QED
  BY <1>1, <1>2, <1>3, <1>4 DEF Next, Step

LEMMA InitEstablishes ==
    ASSUME Init
    PROVE  ApiInv
<1>1. TypeOK
  BY NoReqType, ConstantsAssumption DEF Init, TypeOK, Label
<1>2. RequestOK
  BY DEF Init, RequestOK, InputOK, LocalsOK, BearerLabel, PasswordLabel, LockLabel, TargetLabel, InsertLabel
<1>3. FreshOK /\ NoOrphanSession
  BY DEF Init, FreshOK, NoOrphanSession, IsRow, InsertLabel
<1> QED
  BY <1>1, <1>2, <1>3 DEF ApiInv

LEMMA StutterPreserves ==
    ASSUME ApiInv, UNCHANGED vars
    PROVE  ApiInv'
<1>1. TypeOK' /\ FreshOK' /\ NoOrphanSession'
  BY DEF vars, ApiInv, TypeOK, FreshOK, NoOrphanSession, IsRow, Exists
<1>2. RequestOK'
  BY DEF vars, ApiInv, RequestOK, InputOK, LocalsOK, Signed, IsRow, Exists
<1> QED
  BY <1>1, <1>2 DEF ApiInv

\* The invariant under which types are correct holds of every behaviour of the
\* API: any interleaving of any number of requests, with failed statements,
\* crashed instances and time passing anywhere.
THEOREM ApiInvariant == Spec => []ApiInv
<1>1. ApiInv /\ [Next]_vars => ApiInv'
  BY NextPreserves, StutterPreserves
<1> QED
  BY <1>1, InitEstablishes, PTL DEF Spec

\* Tables, tokens and requests keep their types, and every pair a client holds
\* was signed.
THEOREM TypeCorrect == Spec => []TypeOK
<1>1. ApiInv => TypeOK
  BY DEF ApiInv
<1> QED
  BY <1>1, ApiInvariant, PTL

\* No refresh token outlives its user: neither a login nor a rotation that was
\* in flight when deleteUser ran leaves one behind.
THEOREM OrphanFree == Spec => []NoOrphanSession
<1>1. ApiInv => NoOrphanSession
  BY DEF ApiInv
<1> QED
  BY <1>1, ApiInvariant, PTL

-----------------------------------------------------------------------------
(* Properties that need the history.                                       *)

\* A behaviour with history is a behaviour of the API: what is proved of Spec
\* holds of HSpec.
LEMMA HistoryRecords == HSpec => Spec
<1>1. HInit => Init
  BY DEF HInit
<1>2. [HNext]_hvars => [Next]_vars
  BY DEF HNext, Next, hvars, Step
<1> QED
  BY <1>1, <1>2, PTL DEF HSpec, Spec

\* No operation makes a revoked refresh token live again or brings back a
\* deleted one, whatever the interleaving of rotation, logout, changePassword
\* and deleteUser.
THEOREM RevocationFinal == HSpec => RevocationIsFinal
<1> DEFINE Final == \A k \in Pair :
              /\ refreshTokens[k] = Deleted => refreshTokens'[k] = Deleted
              /\ IsRow(k) /\ refreshTokens[k].isRevoked =>
                    \/ refreshTokens'[k] = Deleted
                    \/ refreshTokens'[k] = refreshTokens[k]
<1>1. ApiInv /\ [Next]_vars => [Final]_hvars
  <2>1. ASSUME ApiInv, Next PROVE Final
    BY <2>1, NextPreserves, NullsAssumption DEF Grows, IsRow
  <2>2. ASSUME ApiInv, UNCHANGED vars PROVE Final
    BY <2>2 DEF vars
  <2> QED
    BY <2>1, <2>2
<1>2. HSpec => [][Final]_hvars
  BY <1>1, HistoryRecords, ApiInvariant, PTL DEF Spec
<1> QED
  BY <1>2 DEF RevocationIsFinal

\* A step signs with the time it happens at, and only logout writes the
\* blacklist.
LEMMA SignedNow ==
    ASSUME ApiInv, NEW r \in Request, Step(r)
    PROVE  /\ clock' = clock
           /\ \A k \in Pair : jwt'[k] = jwt[k] \/ jwt'[k].iat = clock
           /\ blacklist' = blacklist \/ LogoutBlacklist(r)
<1>1. ASSUME NEW k \in Pair, NEW u, NEW role, Sign(k, u, role)
      PROVE  \A j \in Pair : jwt'[j] = jwt[j] \/ jwt'[j].iat = clock
  BY <1>1 DEF Sign, ApiInv, TypeOK
<1>2. CASE MiddlewareStep(r)
  BY <1>2 DEF MiddlewareStep, Receive, Authenticate, StoreError, Respond, Drop
<1>3. CASE UserStep(r)
  BY <1>3 DEF UserStep, GetUser, UpdateFind, UpdateWrite, DeleteFind, DeleteWrite, Find
<1>4. CASE RegisterCreate(r)
  BY <1>4, <1>1 DEF RegisterCreate
<1>5. CASE LoginCompare(r)
  BY <1>5, <1>1 DEF LoginCompare
<1>6. CASE RefreshFind(r) \/ RefreshUser(r)
  BY <1>6, <1>1 DEF RefreshFind, RefreshUser
<1>7. CASE LoginFind(r)
  BY <1>7, Zenon DEF LoginFind
<1>8. CASE \/ RegisterFind(r) \/ LoginCreate(r) \/ RefreshCommit(r) \/ LogoutRevoke(r)
           \/ LogoutBlacklist(r) \/ PasswordFind(r) \/ PasswordUpdate(r)
           \/ PasswordRevoke(r) \/ PasswordCommit(r)
  BY <1>8 DEF RegisterFind, LoginCreate, RefreshCommit, LogoutRevoke, LogoutBlacklist,
              PasswordFind, PasswordUpdate, PasswordRevoke, PasswordCommit
<1> QED
  BY <1>2, <1>3, <1>4, <1>5, <1>6, <1>7, <1>8 DEF Step, AuthStep

\* The label decides which of its actions a request can take.
LEMMA LabelDecides ==
    ASSUME NEW r \in Request, Step(r)
    PROVE  /\ pc[r] = "authenticate" => Authenticate(r) \/ StoreError(r) \/ Drop(r)
           /\ pc[r] = "logout_blacklist" => LogoutBlacklist(r) \/ StoreError(r) \/ Drop(r)
<1>1. CASE MiddlewareStep(r)
  BY <1>1 DEF MiddlewareStep, Receive, Authenticate, Respond
<1>2. CASE UserStep(r)
  BY <1>2 DEF UserStep, GetUser, UpdateFind, UpdateWrite, DeleteFind, DeleteWrite
<1>3. CASE AuthStep(r)
  <2>1. pc[r] \in {"register_find", "register_create", "login_find", "login_compare",
                   "login_create", "refresh_find", "refresh_user", "refresh_commit",
                   "logout_revoke", "password_find", "password_update", "password_revoke",
                   "password_commit"} \/ LogoutBlacklist(r)
    BY <1>3, Zenon DEF AuthStep, RegisterFind, RegisterCreate, LoginFind, LoginCompare,
       LoginCreate, RefreshFind, RefreshUser, RefreshCommit, LogoutRevoke, PasswordFind,
       PasswordUpdate, PasswordRevoke, PasswordCommit
  <2> QED
    BY <2>1 DEF LogoutBlacklist
<1> QED
  BY <1>1, <1>2, <1>3 DEF Step

\* Only the step that has set the key answers a logout with 200.
LEMMA LogoutAnswers ==
    ASSUME ApiInv, NEW r \in Request, Step(r), pc[r] = "logout_blacklist", req'[r].status = 200
    PROVE  LogoutBlacklist(r)
<1>1. CASE StoreError(r)
  BY <1>1 DEF StoreError, Answer, NoReq, ApiInv, TypeOK
<1>2. CASE Drop(r)
  BY <1>2, NullsAssumption DEF Drop, NoReq, Status, ApiInv, TypeOK
<1> QED
  BY <1>1, <1>2, LabelDecides

LEMMA LogoutInvPreserves ==
    ASSUME ACCESS_TOKEN_TTL >= AccessTTL, ApiInv, LogoutInv, HNext
    PROVE  LogoutInv'
<1>1. CASE Tick /\ UNCHANGED history
  BY <1>1 DEF Tick, history, LogoutInv, Signed, ApiInv, TypeOK, Claims
<1>2. ASSUME NEW r \in Request, Step(r), Record(r) PROVE LogoutInv'
  <2> DEFINE a == req[r].access
  <2>1. Grows /\ TypeOK'
    BY <1>2, NextPreserves DEF Next, ApiInv
  <2>2. \A k \in Pair : jwt'[k] # Absent => jwt'[k].iat \in Nat
    BY <2>1 DEF TypeOK, Claims
  <2>3. clock' = clock /\ clock \in Nat
    BY <1>2, SignedNow DEF ApiInv, TypeOK
  <2>4. \A k \in Pair : jwt'[k] # Absent => jwt'[k].iat <= clock'
    BY <1>2, <2>2, <2>3, SignedNow DEF LogoutInv
  <2>5. \A k \in Pair : Signed(k) => Signed(k)' /\ jwt'[k] = jwt[k]
    BY <2>1 DEF Grows, Signed
  <2>6. CASE LogoutBlacklist(r)
    <3>1. Signed(a) /\ a \in Pair
      BY <2>6 DEF LogoutBlacklist, ApiInv, RequestOK, InputOK, BearerLabel, Signed
    <3>2. blacklist' = [blacklist EXCEPT ![a] = clock + ACCESS_TOKEN_TTL]
      BY <2>6 DEF LogoutBlacklist, BlacklistExpiry
    <3>3. jwt[a].iat \in Nat /\ jwt[a].iat <= clock
      BY <3>1 DEF Signed, LogoutInv, ApiInv, TypeOK, Claims
    <3>4. jwt[a].iat + AccessTTL <= clock + ACCESS_TOKEN_TTL
      <4>1. AccessTTL \in Nat /\ ACCESS_TOKEN_TTL \in Nat
        BY ConstantsAssumption
      <4> QED
        BY <4>1, <3>3, <2>3
    <3>5. blacklist'[a] = clock + ACCESS_TOKEN_TTL
          /\ \A k \in Pair \ {a} : blacklist'[k] = blacklist[k]
      BY <3>1, <3>2 DEF ApiInv, TypeOK
    <3>6. loggedOut' \subseteq loggedOut \cup {a}
      BY <1>2 DEF Record
    <3> HIDE DEF a
    <3>7. ASSUME NEW k \in loggedOut'
          PROVE  /\ k \in Pair /\ jwt'[k] # Absent
                 /\ jwt'[k].iat + AccessTTL <= blacklist'[k]
      <4>1. CASE k = a
        BY <4>1, <3>1, <3>4, <3>5, <2>5 DEF Signed
      <4>2. CASE k # a
        <5>1. k \in loggedOut
          BY <4>2, <3>6, <3>7
        <5> QED
          BY <4>2, <5>1, <3>5, <2>5 DEF LogoutInv, Signed
      <4> QED
        BY <4>1, <4>2
    <3> QED
      BY <2>4, <3>7 DEF LogoutInv, Signed
  <2>7. CASE ~LogoutBlacklist(r)
    <3>1. blacklist' = blacklist
      BY <1>2, <2>7, SignedNow
    <3>2. loggedOut' = loggedOut
      BY <1>2, <2>7, LogoutAnswers DEF Record
    <3> QED
      BY <2>4, <2>5, <3>1, <3>2 DEF LogoutInv, Signed
  <2> QED
    BY <2>6, <2>7
<1> QED
  BY <1>1, <1>2 DEF HNext

LEMMA LogoutInvariant ==
    ASSUME ACCESS_TOKEN_TTL >= AccessTTL
    PROVE  HSpec => [](ApiInv /\ LogoutInv)
<1>1. HInit => LogoutInv
  BY DEF HInit, Init, LogoutInv
<1>2. ApiInv /\ LogoutInv /\ [HNext]_hvars => LogoutInv'
  <2>1. ASSUME LogoutInv, UNCHANGED hvars PROVE LogoutInv'
    BY <2>1 DEF hvars, vars, history, LogoutInv, Signed
  <2> QED
    BY <2>1, LogoutInvPreserves
<1> QED
  BY <1>1, <1>2, HistoryRecords, ApiInvariant, PTL DEF HSpec

\* If the blacklist key's fixed TTL is no shorter than the lifetime of access
\* tokens, a completed logout blacklists the token for as long as it lives.
\* The code states the hypothesis as a comment; the run ttl_mismatch shows
\* that the conclusion fails without it.
THEOREM LogoutFinal ==
    ASSUME ACCESS_TOKEN_TTL >= AccessTTL
    PROVE  HSpec => []LogoutIsFinal
<1>1. ApiInv /\ LogoutInv => LogoutIsFinal
  <2> SUFFICES ASSUME ApiInv, LogoutInv, NEW k \in loggedOut, clock < jwt[k].iat + AccessTTL
               PROVE  clock < blacklist[k]
    BY DEF LogoutIsFinal, Blacklisted
  <2>1. /\ k \in Pair /\ jwt[k].iat \in Nat /\ blacklist[k] \in Nat /\ clock \in Nat
        /\ jwt[k].iat + AccessTTL <= blacklist[k]
    BY DEF LogoutInv, Signed, ApiInv, TypeOK, Claims
  <2>2. AccessTTL \in Nat
    BY ConstantsAssumption
  <2> QED
    BY <2>1, <2>2
<1> QED
  BY <1>1, LogoutInvariant, PTL

\* A step of one request leaves the labels of the others.
LEMMA StepsKeepOthers ==
    ASSUME ApiInv, NEW r \in Request, NEW s \in Request, s # r, Step(s)
    PROVE  pc'[r] = pc[r]
<1> USE DEF Answer, AnswerWithTokens, ApiInv, TypeOK
<1>1. CASE MiddlewareStep(s)
  BY <1>1 DEF MiddlewareStep, Receive, Authenticate, StoreError, Respond, Drop
<1>2. CASE UserStep(s)
  BY <1>2 DEF UserStep, GetUser, UpdateFind, UpdateWrite, DeleteFind, DeleteWrite, Find
<1>3. CASE RegisterFind(s) \/ RegisterCreate(s)
  BY <1>3, ZenonT(30) DEF RegisterFind, RegisterCreate
<1>4. CASE LoginFind(s)
  <2>1. Go(s, "respond") \/ Go(s, "login_compare")
    BY <1>4, Zenon DEF LoginFind, Answer
  <2> QED
    BY <2>1
<1>5. CASE LoginCompare(s) \/ LoginCreate(s)
  BY <1>5 DEF LoginCompare, LoginCreate
<1>6. CASE RefreshFind(s) \/ RefreshUser(s) \/ RefreshCommit(s)
  BY <1>6, ZenonT(30) DEF RefreshFind, RefreshUser, RefreshCommit
<1>7. CASE LogoutRevoke(s) \/ LogoutBlacklist(s)
  BY <1>7 DEF LogoutRevoke, LogoutBlacklist
<1>8. CASE PasswordFind(s) \/ PasswordUpdate(s) \/ PasswordRevoke(s) \/ PasswordCommit(s)
  BY <1>8 DEF PasswordFind, PasswordUpdate, PasswordRevoke, PasswordCommit
<1> QED
  BY <1>1, <1>2, <1>3, <1>4, <1>5, <1>6, <1>7, <1>8 DEF Step, AuthStep

\* Under the same hypothesis, authenticate admits no request on an unexpired
\* access token whose logout is complete, although it verifies the token one
\* await before it reads the blacklist.
THEOREM LogoutRefuses ==
    ASSUME ACCESS_TOKEN_TTL >= AccessTTL
    PROVE  HSpec => LoggedOutIsRefused
<1> DEFINE Refuses == \A r \in Request :
              (/\ At(r, "authenticate") /\ req[r].access \in loggedOut
               /\ AccessValid(req[r].access) /\ pc'[r] \notin {"authenticate", "idle"})
                  => pc'[r] = "respond" /\ req'[r].status \in {401, 500}
<1>1. ApiInv /\ LogoutIsFinal /\ [HNext]_hvars => [Refuses]_hvars
  <2> SUFFICES ASSUME ApiInv, LogoutIsFinal, HNext, NEW r \in Request,
                      pc[r] = "authenticate", req[r].access \in loggedOut,
                      AccessValid(req[r].access), pc'[r] \notin {"authenticate", "idle"}
               PROVE  pc'[r] = "respond" /\ req'[r].status \in {401, 500}
    BY DEF hvars
  <2>1. Blacklisted(req[r].access)
    BY DEF LogoutIsFinal, AccessValid
  <2>2. CASE Tick
    BY <2>2 DEF Tick
  <2>3. ASSUME NEW s \in Request, s # r, Step(s) PROVE pc'[r] = pc[r]
    BY <2>3, StepsKeepOthers
  <2>4. CASE Step(r)
    <3>1. Authenticate(r) \/ StoreError(r) \/ Drop(r)
      BY <2>4, LabelDecides
    <3>2. CASE Authenticate(r)
      BY <2>1, <3>2 DEF Authenticate, Answer, NoReq, ApiInv, TypeOK
    <3>3. CASE StoreError(r)
      BY <3>3 DEF StoreError, Answer, NoReq, ApiInv, TypeOK
    <3>4. CASE Drop(r)
      BY <3>4 DEF Drop, ApiInv, TypeOK
    <3> QED
      BY <3>1, <3>2, <3>3, <3>4
  <2> QED
    BY <2>2, <2>3, <2>4 DEF HNext
<1>2. HSpec => [][Refuses]_hvars
  BY <1>1, LogoutInvariant, LogoutFinal, PTL DEF HSpec
<1> QED
  BY <1>2 DEF LoggedOutIsRefused

=============================================================================
