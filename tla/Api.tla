-------------------------------- MODULE Api --------------------------------
(***************************************************************************)
(* The API: requests in flight, on any number of instances, interleave     *)
(* the statements of AuthService and UserService over one PostgreSQL and   *)
(* one Redis.                                                              *)
(***************************************************************************)
EXTENDS Middleware, AuthService, UserService

Init ==
    /\ users = Seed
    /\ refreshTokens = [k \in Pair |-> Absent]
    /\ blacklist = [k \in Pair |-> 0]
    /\ jwt = [k \in Pair |-> Absent]
    /\ held = {}
    /\ clock = 0
    /\ pc = [r \in Request |-> "idle"]
    /\ req = [r \in Request |-> NoReq]

Step(r) == MiddlewareStep(r) \/ AuthStep(r) \/ UserStep(r)

Next == Tick \/ \E r \in Request : Step(r)

Spec == Init /\ [][Next]_vars

\* Every variable keeps its type; what a client holds has been signed.
TypeOK ==
    /\ users \in [UserId -> UserRow \cup {Absent, Deleted}]
    /\ refreshTokens \in [Pair -> TokenRow \cup {Absent, Deleted}]
    /\ blacklist \in [Pair -> Nat]
    /\ jwt \in [Pair -> Claims \cup {Absent}]
    /\ held \in SUBSET {k \in Pair : jwt[k] # Absent}
    /\ clock \in Nat
    /\ pc \in [Request -> Label]
    /\ req \in [Request -> Req]

-----------------------------------------------------------------------------
(* What a request holds at each label: the strengthening under which the   *)
(* types are inductive.                                                    *)

Signed(k) == k \in Pair /\ jwt[k] # Absent

PasswordLabel == {"password_find", "password_update", "password_revoke", "password_commit"}

BearerLabel == {"authenticate", "logout_revoke", "logout_blacklist"}

\* Where the change of password holds the user's row.
LockLabel == {"password_revoke", "password_commit"}

TargetLabel == {"user_find", "update_find", "update_write", "delete_find", "delete_write"}

InsertLabel == {"login_create", "refresh_commit"}

\* The input a label reads is there.
InputOK(r) ==
    LET q == req[r] IN
    /\ pc[r] = "authenticate" =>
           /\ q.op \in BearerOps
           /\ q.op = "changePassword" /\ ~q.malformed => q.newPassword \in Password
           /\ q.op \in {"getUserById"} \cup AdminOps /\ ~q.malformed => q.target \in UserId
    /\ pc[r] \in BearerLabel => Signed(q.access)
    /\ pc[r] \in {"register_find", "register_create"} =>
           q.email \in Email /\ q.username \in Username /\ q.password \in Password
    /\ pc[r] \in {"refresh_find", "refresh_user", "refresh_commit"} => Signed(q.refresh)
    /\ pc[r] \in PasswordLabel => q.newPassword \in Password
    /\ pc[r] \in TargetLabel => q.target \in UserId

\* So is what the request has read or made since.  The row that refreshTokens
\* has read may be deleted by the time it is revoked, but it changes no owner;
\* the rows that changePassword has selected stay, since their user's is locked.
LocalsOK(r) ==
    LET q == req[r] IN
    /\ pc[r] \in {"login_compare", "refresh_user", "logout_revoke", "logout_blacklist"}
                 \cup InsertLabel \cup PasswordLabel => q.user \in UserId
    /\ pc[r] = "login_compare" => q.row \in UserRow
    /\ pc[r] = "refresh_user" => q.stored \in TokenRow
    /\ pc[r] \in InsertLabel => Signed(q.pair) /\ refreshTokens[q.pair] = Absent
    /\ pc[r] = "respond" => q.pair = None \/ Signed(q.pair)
    /\ pc[r] \in {"refresh_user", "refresh_commit"} =>
           /\ refreshTokens[q.refresh] # Absent
           /\ IsRow(q.refresh) => refreshTokens[q.refresh].userId = q.user
    /\ pc[r] \in LockLabel => Exists(q.user)
    /\ pc[r] = "password_commit" =>
           \A k \in q.revoking : IsRow(k) /\ refreshTokens[k].userId = q.user

RequestOK == \A r \in Request : InputOK(r) /\ LocalsOK(r)

\* No refresh token outlives its user, although login inserts it for a user it
\* has read before bcrypt.
NoOrphanSession ==
    \A k \in Pair : IsRow(k) => Exists(refreshTokens[k].userId)

\* Every refresh token is signed before it is stored, and no two requests are
\* about to store the same one.
FreshOK ==
    /\ \A k \in Pair : jwt[k] = Absent => refreshTokens[k] = Absent
    /\ \A r, s \in Request :
          (r # s /\ pc[r] \in InsertLabel /\ pc[s] \in InsertLabel)
              => req[r].pair # req[s].pair

ApiInv == TypeOK /\ RequestOK /\ FreshOK /\ NoOrphanSession

=============================================================================
