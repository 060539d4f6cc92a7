----------------------------- MODULE Middleware -----------------------------
(***************************************************************************)
(* What surrounds the services: requests arrive, the middleware chain      *)
(* admits or refuses them, errors become responses, responses reach the    *)
(* client or are lost with the instance, and time passes.                  *)
(***************************************************************************)
EXTENDS ApiState

\* The tokens a client can present: those of the responses it got, and any
\* other string, which None stands for.
Known == held \cup {None}

\* A body or a path that the route's schema refuses; me has no schema.
MalformedInputs ==
    {[NoReq EXCEPT !.op = b.op, !.access = b.access, !.malformed = TRUE] :
        b \in [op : BearerOps \ {"me"}, access : Known]}
    \cup {[NoReq EXCEPT !.op = op, !.malformed = TRUE] : op \in PublicOps}

\* Bodies that pass the schemas.  register's lowers the username.
RegisterInputs ==
    {[NoReq EXCEPT !.op = "register", !.email = b.email, !.username = Lower[b.username],
                   !.password = b.password] :
        b \in [email : Email, username : Username, password : Password]}

LoginInputs ==
    {[NoReq EXCEPT !.op = "login", !.email = b.email, !.password = b.password] :
        b \in [email : Email, password : Password]}

RefreshInputs == {[NoReq EXCEPT !.op = "refresh", !.refresh = t] : t \in Known}

MeInputs == {[NoReq EXCEPT !.op = "me", !.access = a] : a \in Known}

LogoutInputs ==
    {[NoReq EXCEPT !.op = "logout", !.access = b.access, !.refresh = b.refresh] :
        b \in [access : Known, refresh : Known]}

\* changePasswordSchema refuses a new password that is the current one.
ChangePasswordInputs ==
    {[NoReq EXCEPT !.op = "changePassword", !.access = b.access,
                   !.password = b.currentPassword, !.newPassword = b.newPassword] :
        b \in {c \in [access : Known, currentPassword : Password, newPassword : Password] :
                  c.currentPassword # c.newPassword}}

UserIdInputs ==
    {[NoReq EXCEPT !.op = b.op, !.access = b.access, !.target = b.id] :
        b \in [op : {"getUserById", "deleteUser"}, access : Known, id : UserId]}

UpdateInputs ==
    {[NoReq EXCEPT !.op = "updateUser", !.access = b.access, !.target = b.id, !.patch = b.patch] :
        b \in [access : Known, id : UserId, patch : Patches]}

Inputs ==
    RegisterInputs \cup LoginInputs \cup RefreshInputs \cup MeInputs \cup LogoutInputs
        \cup ChangePasswordInputs \cup UserIdInputs \cup UpdateInputs
        \cup MalformedInputs

\* The first statement of the service behind each route.
FirstStatement(op) ==
    CASE op = "register"       -> "register_find"
      [] op = "login"          -> "login_find"
      [] op = "refresh"        -> "refresh_find"
      [] op = "logout"         -> "logout_revoke"
      [] op = "changePassword" -> "password_find"
      [] op = "getUserById"    -> "user_find"
      [] op = "updateUser"     -> "update_find"
      [] op = "deleteUser"     -> "delete_find"

\* On the public routes validate comes first.
RefusedBody(q) == q.op \in PublicOps /\ q.malformed

\* Signature and expiry of the token that the route verifies are checked
\* before the first await.
Refused(q) ==
    \/ q.op \in BearerOps /\ ~AccessValid(q.access)
    \/ q.op = "refresh" /\ ~RefreshValid(q.refresh)

\* A request arrives, and runs to its first statement.
Receive(r) ==
    /\ At(r, "idle")
    /\ \E q \in Inputs :
          /\ q.op \in Ops
          /\ \/ /\ RefusedBody(q)
                /\ Answer(r, 422)
             \/ /\ ~RefusedBody(q) /\ Refused(q)
                /\ Answer(r, 401)
             \/ /\ ~RefusedBody(q) /\ ~Refused(q)
                /\ Go(r, IF q.op \in BearerOps THEN "authenticate" ELSE FirstStatement(q.op))
                /\ req' = [req EXCEPT ![r] = q]
    /\ UNCHANGED <<db, tokens, clock>>

\* authenticate's GET on the blacklist, then authorize, then validate.  The
\* claims, not the user's row, say who asks; only logout uses the token again.
Authenticate(r) ==
    LET q == req[r]
        claims == jwt[q.access]
    IN  /\ At(r, "authenticate")
        /\ \/ /\ Blacklisted(q.access)
              /\ Answer(r, 401)
           \/ /\ ~Blacklisted(q.access)
              /\ q.op \in AdminOps
              /\ claims.role # "ADMIN"
              /\ Answer(r, 403)
           \/ /\ ~Blacklisted(q.access)
              /\ q.op \in AdminOps => claims.role = "ADMIN"
              /\ q.malformed
              /\ Answer(r, 422)
           \/ /\ ~Blacklisted(q.access)
              /\ q.op = "me"
              /\ Answer(r, 200)
           \/ /\ ~Blacklisted(q.access)
              /\ q.op \in AdminOps => claims.role = "ADMIN"
              /\ ~q.malformed
              /\ q.op # "me"
              /\ Go(r, FirstStatement(q.op))
              /\ req' = [req EXCEPT ![r] =
                     [q EXCEPT !.user = claims.sub,
                               !.access = IF q.op = "logout" THEN @ ELSE None]]
        /\ UNCHANGED <<db, tokens, clock>>

\* PostgreSQL or Redis fails the statement: errorHandler answers 500.
StoreError(r) ==
    /\ pc[r] \notin {"idle", "respond", "login_compare"}
    /\ Answer(r, 500)
    /\ UNCHANGED <<db, tokens, clock>>

\* The response reaches the client, with the tokens it carries.
Respond(r) ==
    /\ At(r, "respond")
    /\ held' = held \cup ({req[r].pair} \ {None})
    /\ Go(r, "idle")
    /\ req' = [req EXCEPT ![r] = NoReq]
    /\ UNCHANGED <<db, blacklist, jwt, clock>>

\* The instance dies, or shutdown's 10 seconds are over: what the request
\* has done so far stays done, and no response arrives.
Drop(r) ==
    /\ ~At(r, "idle")
    /\ Go(r, "idle")
    /\ req' = [req EXCEPT ![r] = NoReq]
    /\ UNCHANGED <<db, tokens, clock>>

Tick ==
    /\ clock < MaxClock
    /\ clock' = clock + 1
    /\ UNCHANGED <<db, tokens, pc, req>>

MiddlewareStep(r) ==
    \/ Receive(r) \/ Authenticate(r) \/ StoreError(r) \/ Respond(r) \/ Drop(r)

=============================================================================
