----------------------------- MODULE UserService -----------------------------
(***************************************************************************)
(* The operations of UserService on one user, one action per statement     *)
(* they await.  updateUser and deleteUser look first and write second.     *)
(***************************************************************************)
EXTENDS ApiState

\* findUnique by id: the row goes into the response, or a 404.
GetUser(r) ==
    /\ At(r, "user_find")
    /\ Answer(r, IF Exists(req[r].target) THEN 200 ELSE 404)
    /\ UNCHANGED <<db, tokens, clock>>

\* The check that updateUser and deleteUser begin with.
Find(r, found) ==
    /\ \/ /\ ~Exists(req[r].target)
          /\ Answer(r, 404)
       \/ /\ Exists(req[r].target)
          /\ Go(r, found)
          /\ UNCHANGED req
    /\ UNCHANGED <<db, tokens, clock>>

UpdateFind(r) == At(r, "update_find") /\ Find(r, "update_write")

\* Mutant: a field the body does not set is stored as null.
PatchedWithNulls(row, p) ==
    [row EXCEPT !.username = p.username, !.isActive = p.isActive, !.role = p.role]

\* The fields a body sets; the schema does not lower this username.
Patched(row, p) ==
    [row EXCEPT !.username = IF p.username = None THEN @ ELSE p.username,
                !.isActive = IF p.isActive = None THEN @ ELSE p.isActive,
                !.role     = IF p.role = None THEN @ ELSE p.role]

\* updateUser's update.  The row may be gone (P2025), the name taken (P2002).
UpdateWrite(r) ==
    LET u == req[r].target
        new == Patched(users[u], req[r].patch)
    IN  /\ At(r, "update_write")
        /\ ~Locked(u)
        /\ \/ /\ ~Exists(u)
              /\ Answer(r, 404)
              /\ UNCHANGED users
           \/ /\ Exists(u)
              /\ UniqueViolation(u, new.email, new.username)
              /\ Answer(r, 409)
              /\ UNCHANGED users
           \/ /\ Exists(u)
              /\ ~UniqueViolation(u, new.email, new.username)
              /\ users' = [users EXCEPT ![u] = new]
              /\ Answer(r, 200)
        /\ UNCHANGED <<refreshTokens, tokens, clock>>

DeleteFind(r) == At(r, "delete_find") /\ Find(r, "delete_write")

\* ON DELETE CASCADE on refresh_tokens.user_id.
Cascaded(u) ==
    [k \in Pair |-> IF IsRow(k) /\ refreshTokens[k].userId = u
                    THEN Deleted ELSE refreshTokens[k]]

\* deleteUser's delete.  The row may be gone (P2025).
DeleteWrite(r) ==
    LET u == req[r].target
    IN  /\ At(r, "delete_write")
        /\ ~Locked(u)
        /\ \/ /\ ~Exists(u)
              /\ Answer(r, 404)
              /\ UNCHANGED db
           \/ /\ Exists(u)
              /\ users' = [users EXCEPT ![u] = Deleted]
              /\ refreshTokens' = Cascaded(u)
              /\ Answer(r, 204)
        /\ UNCHANGED <<tokens, clock>>

UserStep(r) ==
    \/ GetUser(r)
    \/ UpdateFind(r) \/ UpdateWrite(r)
    \/ DeleteFind(r) \/ DeleteWrite(r)

=============================================================================
