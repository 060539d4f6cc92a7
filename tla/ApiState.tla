------------------------------ MODULE ApiState ------------------------------
(***************************************************************************)
(* The state the API's handlers share: the PostgreSQL tables, the Redis    *)
(* blacklist, the tokens that were signed, and the requests in flight.     *)
(*                                                                         *)
(* A handler runs without interruption between two awaits, so an action    *)
(* is one such segment together with the one statement it awaits.  The     *)
(* label pc[r] names the statement request r has to execute next.          *)
(*                                                                         *)
(* Every place that signs tokens signs an access and a refresh token       *)
(* together, with a fresh jti each; a member of Pair stands for both.      *)
(***************************************************************************)
EXTENDS Naturals

CONSTANTS
    UserId,             \* primary keys of table users
    Email,              \* addresses, as the schemas' toLowerCase leaves them
    Username,           \* names as a client types them
    Lower,              \* toLowerCase on Username
    Password,           \* passwords the password schema accepts
    Digest,             \* what bcrypt keeps of a password (72 bytes of it)
    Request,            \* slots for requests in flight, on any instance
    Pair,               \* numbers for token pairs, given out in order
    MaxClock,           \* bound on time
    AccessTTL,          \* JWT_ACCESS_EXPIRES_IN
    RefreshTTL,         \* JWT_REFRESH_EXPIRES_IN
    ACCESS_TOKEN_TTL,   \* ACCESS_TOKEN_TTL_SECONDS, the blacklist key's TTL
    REFRESH_TOKEN_TTL,  \* REFRESH_TOKEN_TTL_MS, for the row's expiresAt
    Seed,               \* table users at the start
    Ops,                \* the operations that clients ask for
    Patches,            \* the bodies of PATCH /users/:id that clients send
    None,               \* an absent field
    Absent,             \* no row (or token) has been created under this key
    Deleted             \* the row under this key was deleted

Role == {"USER", "MODERATOR", "ADMIN"}

Hash == {Digest[p] : p \in Password}

UserRow == [email : Email, username : Username, passwordHash : Hash,
            role : Role, isActive : BOOLEAN]

TokenRow == [userId : UserId, expiresAt : Nat, isRevoked : BOOLEAN]

\* The claims of a pair.  The access and the refresh token have one iat,
\* and they differ in secret, type and lifetime.
Claims == [sub : UserId, role : Role, iat : Nat]

Patch == [username : Username \cup {None}, isActive : BOOLEAN \cup {None},
          role : Role \cup {None}]

\* updateUserSchema refuses a body that sets no field.
NoPatch == [username |-> None, isActive |-> None, role |-> None]

PublicOps == {"register", "login", "refresh"}
AdminOps == {"updateUser", "deleteUser"}
BearerOps == {"me", "logout", "changePassword", "getUserById"} \cup AdminOps

Status == {200, 201, 204, 401, 403, 404, 409, 422, 500}

Label == {"idle", "authenticate", "respond",
          "register_find", "register_create",
          "login_find", "login_compare", "login_create",
          "refresh_find", "refresh_user", "refresh_commit",
          "logout_revoke", "logout_blacklist",
          "password_find", "password_update", "password_revoke", "password_commit",
          "user_find",
          "update_find", "update_write", "delete_find", "delete_write"}

Req == [op : PublicOps \cup BearerOps \cup {None},
        access : Pair \cup {None},        \* the bearer token
        refresh : Pair \cup {None},       \* refreshToken of the body
        email : Email \cup {None},
        username : Username \cup {None},
        password : Password \cup {None},  \* password or currentPassword
        newPassword : Password \cup {None},
        target : UserId \cup {None},      \* :id of the path
        patch : Patch,
        malformed : BOOLEAN,              \* a field that the route's schema refuses
        user : UserId \cup {None},        \* req.user.id, or the id of the row found
        row : UserRow \cup {None},        \* the user row login has read
        stored : TokenRow \cup {None},    \* the token row refreshTokens has read
        revoking : SUBSET Pair,           \* the token rows changePassword has selected
        pair : Pair \cup {None},          \* the pair it has signed, or answers with
        status : Status \cup {None}]      \* the response's status

NoReq == [op |-> None, access |-> None, refresh |-> None, email |-> None,
          username |-> None, password |-> None, newPassword |-> None,
          target |-> None, patch |-> NoPatch, malformed |-> FALSE,
          user |-> None, row |-> None, stored |-> None, revoking |-> {},
          pair |-> None, status |-> None]

ASSUME ConstantsAssumption ==
    /\ Pair \subseteq Nat
    /\ {MaxClock, AccessTTL, RefreshTTL, ACCESS_TOKEN_TTL, REFRESH_TOKEN_TTL} \subseteq Nat
    /\ Lower \in [Username -> Username]
    /\ Digest \in [Password -> Hash]
    /\ Seed \in [UserId -> UserRow \cup {Absent}]
    /\ Patches \subseteq Patch \ {NoPatch}
    /\ Ops \subseteq PublicOps \cup BearerOps

\* The seeded rows respect the unique indexes.
ASSUME SeedAssumption ==
    \A u, v \in UserId :
        (u # v /\ Seed[u] # Absent /\ Seed[v] # Absent)
            => Seed[u].email # Seed[v].email /\ Seed[u].username # Seed[v].username

ASSUME NullsAssumption ==
    /\ Absent # Deleted
    /\ {Absent, Deleted} \cap (UserRow \cup TokenRow \cup Claims) = {}
    /\ None \notin Pair \cup Email \cup Username \cup Password \cup UserId
                   \cup UserRow \cup BOOLEAN \cup Role \cup Status

VARIABLES
    users,          \* table users
    refreshTokens,  \* table refresh_tokens, by token
    blacklist,      \* Redis keys blacklist:<jti>, by their time of expiry
    jwt,            \* the claims of the pairs signed so far
    held,           \* the pairs that a response has delivered
    clock,          \* the time, common to Node.js, PostgreSQL and Redis
    pc,             \* where each request stands
    req             \* its input, what it has read, and its response

db == <<users, refreshTokens>>
tokens == <<blacklist, jwt, held>>
vars == <<users, refreshTokens, blacklist, jwt, held, clock, pc, req>>

-----------------------------------------------------------------------------
(* The tables and their constraints.                                       *)

Exists(u) == users[u] \notin {Absent, Deleted}

IsRow(k) == refreshTokens[k] \notin {Absent, Deleted}

Live(k) == IsRow(k) /\ ~refreshTokens[k].isRevoked

\* A user other than u has this email or this username.
Taken(u, email, username) ==
    \E v \in UserId \ {u} :
        Exists(v) /\ (users[v].email = email \/ users[v].username = username)

\* Mutant: the columns have no unique index.
NoUniqueIndex(u, email, username) == FALSE

\* What the unique indexes refuse (P2002).
UniqueViolation(u, email, username) == Taken(u, email, username)

\* Mutant: refresh_tokens.user_id references nothing.
NoForeignKey(u) == TRUE

\* What the foreign key of refresh_tokens asks of an insert (P2003 otherwise).
ForeignKey(u) == Exists(u)

NewTokenRow(u, now) ==
    [userId |-> u, expiresAt |-> now + REFRESH_TOKEN_TTL, isRevoked |-> FALSE]

\* updateMany with isRevoked: true, over the rows of the set K.
WithRevoked(K) ==
    [k \in Pair |-> IF k \in K /\ IsRow(k)
                    THEN [refreshTokens[k] EXCEPT !.isRevoked = TRUE]
                    ELSE refreshTokens[k]]

\* A change of password has updated the row and not yet committed.  Another
\* write to the row waits; an insert that references it does not, since the
\* update leaves the key alone.
Locked(u) ==
    \E r \in Request : pc[r] \in {"password_revoke", "password_commit"} /\ req[r].user = u

-----------------------------------------------------------------------------
(* Tokens and passwords.                                                   *)

\* jwt.verify on an access token: the signature, and exp, which has passed
\* as soon as the clock shows it.
AccessValid(k) == k \in Pair /\ jwt[k] # Absent /\ clock < jwt[k].iat + AccessTTL

RefreshValid(k) == k \in Pair /\ jwt[k] # Absent /\ clock < jwt[k].iat + RefreshTTL

\* Every jti is a fresh UUID: which unused number stands for it is immaterial.
Unused(k) == jwt[k] = Absent /\ \A j \in Pair : jwt[j] = Absent => k <= j

Sign(k, u, role) == jwt' = [jwt EXCEPT ![k] = [sub |-> u, role |-> role, iat |-> clock]]

Matches(password, hash) == Digest[password] = hash

\* Mutant: the blacklist is not asked.
BlacklistNotAsked(k) == FALSE

Blacklisted(k) == clock < blacklist[k]

-----------------------------------------------------------------------------
(* Moving a request on, and answering it.                                  *)

At(r, label) == pc[r] = label

Go(r, label) == pc' = [pc EXCEPT ![r] = label]

\* The handler is over, and of its locals the response is what remains.
Answer(r, status) ==
    /\ Go(r, "respond")
    /\ req' = [req EXCEPT ![r] = [NoReq EXCEPT !.status = status]]

AnswerWithTokens(r, status, k) ==
    /\ Go(r, "respond")
    /\ req' = [req EXCEPT ![r] = [NoReq EXCEPT !.status = status, !.pair = k]]

=============================================================================
