------------------------------- MODULE TxLocks -------------------------------
(***************************************************************************)
(* The row locks that the transactions of AuthService and UserService      *)
(* take, and which of them PostgreSQL can find waiting for each other.     *)
(*                                                                         *)
(* The lock modes are PostgreSQL's: an UPDATE takes NoKeyUpdate, or Update *)
(* if it changes a column with a unique index; a DELETE takes Update; the  *)
(* foreign key of an insert takes KeyShare on the row it refers to.  A new *)
(* entry of a unique index waits while the row with the same value is      *)
(* being updated or deleted; it then holds nobody up: mode Name.           *)
(***************************************************************************)
EXTENDS FiniteSets

CONSTANTS
    Txn,        \* transactions in progress
    User,       \* rows of users
    Token,      \* rows of refresh_tokens
    Owner,      \* refresh_tokens.user_id
    None        \* no row

ASSUME LocksAssumption ==
    /\ Owner \in [Token -> User]
    /\ User \cap Token = {}
    /\ None \notin User \cup Token

VARIABLES
    op,         \* what each transaction is for
    held,       \* the locks it has taken
    gone        \* the rows that were deleted

kvars == <<op, held, gone>>

Mode == {"KeyShare", "NoKeyUpdate", "Update", "Name"}

Lock == (User \cup Token) \X Mode

\* Pairs of a mode that is held and one that waits for it.
Conflict ==
    ({"Update"} \X Mode)
        \cup ({"KeyShare", "NoKeyUpdate"} \X {"Update"})
        \cup ({"NoKeyUpdate"} \X {"NoKeyUpdate", "Name"})

\* The statements in transactions: for one token, for one user, and the
\* change of a user's name to a free one or to one that another user has.
Op ==
    [kind : {"rotate", "logout"}, row : Token, other : {None}]
        \cup [kind : {"login", "update", "changePassword", "delete"}, row : User, other : {None}]
        \cup {o \in [kind : {"rename"}, row : User, other : User \cup {None}] : o.row # o.other}

NoOp == [kind |-> "none", row |-> None, other |-> None]

TokensOf(u) == {t \in Token : Owner[t] = u}

Idle(x) == op[x] = NoOp

KInit ==
    /\ op = [x \in Txn |-> NoOp]
    /\ held = [x \in Txn |-> {}]
    /\ gone = {}

-----------------------------------------------------------------------------
(* The locks of an operation's first statement, and those of its second or *)
(* of what its first goes on to: the cascade and the unique index.         *)

\* refreshTokens: the update of the old token, then the insert of the new one.
RotateLocks(t) == <<{<<t, "NoKeyUpdate">>}, {<<Owner[t], "KeyShare">>}>>

\* Mutant: the tokens are revoked before the password is changed.
PasswordLocksTokensFirst(u) == <<TokensOf(u) \X {"NoKeyUpdate"}, {<<u, "NoKeyUpdate">>}>>

\* changePassword: the user, then all its tokens.
PasswordLocks(u) == <<{<<u, "NoKeyUpdate">>}, TokensOf(u) \X {"NoKeyUpdate"}>>

\* deleteUser: the user, then by cascade all its tokens.
DeleteLocks(u) == <<{<<u, "Update">>}, TokensOf(u) \X {"Update"}>>

\* updateUser with a username: the user, then the index entry, which waits for
\* whoever updates the user that has the name.
RenameLocks(u, v) == <<{<<u, "Update">>}, ({v} \ {None}) \X {"Name"}>>

\* login's insert, logout's update, and updateUser without a username.
OneLock(row, mode) == <<{<<row, mode>>}, {}>>

Locks(o) ==
    IF o.kind = "rotate" THEN RotateLocks(o.row)
    ELSE IF o.kind = "changePassword" THEN PasswordLocks(o.row)
    ELSE IF o.kind = "delete" THEN DeleteLocks(o.row)
    ELSE IF o.kind = "rename" THEN RenameLocks(o.row, o.other)
    ELSE OneLock(o.row, IF o.kind = "login" THEN "KeyShare" ELSE "NoKeyUpdate")

First(o) == Locks(o)[1]

Second(o) == Locks(o)[2]

\* The locks a transaction is out for.  A statement takes them one by one, in
\* an order that nothing fixes.
Wanted(x) ==
    IF Idle(x) THEN {}
    ELSE IF First(op[x]) \subseteq held[x] THEN Second(op[x]) \ held[x]
    ELSE First(op[x]) \ held[x]

\* Transaction y holds what keeps x from taking the lock.
Blocks(y, lock, x) ==
    y # x /\ \E other \in held[y] : other[1] = lock[1] /\ <<other[2], lock[2]>> \in Conflict

WaitsFor(x, y) == \E lock \in Wanted(x) : Blocks(y, lock, x)

-----------------------------------------------------------------------------

Begin(x) ==
    /\ Idle(x)
    /\ \E o \in Op : op' = [op EXCEPT ![x] = o]
    /\ UNCHANGED <<held, gone>>

Take(x) ==
    /\ \E lock \in Wanted(x) :
          /\ lock[1] \notin gone
          /\ \A y \in Txn : ~Blocks(y, lock, x)
          /\ held' = [held EXCEPT ![x] = @ \cup {lock}]
    /\ UNCHANGED <<op, gone>>

End(x) ==
    /\ op' = [op EXCEPT ![x] = NoOp]
    /\ held' = [held EXCEPT ![x] = {}]

Commit(x) ==
    /\ ~Idle(x)
    /\ Wanted(x) = {} \/ (op[x].kind = "rename" /\ op[x].other \in gone /\ held[x] = First(op[x]))
    /\ gone' = IF op[x].kind = "delete" THEN gone \cup {op[x].row} \cup TokensOf(op[x].row) ELSE gone
    /\ End(x)

\* A row is gone, a value taken, the client's process dead, Prisma's timeout
\* over, or the transaction is PostgreSQL's victim of a deadlock.
Rollback(x) == ~Idle(x) /\ End(x) /\ UNCHANGED gone

KNext == \E x \in Txn : Begin(x) \/ Take(x) \/ Commit(x) \/ Rollback(x)

KSpec == KInit /\ [][KNext]_kvars

-----------------------------------------------------------------------------

LockTypeOK ==
    /\ op \in [Txn -> Op \cup {NoOp}]
    /\ held \in [Txn -> SUBSET Lock]
    /\ gone \in SUBSET (User \cup Token)

\* What a transaction holds are locks of its operation, the second statement's
\* only after the first's, and no two transactions hold locks that conflict.
LocksInv ==
    /\ LockTypeOK
    /\ \A x \in Txn :
          IF Idle(x) THEN held[x] = {}
          ELSE \/ held[x] \subseteq First(op[x])
               \/ /\ First(op[x]) \subseteq held[x]
                  /\ held[x] \subseteq First(op[x]) \cup Second(op[x])
    /\ \A x, y \in Txn : \A lock \in held[x] : lock[2] # "Name" => ~Blocks(y, lock, x)

\* Each of these transactions waits for another one of them.
Stuck(S) == S # {} /\ \A x \in S : \E y \in S : WaitsFor(x, y)

Deadlock(S) == Stuck(S) /\ \A R \in SUBSET S : Stuck(R) => R = S

\* Deleting a user can deadlock with the rotation of one of its tokens, and
\* changes of usernames with each other, if each wants a name that another one
\* gives up.  Nothing else can: not logins, logouts and changes of passwords,
\* with rotations or deletions, however many there are.
KnownDeadlocks ==
    \A S \in SUBSET Txn :
        Deadlock(S) =>
            \/ \A x \in S : op[x].kind = "rename"
            \/ \E x, y \in S :
                  /\ S = {x, y}
                  /\ op[x].kind = "delete" /\ op[y].kind = "rotate"
                  /\ Owner[op[y].row] = op[x].row

=============================================================================
