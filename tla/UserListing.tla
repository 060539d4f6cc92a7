----------------------------- MODULE UserListing -----------------------------
(***************************************************************************)
(* getUsers: a client walks through the pages of the user list while other *)
(* requests register, rename, promote and delete users.                    *)
(*                                                                         *)
(* The page and the count are two statements of one transaction, and under *)
(* READ COMMITTED each sees what was committed when it began.              *)
(***************************************************************************)
EXTENDS Integers, FiniteSets

CONSTANTS
    User,       \* primary keys
    Name,       \* usernames, numbered in the order of the column
    Seed,       \* table users at the start
    Queries,    \* the queries that clients send
    MaxTime,    \* bound on time
    MaxWrites,  \* bound on the writes during the walk
    Absent,     \* no row
    None        \* a filter that is not set

Role == {"USER", "ADMIN"}

Row == [username : Name, createdAt : 0 .. MaxTime, role : Role]

\* The email column is unique like username, so that one of them will do;
\* search stands for the usernames that contain it.
Query == [sortBy : {"username", "createdAt"}, sortOrder : {"asc", "desc"},
          role : Role \cup {None}, search : SUBSET Name, limit : Nat \ {0}]

ASSUME ListingAssumption ==
    /\ Name \subseteq Nat
    /\ MaxTime \in Nat \ {0} /\ MaxWrites \in Nat
    /\ Seed \in [User -> Row \cup {Absent}]
    /\ IsFiniteSet({u \in User : Seed[u] # Absent})
    /\ Queries \subseteq Query

VARIABLES
    rows,       \* table users
    now,        \* PostgreSQL's clock, for createdAt
    query,      \* the client's query
    page,       \* the page it asks for
    step,       \* what its request does next
    listed,     \* the page's users, when they have been read
    total,      \* the count, when it has been taken
    seen,       \* how often the walk has met each user
    writes      \* how many writes there have been

\* What happened during the walk, for the properties.
VARIABLES
    stable,     \* the users that matched all the time and kept their sort key
    lost,       \* those that a user before them has left
    gained,     \* those before which a user has come
    tied,       \* those that shared their sort key with another user
    quiet       \* no write since the page was read

walk == <<query, page, step, listed, total, seen>>
history == <<stable, lost, gained, tied, quiet>>
uvars == <<rows, now, writes, walk, history>>

-----------------------------------------------------------------------------
(* The query.                                                              *)

\* The where clause.
Matching(table) ==
    {u \in User : /\ table[u] # Absent
                  /\ query.role # None => table[u].role = query.role
                  /\ table[u].username \in query.search}

\* Mutant: the count ignores the filters.
CountedAll(table) == {u \in User : table[u] # Absent}

\* The count has the where clause of the page.
Counted(table) == Matching(table)

Key(table, u) == IF query.sortBy = "username" THEN table[u].username ELSE table[u].createdAt

Before(table, u, v) ==
    /\ {u, v} \subseteq Matching(table)
    /\ IF query.sortOrder = "asc" THEN Key(table, u) < Key(table, v)
                                  ELSE Key(table, u) > Key(table, v)

Least(m, n) == IF m < n THEN m ELSE n

\* Mutant: pages are counted from zero.
SkipWholePages == page * query.limit

\* Mutant: the page overlaps the one before it.
SkipTooFew == IF page = 1 THEN 0 ELSE (page - 1) * query.limit - 1

Skip == (page - 1) * query.limit

\* What LIMIT and OFFSET may return: users with nothing before them but the
\* skipped ones and each other.  Users with the same key come in any order,
\* and in another one for each statement.
PossiblePages(table) ==
    LET M == Matching(table)
    IN  {S \in SUBSET M : \E B \in SUBSET (M \ S) :
            /\ Cardinality(B) = Least(Skip, Cardinality(M))
            /\ Cardinality(S) = Least(query.limit, Cardinality(M) - Cardinality(B))
            /\ \A u \in M \ B, v \in B : ~Before(table, u, v)
            /\ \A u \in M \ (B \cup S), v \in S : ~Before(table, u, v)}

TotalPages == (total + query.limit - 1) \div query.limit

-----------------------------------------------------------------------------

Ties(table) ==
    {u \in Matching(table) : \E v \in Matching(table) \ {u} : Key(table, u) = Key(table, v)}

UInit ==
    /\ rows = Seed
    /\ now = 1
    /\ writes = 0
    /\ query \in Queries
    /\ page = 1
    /\ step = "list"
    /\ listed = {}
    /\ total = 0
    /\ seen = [u \in User |-> 0]
    /\ stable = Matching(rows)
    /\ lost = {}
    /\ gained = {}
    /\ tied = Ties(rows)
    /\ quiet = TRUE

\* The first statement: findMany.
ListPage ==
    /\ step = "list"
    /\ listed' \in PossiblePages(rows)
    /\ step' = "count"
    /\ quiet' = TRUE
    /\ UNCHANGED <<rows, now, writes, query, page, total, seen, stable, lost, gained, tied>>

\* The second statement: count, with the same where.
ListCount ==
    /\ step = "count"
    /\ total' = Cardinality(Counted(rows))
    /\ step' = "respond"
    /\ UNCHANGED <<rows, now, writes, query, page, listed, seen, history>>

\* The response arrives, and the client asks for the next page if there is one.
Receive ==
    /\ step = "respond"
    /\ seen' = [u \in User |-> IF u \in listed THEN seen[u] + 1 ELSE seen[u]]
    /\ \/ /\ page < TotalPages
          /\ page' = page + 1
          /\ step' = "list"
       \/ /\ page >= TotalPages
          /\ page' = page
          /\ step' = "done"
    /\ UNCHANGED <<rows, now, writes, query, listed, total, history>>

\* A statement fails, or the response is lost, and the client asks again.
AskAgain ==
    /\ step \in {"count", "respond"}
    /\ step' = "list"
    /\ UNCHANGED <<rows, now, writes, query, page, listed, total, seen, history>>

\* Another request's write, and what it does to the walk.
Write(table) ==
    /\ step # "done"
    /\ writes < MaxWrites
    /\ writes' = writes + 1
    /\ rows' = table
    /\ stable' = {u \in stable : u \in Matching(table) /\ Key(table, u) = Key(rows, u)}
    /\ lost' = lost \cup {v \in User : \E u \in User : Before(rows, u, v) /\ ~Before(table, u, v)}
    /\ gained' = gained \cup {v \in User : \E u \in User : ~Before(rows, u, v) /\ Before(table, u, v)}
    /\ tied' = tied \cup Ties(table)
    /\ quiet' = FALSE
    /\ UNCHANGED <<now, walk>>

FreeName(n) == \A u \in User : rows[u] # Absent => rows[u].username # n

RegisterUser(u, n) ==
    /\ rows[u] = Absent
    /\ FreeName(n)
    /\ Write([rows EXCEPT ![u] = [username |-> n, createdAt |-> now, role |-> "USER"]])

RenameUser(u, n) ==
    /\ rows[u] # Absent
    /\ FreeName(n)
    /\ Write([rows EXCEPT ![u].username = n])

SetRole(u, role) ==
    /\ rows[u] # Absent
    /\ rows[u].role # role
    /\ Write([rows EXCEPT ![u].role = role])

DeleteUser(u) ==
    /\ rows[u] # Absent
    /\ Write([rows EXCEPT ![u] = Absent])

Tick ==
    /\ step # "done"
    /\ now < MaxTime
    /\ now' = now + 1
    /\ UNCHANGED <<rows, writes, walk, history>>

UNext ==
    \/ ListPage \/ ListCount \/ Receive \/ AskAgain \/ Tick
    \/ \E u \in User :
          \/ \E n \in Name : RegisterUser(u, n) \/ RenameUser(u, n)
          \/ \E role \in Role : SetRole(u, role)
          \/ DeleteUser(u)

USpec == UInit /\ [][UNext]_uvars

-----------------------------------------------------------------------------

\* The walk misses a user that was there all the time only if a user listed
\* before it has left, or ties made the order of the pages change.
NoneMissed == \A u \in stable : step = "done" /\ seen[u] = 0 => u \in lost \cup tied

\* It meets such a user twice only if a user has come before it, or for ties.
NoneRepeated == \A u \in stable : seen[u] > 1 => u \in gained \cup tied

\* A page holds as many users as its own meta says, and none beyond the last
\* page, unless a write fell between the two statements.
PageMatchesTotal ==
    (step = "respond" /\ quiet) =>
        Cardinality(listed) = Least(query.limit, total - Least(Skip, total))

=============================================================================
