---------------------------- MODULE ListingProofs ----------------------------
(***************************************************************************)
(* What a walk through the pages of the user list misses and repeats.      *)
(*                                                                         *)
(* The heart of it is PageHolds: a user whose sort key no other user has   *)
(* is on a page if and only if the number of users before it says so.  The *)
(* walk's pages follow each other, so that only a change of that number    *)
(* between two pages makes it miss the user or meet it twice.              *)
(***************************************************************************)
EXTENDS UserListing, FiniteSetTheorems, TLAPS

-----------------------------------------------------------------------------
(* The inductive invariant.                                                *)

ListingTypeOK ==
    /\ rows \in [User -> Row \cup {Absent}]
    /\ IsFiniteSet({u \in User : rows[u] # Absent})
    /\ now \in 0 .. MaxTime
    /\ query \in Query
    /\ page \in Nat \ {0}
    /\ step \in {"list", "count", "respond", "done"}
    /\ listed \in SUBSET User
    /\ total \in Nat
    /\ seen \in [User -> Nat]
    /\ writes \in Nat

\* The users that the query lists before u.
Ahead(u) == {v \in User : Before(rows, v, u)}

\* The rank from which the next page starts.
PageEnd == page * query.limit

HistoryOK ==
    /\ stable \subseteq Matching(rows)
    /\ Ties(rows) \subseteq tied

\* A user that the walk has not met is on a later page, or on this one.
MissInv ==
    \A u \in stable \ (lost \cup tied) :
        seen[u] = 0 =>
            /\ step # "done"
            /\ Cardinality(Ahead(u)) >= Skip
            /\ step \in {"count", "respond"} /\ u \notin listed => Cardinality(Ahead(u)) >= PageEnd
            /\ step = "respond" /\ u \notin listed => total > PageEnd

\* A user that the walk has met was on an earlier page.
RepeatInv ==
    \A u \in stable \ (gained \cup tied) :
        /\ seen[u] <= 1
        /\ step # "done" /\ seen[u] = 1 => Cardinality(Ahead(u)) < Skip
        /\ step \in {"count", "respond"} /\ u \in listed =>
               seen[u] = 0 /\ Cardinality(Ahead(u)) < PageEnd

\* Without a write since, the page is one of those that the table allows.
QuietInv ==
    /\ step \in {"count", "respond"} /\ quiet => listed \in PossiblePages(rows)
    /\ step = "respond" /\ quiet => total = Cardinality(Matching(rows))

\* Before the first write nothing has happened to the walk.
NoWriteInv ==
    writes = 0 =>
        /\ stable = Matching(rows) /\ lost = {} /\ gained = {}
        /\ step \in {"count", "respond"} => listed \subseteq Matching(rows)
        /\ \A u \in User \ Matching(rows) : seen[u] = 0

\* As long as nobody writes and no two users share a sort key, the walk meets
\* every user of the query once and nobody else.
QuietWalkIsExact ==
    step = "done" /\ writes = 0 /\ tied = {} =>
        \A u \in User : seen[u] = IF u \in Matching(rows) THEN 1 ELSE 0

ListingInv == ListingTypeOK /\ HistoryOK /\ MissInv /\ RepeatInv /\ QuietInv /\ NoWriteInv

-----------------------------------------------------------------------------
(* Pages and their numbers.                                                *)

LEMMA PageArithmetic ==
    ASSUME NEW p \in Nat \ {0}, NEW l \in Nat \ {0}
    PROVE  /\ p * l \in Nat /\ (p - 1) * l \in Nat
           /\ p * l = (p - 1) * l + l
           /\ ((p + 1) - 1) * l = p * l
  OBVIOUS

LEMMA MorePages ==
    ASSUME NEW t \in Nat, NEW p \in Nat \ {0}, NEW l \in Nat \ {0}, t > p * l
    PROVE  p < (t + l - 1) \div l
  OBVIOUS

-----------------------------------------------------------------------------
(* The order of the users.                                                 *)

LEMMA MatchingFinite ==
    ASSUME ListingTypeOK
    PROVE  /\ IsFiniteSet(Matching(rows))
           /\ \A S \in SUBSET Matching(rows) : IsFiniteSet(S) /\ Cardinality(S) \in Nat
  <1>1. Matching(rows) \in SUBSET {u \in User : rows[u] # Absent}
    BY DEF Matching
  <1>2. IsFiniteSet(Matching(rows))
    BY <1>1, FS_Subset DEF ListingTypeOK
  <1> QED BY <1>2, FS_Subset, FS_CardinalityType

LEMMA KeyType ==
    ASSUME ListingTypeOK, NEW u \in Matching(rows)
    PROVE  Key(rows, u) \in Nat
  <1>1. rows[u] \in Row
    BY DEF ListingTypeOK, Matching
  <1>2. rows[u].username \in Nat /\ rows[u].createdAt \in Nat
    <2>1. rows[u].username \in Name /\ rows[u].createdAt \in 0 .. MaxTime
      BY <1>1 DEF Row
    <2>2. Name \subseteq Nat /\ MaxTime \in Nat
      BY ListingAssumption
    <2>3. rows[u].username \in Nat
      BY <2>1, <2>2
    <2>4. rows[u].createdAt \in Nat
      BY <2>1, <2>2
    <2> QED BY <2>3, <2>4
  <1> QED BY <1>2 DEF Key

AheadOK ==
    \A u \in Matching(rows) :
        /\ Ahead(u) \subseteq Matching(rows) \ {u}
        /\ IsFiniteSet(Ahead(u)) /\ Cardinality(Ahead(u)) \in Nat
        /\ Cardinality(Ahead(u)) < Cardinality(Matching(rows))

LEMMA AheadFacts == ListingTypeOK => AheadOK
  <1> SUFFICES ASSUME ListingTypeOK, NEW u \in Matching(rows)
               PROVE  /\ Ahead(u) \subseteq Matching(rows) \ {u}
                      /\ IsFiniteSet(Ahead(u)) /\ Cardinality(Ahead(u)) \in Nat
                      /\ Cardinality(Ahead(u)) < Cardinality(Matching(rows))
    BY DEF AheadOK
  <1>1. ~ Before(rows, u, u)
    BY KeyType DEF Before
  <1>2. Ahead(u) \subseteq Matching(rows) \ {u}
    BY <1>1 DEF Ahead, Before
  <1>3. IsFiniteSet(Matching(rows)) /\ IsFiniteSet(Ahead(u)) /\ Cardinality(Ahead(u)) \in Nat
    BY <1>2, MatchingFinite
  <1>4. Cardinality(Ahead(u)) <= Cardinality(Matching(rows)) /\ Ahead(u) # Matching(rows)
    BY <1>2, <1>3, FS_Subset
  <1>5. Cardinality(Ahead(u)) # Cardinality(Matching(rows))
    BY <1>2, <1>3, <1>4, FS_Subset
  <1>6. Cardinality(Matching(rows)) \in Nat
    BY <1>3, FS_CardinalityType
  <1> QED BY <1>2, <1>3, <1>4, <1>5, <1>6

LEMMA AheadFactsPrime == ListingTypeOK' => AheadOK'
  BY AheadFacts, PTL

\* A user without ties is before or after each other user.
LEMMA Untied ==
    ASSUME ListingTypeOK, NEW u \in Matching(rows) \ Ties(rows),
           NEW v \in Matching(rows) \ {u}
    PROVE  Before(rows, v, u) <=> ~ Before(rows, u, v)
  <1>1. Key(rows, u) # Key(rows, v)
    BY DEF Ties
  <1>2. Key(rows, u) \in Nat /\ Key(rows, v) \in Nat
    BY KeyType
  <1> QED BY <1>1, <1>2 DEF Before

\* Whichever page LIMIT and OFFSET return, a user without ties is on it if and
\* only if the number of users before it is one of the page's ranks.
LEMMA PageHolds ==
    ASSUME ListingTypeOK, NEW S \in PossiblePages(rows),
           NEW u \in Matching(rows) \ Ties(rows)
    PROVE  u \in S <=> Skip <= Cardinality(Ahead(u)) /\ Cardinality(Ahead(u)) < PageEnd
  <1> DEFINE M == Matching(rows)
             A == Ahead(u)
  <1>1. PICK B \in SUBSET (M \ S) :
            /\ Cardinality(B) = Least(Skip, Cardinality(M))
            /\ Cardinality(S) = Least(query.limit, Cardinality(M) - Cardinality(B))
            /\ \A w \in M \ B, v \in B : ~Before(rows, w, v)
            /\ \A w \in M \ (B \cup S), v \in S : ~Before(rows, w, v)
    BY DEF PossiblePages
  <1>2. S \subseteq M /\ B \subseteq M /\ B \cap S = {}
    BY DEF PossiblePages
  <1>3. /\ Skip \in Nat /\ PageEnd \in Nat /\ query.limit \in Nat /\ PageEnd = Skip + query.limit
    BY PageArithmetic DEF ListingTypeOK, Query, Skip, PageEnd
  <1>4. /\ IsFiniteSet(M) /\ IsFiniteSet(A) /\ IsFiniteSet(B) /\ IsFiniteSet(S)
        /\ Cardinality(M) \in Nat /\ Cardinality(A) \in Nat
        /\ Cardinality(B) \in Nat /\ Cardinality(S) \in Nat
    BY <1>2, MatchingFinite, AheadFacts DEF AheadOK
  <1>5. A \subseteq M \ {u} /\ Cardinality(A) < Cardinality(M)
    BY AheadFacts DEF AheadOK
  <1>6. IsFiniteSet(B \cup S) /\ Cardinality(B \cup S) = Cardinality(B) + Cardinality(S)
    <2>1. Cardinality(B \cap S) = 0
      BY <1>2, FS_EmptySet
    <2> HIDE DEF M, A
    <2>2. /\ IsFiniteSet(B \cup S)
          /\ Cardinality(B \cup S) = Cardinality(B) + Cardinality(S) - Cardinality(B \cap S)
      BY <1>4, FS_Union
    <2> QED BY <2>1, <2>2, <1>4
  <1>7. \A v \in M \ {u} : v \in A <=> ~ Before(rows, u, v)
    BY Untied DEF Ahead, Matching
  <1>8. CASE u \in S
    <2>1. B \subseteq A
      BY <1>1, <1>2, <1>7, <1>8
    <2>2. Cardinality(B) <= Cardinality(A)
      BY <2>1, <1>4, FS_Subset
    <2>3. Skip <= Cardinality(A)
      BY <2>2, <1>1, <1>3, <1>4, <1>5 DEF Least
    <2>4. A \subseteq B \cup S /\ A # B \cup S
      BY <1>1, <1>2, <1>5, <1>8 DEF Ahead, Before
    <2>5. Cardinality(A) < Cardinality(B \cup S)
      BY <2>4, <1>4, <1>6, FS_Subset
    <2>6. Cardinality(B) <= Skip /\ Cardinality(S) <= query.limit
      BY <1>1, <1>3, <1>4 DEF Least
    <2> QED BY <1>3, <1>4, <1>6, <1>8, <2>3, <2>5, <2>6
  <1>9. CASE u \notin S
    <2> SUFFICES ASSUME Skip <= Cardinality(A) PROVE PageEnd <= Cardinality(A)
      BY <1>3, <1>4, <1>9
    <2>1. Cardinality(B) = Skip
      BY <1>1, <1>3, <1>4, <1>5 DEF Least
    <2>2. u \notin B
      <3> SUFFICES ASSUME u \in B PROVE FALSE
        OBVIOUS
      <3>1. A \subseteq B /\ A # B
        BY <1>1, <1>5 DEF Ahead, Before
      <3> QED BY <3>1, <2>1, <1>3, <1>4, FS_Subset
    <2>3. B \cup S \subseteq M \ {u}
      BY <1>2, <1>9, <2>2
    <2>4. B \cup S \subseteq A
      BY <1>1, <1>7, <1>9, <2>2, <2>3
    <2>5. Cardinality(B \cup S) <= Cardinality(A)
      BY <2>4, <1>4, FS_Subset
    <2>6. Cardinality(S) = query.limit
      BY <2>1, <2>5, <1>1, <1>3, <1>4, <1>5, <1>6 DEF Least
    <2> QED BY <2>1, <2>5, <2>6, <1>3, <1>6
  <1> QED BY <1>8, <1>9

-----------------------------------------------------------------------------
(* The invariant holds at the start, and writes keep it.                   *)

LEMMA ListingInvInit == UInit => ListingInv
  <1> SUFFICES ASSUME UInit PROVE ListingInv
    OBVIOUS
  <1>1. ListingTypeOK
    BY ListingAssumption DEF UInit, ListingTypeOK
  <1>2. Skip = 0
    BY <1>1 DEF UInit, Skip, ListingTypeOK, Query
  <1>3. HistoryOK /\ QuietInv /\ NoWriteInv
    BY DEF UInit, HistoryOK, QuietInv, NoWriteInv, Matching
  <1>4. ASSUME NEW u \in stable PROVE seen[u] = 0 /\ Cardinality(Ahead(u)) >= Skip
    <2>1. u \in Matching(rows) /\ u \in User
      BY <1>4 DEF UInit, Matching
    <2> QED BY <2>1, <1>1, <1>2, AheadFacts DEF UInit, AheadOK
  <1>5. MissInv /\ RepeatInv
    BY <1>4 DEF UInit, MissInv, RepeatInv
  <1> QED BY <1>1, <1>3, <1>5 DEF ListingInv

\* While a user's sort key stays, a write changes the number of users before
\* it only as lost and gained record.
LEMMA WriteMovesUsers ==
    ASSUME HistoryOK, ListingTypeOK, ListingTypeOK',
           NEW table, Write(table), NEW u \in stable'
    PROVE  /\ u \notin lost' => Cardinality(Ahead(u)) <= Cardinality(Ahead(u)')
           /\ u \notin gained' => Cardinality(Ahead(u)') <= Cardinality(Ahead(u))
           /\ Cardinality(Ahead(u)) \in Nat /\ Cardinality(Ahead(u)') \in Nat
  <1>1. /\ rows' = table /\ query' = query
        /\ Matching(rows)' = Matching(table)
    BY DEF Write, walk, Matching
  <1>2. /\ Ahead(u) = {v \in User : Before(rows, v, u)}
        /\ Ahead(u)' = {v \in User : Before(table, v, u)}
    BY <1>1 DEF Ahead, Before, Key
  <1>3. u \in Matching(rows) /\ u \in Matching(rows)' /\ u \in User
    BY <1>1 DEF Write, HistoryOK, Matching
  <1>4. /\ IsFiniteSet(Ahead(u)) /\ Cardinality(Ahead(u)) \in Nat
        /\ IsFiniteSet(Ahead(u)') /\ Cardinality(Ahead(u)') \in Nat
    BY <1>3, AheadFacts, AheadFactsPrime DEF AheadOK
  <1>5. ASSUME u \notin lost' PROVE Cardinality(Ahead(u)) <= Cardinality(Ahead(u)')
    <2>1. Ahead(u) \subseteq Ahead(u)'
      BY <1>2, <1>3, <1>5 DEF Write
    <2> QED BY <2>1, <1>4, FS_Subset
  <1>6. ASSUME u \notin gained' PROVE Cardinality(Ahead(u)') <= Cardinality(Ahead(u))
    <2>1. Ahead(u)' \subseteq Ahead(u)
      BY <1>2, <1>3, <1>6 DEF Write
    <2> QED BY <2>1, <1>4, FS_Subset
  <1> QED BY <1>4, <1>5, <1>6

LEMMA WriteOK ==
    ASSUME ListingInv, NEW table \in [User -> Row \cup {Absent}],
           IsFiniteSet({u \in User : table[u] # Absent}), Write(table)
    PROVE  ListingInv'
  <1>1. /\ rows' = table /\ UNCHANGED <<now, query, page, step, listed, total, seen>>
        /\ Matching(rows)' = Matching(table) /\ Ties(rows)' = Ties(table)
        /\ stable' \subseteq stable /\ stable' \subseteq Matching(table)
        /\ lost \subseteq lost' /\ gained \subseteq gained' /\ tied \cup Ties(table) = tied'
    BY DEF Write, walk, Matching, Ties, Key
  <1>2. ListingTypeOK'
    BY <1>1 DEF Write, ListingInv, ListingTypeOK
  <1>3. HistoryOK'
    BY <1>1 DEF HistoryOK
  <1>4. QuietInv' /\ NoWriteInv'
    BY DEF Write, ListingInv, ListingTypeOK, QuietInv, NoWriteInv
  <1>5. /\ Skip' = Skip /\ PageEnd' = PageEnd
        /\ Skip \in Nat /\ PageEnd \in Nat
    BY <1>1, PageArithmetic DEF Skip, PageEnd, ListingInv, ListingTypeOK, Query
  <1>6. MissInv'
    <2> SUFFICES ASSUME NEW u \in stable' \ (lost' \cup tied'), seen[u] = 0
                 PROVE  /\ step # "done"
                        /\ Cardinality(Ahead(u)') >= Skip
                        /\ step \in {"count", "respond"} /\ u \notin listed =>
                               Cardinality(Ahead(u)') >= PageEnd
                        /\ step = "respond" /\ u \notin listed => total > PageEnd
      BY <1>1, <1>5 DEF MissInv
    <2>1. u \in stable \ (lost \cup tied)
      BY <1>1
    <2>2. /\ Cardinality(Ahead(u)) <= Cardinality(Ahead(u)')
          /\ Cardinality(Ahead(u)) \in Nat /\ Cardinality(Ahead(u)') \in Nat
      BY <1>2, WriteMovesUsers DEF ListingInv
    <2> QED BY <2>1, <2>2, <1>5 DEF ListingInv, MissInv
  <1>7. RepeatInv'
    <2> SUFFICES ASSUME NEW u \in stable' \ (gained' \cup tied')
                 PROVE  /\ seen[u] <= 1
                        /\ step # "done" /\ seen[u] = 1 => Cardinality(Ahead(u)') < Skip
                        /\ step \in {"count", "respond"} /\ u \in listed =>
                               seen[u] = 0 /\ Cardinality(Ahead(u)') < PageEnd
      BY <1>1, <1>5 DEF RepeatInv
    <2>1. u \in stable \ (gained \cup tied)
      BY <1>1
    <2>2. /\ Cardinality(Ahead(u)') <= Cardinality(Ahead(u))
          /\ Cardinality(Ahead(u)) \in Nat /\ Cardinality(Ahead(u)') \in Nat
      BY <1>2, WriteMovesUsers DEF ListingInv
    <2> QED BY <2>1, <2>2, <1>5 DEF ListingInv, RepeatInv
  <1> QED BY <1>2, <1>3, <1>4, <1>6, <1>7 DEF ListingInv

LEMMA FiniteWithOne ==
    ASSUME ListingTypeOK, NEW u \in User, NEW table,
           \A v \in User \ {u} : table[v] = rows[v]
    PROVE  IsFiniteSet({v \in User : table[v] # Absent})
  <1> DEFINE There == {v \in User : rows[v] # Absent}
  <1>1. IsFiniteSet(There \cup {u})
    BY FS_AddElement DEF ListingTypeOK
  <1>2. {v \in User : table[v] # Absent} \in SUBSET (There \cup {u})
    OBVIOUS
  <1> QED BY <1>1, <1>2, FS_Subset

LEMMA RegisterUserOK ==
    ASSUME ListingInv, NEW u \in User, NEW n \in Name, RegisterUser(u, n)
    PROVE  ListingInv'
  <1> DEFINE new == [username |-> n, createdAt |-> now, role |-> "USER"]
             table == [rows EXCEPT ![u] = new]
  <1>1. new \in Row
    BY DEF Row, Role, ListingInv, ListingTypeOK
  <1>2. rows \in [User -> Row \cup {Absent}] /\ Write(table)
    BY DEF ListingInv, ListingTypeOK, RegisterUser
  <1> HIDE DEF new
  <1>3. table \in [User -> Row \cup {Absent}] /\ \A v \in User \ {u} : table[v] = rows[v]
    BY <1>1, <1>2
  <1>4. IsFiniteSet({v \in User : table[v] # Absent})
    BY <1>3, FiniteWithOne DEF ListingInv
  <1> HIDE DEF table
  <1> QED BY <1>2, <1>3, <1>4, WriteOK

LEMMA RenameUserOK ==
    ASSUME ListingInv, NEW u \in User, NEW n \in Name, RenameUser(u, n)
    PROVE  ListingInv'
  <1> DEFINE new == [rows[u] EXCEPT !.username = n]
             table == [rows EXCEPT ![u] = new]
  <1>1. rows \in [User -> Row \cup {Absent}] /\ rows[u] \in Row
    BY DEF ListingInv, ListingTypeOK, RenameUser
  <1>2. new \in Row
    BY <1>1 DEF Row
  <1>3. Write(table)
    BY DEF RenameUser
  <1> HIDE DEF new
  <1>4. table \in [User -> Row \cup {Absent}] /\ \A v \in User \ {u} : table[v] = rows[v]
    BY <1>1, <1>2
  <1>5. IsFiniteSet({v \in User : table[v] # Absent})
    BY <1>4, FiniteWithOne DEF ListingInv
  <1> HIDE DEF table
  <1> QED BY <1>3, <1>4, <1>5, WriteOK

LEMMA SetRoleOK ==
    ASSUME ListingInv, NEW u \in User, NEW role \in Role, SetRole(u, role)
    PROVE  ListingInv'
  <1> DEFINE new == [rows[u] EXCEPT !.role = role]
             table == [rows EXCEPT ![u] = new]
  <1>1. rows \in [User -> Row \cup {Absent}] /\ rows[u] \in Row
    BY DEF ListingInv, ListingTypeOK, SetRole
  <1>2. new \in Row
    BY <1>1 DEF Row
  <1>3. Write(table)
    BY DEF SetRole
  <1> HIDE DEF new
  <1>4. table \in [User -> Row \cup {Absent}] /\ \A v \in User \ {u} : table[v] = rows[v]
    BY <1>1, <1>2
  <1>5. IsFiniteSet({v \in User : table[v] # Absent})
    BY <1>4, FiniteWithOne DEF ListingInv
  <1> HIDE DEF table
  <1> QED BY <1>3, <1>4, <1>5, WriteOK

LEMMA DeleteUserOK ==
    ASSUME ListingInv, NEW u \in User, DeleteUser(u)
    PROVE  ListingInv'
  <1> DEFINE table == [rows EXCEPT ![u] = Absent]
  <1>1. rows \in [User -> Row \cup {Absent}] /\ Write(table)
    BY DEF ListingInv, ListingTypeOK, DeleteUser
  <1>2. table \in [User -> Row \cup {Absent}] /\ \A v \in User \ {u} : table[v] = rows[v]
    BY <1>1
  <1>3. IsFiniteSet({v \in User : table[v] # Absent})
    BY <1>2, FiniteWithOne DEF ListingInv
  <1> HIDE DEF table
  <1> QED BY <1>1, <1>2, <1>3, WriteOK

-----------------------------------------------------------------------------
(* The steps of the walk keep the invariant.                               *)

LEMMA SameTable ==
    ASSUME UNCHANGED <<rows, query, stable, tied>>
    PROVE  /\ Matching(rows)' = Matching(rows) /\ Ties(rows)' = Ties(rows)
           /\ \A u : Ahead(u)' = Ahead(u)
           /\ HistoryOK <=> HistoryOK'
  <1>1. Matching(rows)' = Matching(rows) /\ Ties(rows)' = Ties(rows)
    BY DEF Matching, Ties, Key
  <1>2. \A u, v : Before(rows, v, u)' <=> Before(rows, v, u)
    BY <1>1 DEF Before, Key
  <1>3. \A u : Ahead(u)' = Ahead(u)
    BY <1>2 DEF Ahead
  <1> QED BY <1>1, <1>3 DEF HistoryOK

\* The ranks of the users and the numbers of the page are numbers.
LEMMA Ranks ==
    ASSUME ListingInv
    PROVE  /\ Skip \in Nat /\ PageEnd \in Nat /\ Skip <= PageEnd
           /\ query.limit \in Nat \ {0} /\ page \in Nat \ {0}
           /\ Cardinality(Matching(rows)) \in Nat
           /\ \A u \in stable : /\ u \in Matching(rows) /\ u \in User /\ seen[u] \in Nat
                                /\ Cardinality(Ahead(u)) \in Nat
                                /\ Cardinality(Ahead(u)) < Cardinality(Matching(rows))
  <1>1. query.limit \in Nat \ {0} /\ page \in Nat \ {0}
    BY DEF ListingInv, ListingTypeOK, Query
  <1>2. Skip \in Nat /\ PageEnd \in Nat /\ Skip <= PageEnd
    BY <1>1, PageArithmetic DEF Skip, PageEnd
  <1>3. Cardinality(Matching(rows)) \in Nat
    BY MatchingFinite DEF ListingInv
  <1>4. ASSUME NEW u \in stable
        PROVE  /\ u \in Matching(rows) /\ u \in User /\ seen[u] \in Nat
               /\ Cardinality(Ahead(u)) \in Nat
               /\ Cardinality(Ahead(u)) < Cardinality(Matching(rows))
    BY AheadFacts DEF ListingInv, ListingTypeOK, HistoryOK, Matching, AheadOK
  <1> QED BY <1>1, <1>2, <1>3, <1>4

LEMMA ListPageOK ==
    ASSUME ListingInv, ListPage
    PROVE  ListingInv'
  <1>1. /\ UNCHANGED <<rows, query, page, seen, total, writes, stable, lost, gained, tied>>
        /\ step = "list" /\ step' = "count" /\ listed' \in PossiblePages(rows)
    BY DEF ListPage
  <1>2. listed' \in SUBSET Matching(rows)
    BY <1>1 DEF PossiblePages
  <1>3. ListingTypeOK'
    BY <1>2 DEF ListPage, ListingInv, ListingTypeOK, Matching
  <1>4. /\ Matching(rows)' = Matching(rows) /\ \A u : Ahead(u)' = Ahead(u)
        /\ HistoryOK' /\ Skip' = Skip /\ PageEnd' = PageEnd
    BY <1>1, SameTable DEF ListingInv, Skip, PageEnd
  <1>5. QuietInv'
    <2>1. PossiblePages(rows)' = PossiblePages(rows)
      BY <1>1 DEF PossiblePages, Matching, Before, Key, Skip
    <2> QED BY <2>1, <1>1 DEF QuietInv
  <1>6. NoWriteInv'
    BY <1>1, <1>2, <1>4 DEF NoWriteInv, ListingInv
  <1>7. ASSUME NEW u \in stable \ tied
        PROVE  u \in listed' <=> Skip <= Cardinality(Ahead(u)) /\ Cardinality(Ahead(u)) < PageEnd
    <2>1. u \in Matching(rows) \ Ties(rows)
      BY <1>7 DEF ListingInv, HistoryOK
    <2> QED BY <2>1, <1>1, PageHolds DEF ListingInv
  <1>8. MissInv'
    <2> SUFFICES ASSUME NEW u \in stable \ (lost \cup tied), seen[u] = 0
                 PROVE  /\ Cardinality(Ahead(u)) >= Skip
                        /\ u \notin listed' => Cardinality(Ahead(u)) >= PageEnd
      BY <1>1, <1>4 DEF MissInv
    <2>1. Cardinality(Ahead(u)) >= Skip
      BY DEF ListingInv, MissInv
    <2> QED BY <2>1, <1>7, Ranks
  <1>9. RepeatInv'
    <2> SUFFICES ASSUME NEW u \in stable \ (gained \cup tied)
                 PROVE  /\ seen[u] <= 1
                        /\ seen[u] = 1 => Cardinality(Ahead(u)) < Skip
                        /\ u \in listed' => seen[u] = 0 /\ Cardinality(Ahead(u)) < PageEnd
      BY <1>1, <1>4 DEF RepeatInv
    <2>1. seen[u] <= 1 /\ (seen[u] = 1 => Cardinality(Ahead(u)) < Skip)
      BY <1>1 DEF ListingInv, RepeatInv
    <2> QED BY <2>1, <1>7, Ranks
  <1> QED BY <1>3, <1>4, <1>5, <1>6, <1>8, <1>9 DEF ListingInv

LEMMA ListCountOK ==
    ASSUME ListingInv, ListCount
    PROVE  ListingInv'
  <1>1. /\ UNCHANGED <<rows, query, page, listed, seen, writes, stable, lost, gained, tied, quiet>>
        /\ step = "count" /\ step' = "respond" /\ total' = Cardinality(Matching(rows))
    BY DEF ListCount, Counted, history
  <1>2. ListingTypeOK'
    BY <1>1, Ranks DEF ListCount, ListingInv, ListingTypeOK
  <1>3. /\ Matching(rows)' = Matching(rows) /\ \A u : Ahead(u)' = Ahead(u)
        /\ HistoryOK' /\ Skip' = Skip /\ PageEnd' = PageEnd
    BY <1>1, SameTable DEF ListingInv, Skip, PageEnd
  <1>4. QuietInv'
    <2>1. PossiblePages(rows)' = PossiblePages(rows)
      BY <1>1 DEF PossiblePages, Matching, Before, Key, Skip
    <2> QED BY <2>1, <1>1, <1>3 DEF QuietInv, ListingInv
  <1>5. NoWriteInv'
    BY <1>1, <1>3 DEF NoWriteInv, ListingInv
  <1>6. MissInv'
    <2> SUFFICES ASSUME NEW u \in stable \ (lost \cup tied), seen[u] = 0
                 PROVE  /\ Cardinality(Ahead(u)) >= Skip
                        /\ u \notin listed => Cardinality(Ahead(u)) >= PageEnd
                        /\ u \notin listed => total' > PageEnd
      BY <1>1, <1>3 DEF MissInv
    <2>1. /\ Cardinality(Ahead(u)) >= Skip
          /\ u \notin listed => Cardinality(Ahead(u)) >= PageEnd
      BY <1>1 DEF ListingInv, MissInv
    <2> QED BY <2>1, <1>1, Ranks
  <1>7. RepeatInv'
    BY <1>1, <1>3 DEF RepeatInv, ListingInv
  <1> QED BY <1>2, <1>3, <1>4, <1>5, <1>6, <1>7 DEF ListingInv

LEMMA ReceiveOK ==
    ASSUME ListingInv, Receive
    PROVE  ListingInv'
  <1>1. /\ UNCHANGED <<rows, query, listed, total, writes, stable, lost, gained, tied, quiet>>
        /\ step = "respond"
        /\ seen' = [u \in User |-> IF u \in listed THEN seen[u] + 1 ELSE seen[u]]
    BY DEF Receive, history
  <1>2. /\ query.limit \in Nat \ {0} /\ page \in Nat \ {0} /\ total \in Nat
        /\ Skip \in Nat /\ PageEnd \in Nat /\ Skip <= PageEnd
    BY Ranks DEF ListingInv, ListingTypeOK
  <1>3. \/ step' = "list" /\ page' = page + 1 /\ Skip' = PageEnd
        \/ step' = "done" /\ page' = page /\ total <= PageEnd
    <2>1. CASE page < TotalPages /\ page' = page + 1 /\ step' = "list"
      BY <2>1, <1>1, <1>2, PageArithmetic DEF Skip, PageEnd
    <2>2. CASE page >= TotalPages /\ page' = page /\ step' = "done"
      <3> SUFFICES ASSUME total > PageEnd PROVE FALSE
        BY <2>2, <1>2
      <3>1. page < TotalPages
        BY <1>2, MorePages DEF TotalPages, PageEnd
      <3>2. TotalPages \in Int
        BY <1>2 DEF TotalPages
      <3> QED BY <3>1, <3>2, <2>2, <1>2
    <2> QED BY <2>1, <2>2 DEF Receive
  <1>4. ListingTypeOK'
    BY <1>1, <1>2, <1>3 DEF Receive, ListingInv, ListingTypeOK
  <1>5. /\ Matching(rows)' = Matching(rows) /\ \A u : Ahead(u)' = Ahead(u)
        /\ HistoryOK'
    BY <1>1, SameTable DEF ListingInv
  <1>6. QuietInv'
    BY <1>3 DEF QuietInv
  <1>7. NoWriteInv'
    BY <1>1, <1>3, <1>5 DEF NoWriteInv, ListingInv, ListingTypeOK
  <1>8. MissInv'
    <2> SUFFICES ASSUME NEW u \in stable \ (lost \cup tied), seen'[u] = 0
                 PROVE  step' # "done" /\ Cardinality(Ahead(u)) >= Skip'
      BY <1>1, <1>3, <1>5 DEF MissInv
    <2>1. u \notin listed /\ seen[u] = 0
      BY <1>1, Ranks
    <2>2. Cardinality(Ahead(u)) >= PageEnd /\ total > PageEnd
      BY <1>1, <2>1 DEF ListingInv, MissInv
    <2> QED BY <2>2, <1>2, <1>3
  <1>9. RepeatInv'
    <2> SUFFICES ASSUME NEW u \in stable \ (gained \cup tied)
                 PROVE  /\ seen'[u] <= 1
                        /\ step' # "done" /\ seen'[u] = 1 => Cardinality(Ahead(u)) < Skip'
      BY <1>1, <1>3, <1>5 DEF RepeatInv
    <2>1. /\ seen[u] <= 1
          /\ seen[u] = 1 => Cardinality(Ahead(u)) < Skip
          /\ u \in listed => seen[u] = 0 /\ Cardinality(Ahead(u)) < PageEnd
      BY <1>1 DEF ListingInv, RepeatInv
    <2>2. /\ u \in User /\ seen[u] \in Nat /\ Cardinality(Ahead(u)) \in Nat
          /\ seen'[u] = IF u \in listed THEN seen[u] + 1 ELSE seen[u]
      BY <1>1, Ranks
    <2> QED BY <2>1, <2>2, <1>2, <1>3
  <1> QED BY <1>4, <1>5, <1>6, <1>7, <1>8, <1>9 DEF ListingInv

LEMMA AskAgainOK ==
    ASSUME ListingInv, AskAgain
    PROVE  ListingInv'
  <1>1. /\ UNCHANGED <<rows, query, page, listed, total, seen, writes, history>>
        /\ step \in {"count", "respond"} /\ step' = "list"
    BY DEF AskAgain
  <1>2. ListingTypeOK'
    BY DEF AskAgain, ListingInv, ListingTypeOK
  <1>3. /\ Matching(rows)' = Matching(rows) /\ \A u : Ahead(u)' = Ahead(u)
        /\ HistoryOK' /\ Skip' = Skip
    BY <1>1, SameTable DEF ListingInv, Skip, history
  <1>4. QuietInv' /\ NoWriteInv'
    BY <1>1, <1>3 DEF QuietInv, NoWriteInv, ListingInv, history
  <1>5. MissInv' /\ RepeatInv'
    BY <1>1, <1>3 DEF MissInv, RepeatInv, ListingInv, history
  <1> QED BY <1>2, <1>3, <1>4, <1>5 DEF ListingInv

LEMMA ClockOK ==
    ASSUME ListingInv, UNCHANGED <<rows, writes, walk, history>>, now' \in 0 .. MaxTime
    PROVE  ListingInv'
  <1>1. ListingTypeOK'
    BY DEF walk, ListingInv, ListingTypeOK
  <1>2. /\ Matching(rows)' = Matching(rows) /\ \A u : Ahead(u)' = Ahead(u)
        /\ HistoryOK' /\ Skip' = Skip /\ PageEnd' = PageEnd
    BY SameTable DEF walk, history, ListingInv, Skip, PageEnd
  <1>3. QuietInv' /\ NoWriteInv'
    <2>1. PossiblePages(rows)' = PossiblePages(rows)
      BY DEF walk, PossiblePages, Matching, Before, Key, Skip
    <2> QED BY <2>1, <1>2 DEF walk, history, QuietInv, NoWriteInv, ListingInv
  <1>4. MissInv' /\ RepeatInv'
    BY <1>2 DEF walk, history, MissInv, RepeatInv, ListingInv
  <1> QED BY <1>1, <1>2, <1>3, <1>4 DEF ListingInv

LEMMA ListingInvNext == ListingInv /\ [UNext]_uvars => ListingInv'
  <1> SUFFICES ASSUME ListingInv, [UNext]_uvars PROVE ListingInv'
    OBVIOUS
  <1>1. CASE UNCHANGED uvars
    BY <1>1, ClockOK DEF uvars, ListingInv, ListingTypeOK
  <1>2. CASE Tick
    <2>1. now' \in 0 .. MaxTime
      BY <1>2, ListingAssumption DEF Tick, ListingInv, ListingTypeOK
    <2> QED BY <2>1, <1>2, ClockOK DEF Tick
  <1>3. CASE ListPage \/ ListCount \/ Receive \/ AskAgain
    BY <1>3, ListPageOK, ListCountOK, ReceiveOK, AskAgainOK
  <1>4. ASSUME NEW u \in User,
               \/ \E n \in Name : RegisterUser(u, n) \/ RenameUser(u, n)
               \/ \E role \in Role : SetRole(u, role)
               \/ DeleteUser(u)
        PROVE  ListingInv'
    BY <1>4, RegisterUserOK, RenameUserOK, SetRoleOK, DeleteUserOK
  <1> QED BY <1>1, <1>2, <1>3, <1>4 DEF UNext

-----------------------------------------------------------------------------
(* What the invariant says of the walk.                                    *)

\* The numbers of a page and of the count fit as long as nothing was written
\* in between.
LEMMA QuietPageFits == ListingInv => PageMatchesTotal
  <1> SUFFICES ASSUME ListingInv, step = "respond", quiet
               PROVE  Cardinality(listed) = Least(query.limit, total - Least(Skip, total))
    BY DEF PageMatchesTotal
  <1>1. listed \in PossiblePages(rows) /\ total = Cardinality(Matching(rows))
    BY DEF ListingInv, QuietInv
  <1> QED BY <1>1 DEF PossiblePages

LEMMA ExactFromInv == ListingInv => QuietWalkIsExact
  <1> SUFFICES ASSUME ListingInv, step = "done", writes = 0, tied = {}, NEW u \in User
               PROVE  seen[u] = IF u \in Matching(rows) THEN 1 ELSE 0
    BY DEF QuietWalkIsExact
  <1>1. /\ stable = Matching(rows) /\ lost = {} /\ gained = {}
        /\ u \notin Matching(rows) => seen[u] = 0
    BY DEF ListingInv, NoWriteInv
  <1>2. u \in Matching(rows) => seen[u] # 0 /\ seen[u] <= 1
    BY <1>1 DEF ListingInv, MissInv, RepeatInv
  <1> QED BY <1>1, <1>2 DEF ListingInv, ListingTypeOK

\* The types of the listing, and where in the pages a user is that the walk has
\* or has not met: the inductive invariant under the other theorems.
THEOREM ListingSafe == USpec => []ListingInv
  BY ListingInvInit, ListingInvNext, PTL DEF USpec

\* getUsers: a walk to the last page meets every user that matched its query
\* all the time, with an unchanged sort key of its own, unless a user before it
\* was deleted, renamed or filtered out, whatever else was written meanwhile
\* and however often a page had to be asked for again.
THEOREM WalkMissesNone == USpec => []NoneMissed
  <1>1. ListingInv => NoneMissed
    BY DEF ListingInv, MissInv, NoneMissed
  <1> QED BY <1>1, ListingSafe, PTL

\* getUsers: such a user is met twice only if a user has come before it.
THEOREM WalkRepeatsNone == USpec => []NoneRepeated
  <1>1. ListingInv => NoneRepeated
    <2> SUFFICES ASSUME ListingInv, NEW u \in stable, seen[u] > 1, u \notin gained \cup tied
                 PROVE  FALSE
      BY DEF NoneRepeated
    <2>1. seen[u] <= 1 /\ seen[u] \in Nat
      BY Ranks DEF ListingInv, RepeatInv
    <2> QED BY <2>1
  <1> QED BY <1>1, ListingSafe, PTL

\* The two statements of getUsers agree: without a write between them, the
\* page holds as many users as the count of the same response allows it.
THEOREM PageFitsItsTotal == USpec => []PageMatchesTotal
  BY QuietPageFits, ListingSafe, PTL

\* Without writes and without equal sort keys, the pages of getUsers are a
\* partition of the users that match.
THEOREM QuietWalkExact == USpec => []QuietWalkIsExact
  BY ExactFromInv, ListingSafe, PTL

=============================================================================
