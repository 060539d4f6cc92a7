---------------------------- MODULE LedgerProofs ----------------------------
(***************************************************************************)
(* The API implements the ledger of refresh tokens, for every value of     *)
(* the constants: the lenient ledger whatever overlaps, the strict ledger  *)
(* as long as no token is inserted late.  Each of the five things that a   *)
(* step can do to sessions (SessionStep) is a step of the ledger.          *)
(***************************************************************************)
EXTENDS SessionProofs

LedgerUnchanged == UNCHANGED <<AccountState, TokenState, TokenOwner, TokenParent, LateTokens>>

-----------------------------------------------------------------------------
(* What the mapping says of one key.                                       *)

LEMMA AccountAt ==
    ASSUME NEW u \in UserId
    PROVE  /\ users[u] = Absent => AccountState[u] = "none"
           /\ users[u] = Deleted => AccountState[u] = "closed"
           /\ Exists(u) => AccountState[u] = "open"
BY NullsAssumption DEF AccountState, Exists

LEMMA TokenAt ==
    ASSUME LineageOK, NEW k \in Pair
    PROVE  /\ refreshTokens[k] = Absent =>
                 TokenState[k] = "unborn" /\ TokenOwner[k] = None /\ TokenParent[k] = None
           /\ refreshTokens[k] = Deleted => TokenState[k] = "deleted" /\ TokenOwner[k] = None
           /\ IsRow(k) => /\ TokenState[k] = IF Live(k) THEN "live" ELSE "revoked"
                          /\ TokenOwner[k] = refreshTokens[k].userId
BY NullsAssumption DEF TokenState, TokenOwner, TokenParent, RowState, IsRow, Live, LineageOK

\* The tokens the ledger counts are the rows.
LEMMA CurrentRows ==
    ASSUME LineageOK
    PROVE  /\ Lenient!Current = {k \in Pair : IsRow(k)}
           /\ \A u \in UserId : Lenient!OwnedBy(u) = TokensOf(u)
<1>1. ASSUME NEW k \in Pair
      PROVE  TokenState[k] \in {"live", "revoked"} <=> IsRow(k)
  BY NullsAssumption DEF TokenState, RowState, IsRow
<1>2. Lenient!Current = {k \in Pair : IsRow(k)}
  BY <1>1 DEF Lenient!Current
<1> QED
  BY <1>2, TokenAt DEF Lenient!OwnedBy, TokensOf

LEMMA AccountsStay ==
    ASSUME SameAccounts({})
    PROVE  UNCHANGED AccountState
BY DEF AccountState, SameAccounts, Exists

LEMMA AccountMoves ==
    ASSUME NEW u \in UserId, SameAccounts({u}), NEW state,
           state = IF users'[u] \notin {Absent, Deleted} THEN "open"
                   ELSE IF users'[u] = Absent THEN "none" ELSE "closed"
    PROVE  AccountState' = [AccountState EXCEPT ![u] = state]
<1>1. ASSUME NEW v \in UserId
      PROVE  AccountState'[v] = IF v = u THEN state ELSE AccountState[v]
  BY DEF AccountState, SameAccounts, Exists
<1> QED
  BY <1>1 DEF AccountState

\* The mapping of a token looks at its row and its lineage only.
LEMMA TokenStays ==
    ASSUME NEW k \in Pair, refreshTokens'[k] = refreshTokens[k], lineage'[k] = lineage[k]
    PROVE  /\ TokenState'[k] = TokenState[k]
           /\ TokenOwner'[k] = TokenOwner[k]
           /\ TokenParent'[k] = TokenParent[k]
BY DEF TokenState, TokenOwner, TokenParent, IsRow, Born

LEMMA LineageStays == ASSUME UNCHANGED lineage PROVE UNCHANGED <<TokenParent, LateTokens>>
BY DEF TokenParent, LateTokens, Born

\* A token that enters is late or not; the others are what they were.
LEMMA LateMoves ==
    ASSUME NEW k \in Pair, ~Born(k), Born(k)',
           \A j \in Pair \ {k} : lineage'[j] = lineage[j]
    PROVE  LateTokens' = IF lineage'[k].late THEN LateTokens \cup {k} ELSE LateTokens
BY DEF LateTokens, Born

\* Three functions on Pair that agree but at one token.
LEMMA TokenMoves ==
    ASSUME NEW k \in Pair, NEW state, NEW u, NEW p,
           TokenState'[k] = state, TokenOwner'[k] = u, TokenParent'[k] = p,
           \A j \in Pair \ {k} : TokenOwner'[j] = TokenOwner[j] /\ TokenParent'[j] = TokenParent[j]
    PROVE  /\ TokenOwner' = [TokenOwner EXCEPT ![k] = u]
           /\ TokenParent' = [TokenParent EXCEPT ![k] = p]
BY DEF TokenOwner, TokenParent

-----------------------------------------------------------------------------
(* The five cases.                                                         *)

LEMMA NothingStutters == ASSUME Nothing PROVE LedgerUnchanged
<1>1. refreshTokens' = refreshTokens /\ lineage' = lineage
  BY DEF Nothing, SameSessions
<1> QED
  BY <1>1, AccountsStay, LineageStays
     DEF Nothing, LedgerUnchanged, TokenState, TokenOwner, IsRow

LEMMA BeginsEnters ==
    ASSUME ApiInv, LineageOK, NEW k \in Pair, NEW u \in UserId, NEW cred, NEW late,
           Begins(k, u, cred, late)
    PROVE  Lenient!Enroll(u, k) \/ Lenient!OpenSession(u, k)
<1>1. refreshTokens[k] = Absent
  BY DEF Begins, Opens
<1>2. /\ ~Born(k) /\ Born(k)' /\ Live(k)' /\ refreshTokens'[k].userId = u
      /\ lineage'[k].parent = None /\ \A j \in Pair \ {k} : lineage'[j] = lineage[j]
  BY BeginsAt
<1>3. TokenState'[k] = "live" /\ TokenOwner'[k] = u /\ TokenParent'[k] = None
  BY <1>2 DEF TokenState, TokenOwner, TokenParent, RowState, Live, IsRow, Born
<1>4. ASSUME NEW j \in Pair \ {k}
      PROVE  TokenState'[j] = TokenState[j] /\ TokenOwner'[j] = TokenOwner[j]
             /\ TokenParent'[j] = TokenParent[j]
  BY BeginsAt, TokenStays
<1>5. TokenState' = [TokenState EXCEPT ![k] = "live"]
  BY <1>3, <1>4 DEF TokenState
<1>6. Lenient!Enter(k, u, None)
  <2>1. LateTokens' \in {LateTokens, LateTokens \cup {k}}
    BY <1>2, LateMoves
  <2> QED
    BY <1>1, <1>3, <1>4, <2>1, TokenAt, TokenMoves DEF Lenient!Enter
<1>7. SameAccounts({u}) /\ users'[u] \notin {Absent, Deleted} /\ (Exists(u) \/ users[u] = Absent)
  BY DEF Begins
<1>8. AccountState' = [AccountState EXCEPT ![u] = "open"]
  BY <1>7, AccountMoves
<1>9. CASE users[u] = Absent
  BY <1>5, <1>6, <1>8, <1>9, AccountAt DEF Lenient!Enroll
<1>10. CASE Exists(u)
  <2>1. AccountState[u] = "open" /\ UNCHANGED AccountState
    BY <1>8, <1>10, AccountAt DEF AccountState
  <2> QED
    BY <1>5, <1>6, <2>1 DEF Lenient!OpenSession
<1> QED
  BY <1>7, <1>9, <1>10

\* The token that a rotation spends is live, or its successor is late.
LEMMA ContinuesRotates ==
    ASSUME ApiInv, LineageOK, NEW t \in Pair, NEW k \in Pair, NEW late, Continues(t, k, late)
    PROVE  Lenient!Rotate(t, k)
<1> DEFINE u == TokenOwner[t]
<1>1. /\ t # k /\ IsRow(t) /\ IsRow(t)' /\ ~Live(t)' /\ lineage'[t] = lineage[t]
      /\ refreshTokens'[t].userId = refreshTokens[t].userId
      /\ ~Born(k) /\ Born(k)' /\ Live(k)' /\ lineage'[k].parent = t
      /\ lineage'[k].late = (lineage[t].late \/ late)
      /\ \A j \in Pair \ {k} : lineage'[j] = lineage[j]
      /\ refreshTokens'[k].userId = refreshTokens[t].userId
  BY ContinuesAt
<1>2. refreshTokens[k] = Absent /\ (late \/ Live(t)) /\ UNCHANGED users
  BY DEF Continues, Spends
<1>3. u = refreshTokens[t].userId
  BY <1>1 DEF TokenOwner
<1>4. TokenState'[k] = "live" /\ TokenOwner'[k] = u /\ TokenParent'[k] = t
  BY <1>1, <1>3 DEF TokenState, TokenOwner, TokenParent, RowState, Live, IsRow, Born
<1>5. /\ TokenState'[t] = "revoked" /\ TokenOwner'[t] = TokenOwner[t]
      /\ TokenParent'[t] = TokenParent[t]
  BY <1>1, <1>3 DEF TokenState, TokenOwner, TokenParent, RowState, Live, IsRow, Born
<1>6. ASSUME NEW j \in Pair \ {t, k}
      PROVE  TokenState'[j] = TokenState[j] /\ TokenOwner'[j] = TokenOwner[j]
             /\ TokenParent'[j] = TokenParent[j]
  BY ContinuesAt, TokenStays
<1>7. TokenState' = [TokenState EXCEPT ![t] = "revoked", ![k] = "live"]
  BY <1>1, <1>4, <1>5, <1>6, ZenonT(30) DEF TokenState
<1> HIDE DEF u
<1>8. TokenOwner' = [TokenOwner EXCEPT ![k] = u] /\ TokenParent' = [TokenParent EXCEPT ![k] = t]
  BY <1>4, <1>5, <1>6, TokenMoves
<1>9. UNCHANGED AccountState
  BY <1>2 DEF AccountState, Exists
<1>10. /\ TokenState[k] = "unborn"
       /\ TokenState[t] \in {"live", "revoked"}
       /\ ~late => TokenState[t] = "live"
  BY <1>1, <1>2, TokenAt
<1>11. /\ LateTokens' \in {LateTokens, LateTokens \cup {k}}
       /\ k \in LateTokens' \/ (TokenState[t] = "live" /\ t \notin LateTokens)
  <2>1. LateTokens' = IF lineage'[k].late THEN LateTokens \cup {k} ELSE LateTokens
    BY <1>1, LateMoves
  <2>2. t \in LateTokens => lineage[t].late
    BY DEF LateTokens
  <2> QED
    BY <1>1, <1>10, <2>1, <2>2
<1> QED
  BY <1>7, <1>8, <1>9, <1>10, <1>11 DEF Lenient!Rotate, Lenient!Enter, Lenient!Current, u

LEMMA EndsRevokes ==
    ASSUME ApiInv, LineageOK, NEW K \in SUBSET Pair, Ends(K)
    PROVE  /\ K \subseteq Lenient!Current
           /\ TokenState' = Lenient!Revoked(K)
           /\ UNCHANGED <<TokenOwner, TokenParent, LateTokens>>
<1>1. \A k \in K : IsRow(k)
  BY DEF Ends, Revokes, Revoking
<1>2. ASSUME NEW k \in Pair
      PROVE  /\ TokenState'[k] = IF k \in K THEN "revoked" ELSE TokenState[k]
             /\ TokenOwner'[k] = TokenOwner[k]
  <2>1. CASE k \in K
    BY <1>1, <2>1, EndsAt DEF TokenState, RowState, TokenOwner, IsRow, Live
  <2>2. CASE k \notin K
    BY <2>2 DEF Ends, Revokes, Same, TokenState, TokenOwner, IsRow
  <2> QED
    BY <2>1, <2>2
<1>3. TokenState' = Lenient!Revoked(K) /\ TokenOwner' = TokenOwner
  BY <1>2 DEF Lenient!Revoked, TokenState, TokenOwner
<1>4. UNCHANGED <<TokenParent, LateTokens>>
  BY LineageStays DEF Ends
<1> QED
  BY <1>1, <1>3, <1>4, CurrentRows

LEMMA EndsOneRevokes ==
    ASSUME ApiInv, LineageOK, NEW K \in SUBSET Pair, EndsOne(K)
    PROVE  LedgerUnchanged \/ \E t \in Pair : Lenient!Revoke(t)
<1>1. /\ K \subseteq Lenient!Current /\ TokenState' = Lenient!Revoked(K)
      /\ UNCHANGED <<TokenOwner, TokenParent, LateTokens>>
  BY EndsRevokes DEF EndsOne
<1>2. UNCHANGED AccountState
  BY DEF EndsOne, AccountState, Exists
<1>3. CASE K = {}
  BY <1>1, <1>2, <1>3 DEF Lenient!Revoked, LedgerUnchanged, TokenState
<1>4. ASSUME NEW t \in K PROVE Lenient!Revoke(t)
  <2>1. K = {t}
    BY DEF EndsOne
  <2> QED
    BY <1>1, <1>2, <2>1 DEF Lenient!Revoke
<1> QED
  BY <1>3, <1>4

LEMMA EndsAllRevokes ==
    ASSUME ApiInv, LineageOK, NEW u \in UserId, NEW K \in SUBSET Pair, EndsAll(K, u)
    PROVE  Lenient!RevokeAll(u)
<1>1. /\ TokenState' = Lenient!Revoked(K)
      /\ UNCHANGED <<TokenOwner, TokenParent, LateTokens>>
  BY EndsRevokes DEF EndsAll
<1>2. AccountState[u] = "open" /\ UNCHANGED AccountState
  BY AccountAt, AccountsStay DEF EndsAll
<1>3. K \in SUBSET Lenient!OwnedBy(u)
  BY CurrentRows DEF EndsAll
<1>4. ASSUME NEW k \in Lenient!OwnedBy(u) \ K, TokenState[k] = "live"
      PROVE  k \in LateTokens
  <2>1. k \in TokensOf(u) \ K /\ k \in Pair
    BY CurrentRows DEF TokensOf
  <2>2. Live(k) /\ Born(k)
    BY <1>4, <2>1, TokenAt, RowsBorn DEF TokensOf
  <2> QED
    BY <2>1, <2>2 DEF EndsAll, LateTokens
<1> QED
  BY <1>1, <1>2, <1>3, <1>4 DEF Lenient!RevokeAll

LEMMA RemovesCloses ==
    ASSUME ApiInv, LineageOK, NEW u \in UserId, Removes(u)
    PROVE  Lenient!Close(u)
<1>1. /\ \A k \in Pair : refreshTokens'[k] = IF k \in TokensOf(u) THEN Deleted ELSE refreshTokens[k]
      /\ UNCHANGED lineage
      /\ SameAccounts({u}) /\ Exists(u) /\ users'[u] = Deleted
  BY DEF Removes, Deletes, SameSessions
<1>2. ASSUME NEW k \in Pair
      PROVE  /\ TokenState'[k] = IF k \in TokensOf(u) THEN "deleted" ELSE TokenState[k]
             /\ TokenOwner'[k] = IF k \in TokensOf(u) THEN None ELSE TokenOwner[k]
  BY <1>1, NullsAssumption DEF TokenState, TokenOwner, IsRow
<1>3. /\ TokenState' = [k \in Pair |-> IF k \in TokensOf(u) THEN "deleted" ELSE TokenState[k]]
      /\ TokenOwner' = [k \in Pair |-> IF k \in TokensOf(u) THEN None ELSE TokenOwner[k]]
  BY <1>2 DEF TokenState, TokenOwner
<1>4. AccountState' = [AccountState EXCEPT ![u] = "closed"] /\ AccountState[u] = "open"
  BY <1>1, AccountAt, AccountMoves, NullsAssumption
<1> QED
  BY <1>1, <1>3, <1>4, LineageStays, CurrentRows DEF Lenient!Close

-----------------------------------------------------------------------------
(* The steps together.                                                     *)

LEMMA StepLedger ==
    ASSUME ApiInv, LineageOK, SessionStep
    PROVE  \/ LedgerUnchanged
           \/ \E u \in UserId, k \in Pair : Lenient!Enroll(u, k) \/ Lenient!OpenSession(u, k)
           \/ \E t, k \in Pair : Lenient!Rotate(t, k)
           \/ \E t \in Pair : Lenient!Revoke(t)
           \/ \E u \in UserId : Lenient!RevokeAll(u) \/ Lenient!Close(u)
<1>1. CASE Nothing
  BY <1>1, NothingStutters
<1>2. ASSUME NEW k \in Pair, NEW u \in UserId, NEW cred, NEW late, Begins(k, u, cred, late)
      PROVE  Lenient!Enroll(u, k) \/ Lenient!OpenSession(u, k)
  BY <1>2, BeginsEnters
<1>3. ASSUME NEW t \in Pair, NEW k \in Pair, NEW late, Continues(t, k, late)
      PROVE  Lenient!Rotate(t, k)
  BY <1>3, ContinuesRotates
<1>4. ASSUME NEW K \in SUBSET Pair, EndsOne(K)
      PROVE  LedgerUnchanged \/ \E t \in Pair : Lenient!Revoke(t)
  BY <1>4, EndsOneRevokes
<1>5. ASSUME NEW u \in UserId, NEW K \in SUBSET Pair, EndsAll(K, u) PROVE Lenient!RevokeAll(u)
  BY <1>5, EndsAllRevokes
<1>6. ASSUME NEW u \in UserId, Removes(u) PROVE Lenient!Close(u)
  BY <1>6, RemovesCloses
<1> QED
  BY <1>1, <1>2, <1>3, <1>4, <1>5, <1>6 DEF SessionStep

\* The seeded users are the ledger's first accounts.
LEMMA InitLedger ==
    ASSUME HInit
    PROVE  Lenient!LInit
<1>1. AccountState \in [UserId -> {"none", "open"}]
  BY SeedAssumption, ConstantsAssumption, NullsAssumption DEF HInit, Init, AccountState, Exists
<1>2. /\ TokenState = [k \in Pair |-> "unborn"]
      /\ TokenOwner = [k \in Pair |-> None]
      /\ TokenParent = [k \in Pair |-> None]
      /\ LateTokens = {}
  BY DEF HInit, Init, TokenState, TokenOwner, TokenParent, LateTokens, IsRow, Born
<1> QED
  BY <1>1, <1>2 DEF Lenient!LInit

LEMMA LedgerNext ==
    ASSUME ApiInv, FlightInv, SessionInv, [HNext]_hvars
    PROVE  [Lenient!LNext]_<<AccountState, TokenState, TokenOwner, TokenParent, LateTokens>>
BY SessionSteps, StepLedger DEF SessionInv, Lenient!LNext, Lenient!lvars, LedgerUnchanged

\* However requests interleave, fail and crash, the tables keep the ledger: a
\* token enters once and for an open account, a rotation revokes one token as
\* it enters another of the same owner, only late tokens come from a revoked
\* one or outlive a change of password, nothing revives a token, and an account
\* goes with all its tokens.
THEOREM LedgerImplemented == HSpec => OverlapLedger
<1>1. HInit => Lenient!LInit
  BY InitLedger
<1> QED
  BY <1>1, LedgerNext, SessionInvariant, PTL DEF HSpec, OverlapLedger, Lenient!LSpec, Lenient!lvars

\* Without late tokens the lenient ledger is the strict one.
LEMMA LedgersAgree ==
    ASSUME LateTokens = {}, LateTokens' = {},
           [Lenient!LNext]_<<AccountState, TokenState, TokenOwner, TokenParent, LateTokens>>
    PROVE  [Strict!LNext]_<<AccountState, TokenState, TokenOwner, TokenParent, {}>>
<1>1. CASE LedgerUnchanged
  BY <1>1 DEF LedgerUnchanged
<1>2. ASSUME NEW u \in UserId, NEW k \in Pair, Lenient!Enroll(u, k) \/ Lenient!OpenSession(u, k)
      PROVE  Strict!Enroll(u, k) \/ Strict!OpenSession(u, k)
  BY <1>2 DEF Lenient!Enroll, Lenient!OpenSession, Lenient!Enter,
              Strict!Enroll, Strict!OpenSession, Strict!Enter
<1>3. ASSUME NEW t \in Pair, NEW k \in Pair, Lenient!Rotate(t, k) PROVE Strict!Rotate(t, k)
  BY <1>3 DEF Lenient!Rotate, Lenient!Enter, Lenient!Current,
              Strict!Rotate, Strict!Enter, Strict!Current
<1>4. ASSUME NEW t \in Pair, Lenient!Revoke(t) PROVE Strict!Revoke(t)
  BY <1>4 DEF Lenient!Revoke, Lenient!Revoked, Lenient!Current,
              Strict!Revoke, Strict!Revoked, Strict!Current
<1>5. ASSUME NEW u \in UserId, Lenient!RevokeAll(u) PROVE Strict!RevokeAll(u)
  BY <1>5 DEF Lenient!RevokeAll, Lenient!Revoked, Lenient!OwnedBy, Lenient!Current,
              Strict!RevokeAll, Strict!Revoked, Strict!OwnedBy, Strict!Current
<1>6. ASSUME NEW u \in UserId, Lenient!Close(u) PROVE Strict!Close(u)
  BY <1>6 DEF Lenient!Close, Lenient!OwnedBy, Lenient!Current,
              Strict!Close, Strict!OwnedBy, Strict!Current
<1>7. CASE Lenient!LNext
  <2>1. ~ UNCHANGED <<AccountState, TokenState, TokenOwner, TokenParent, {}>>
    BY <1>7 DEF Lenient!LNext, Lenient!lvars
  <2> QED
    BY <1>2, <1>3, <1>4, <1>5, <1>6, <1>7, <2>1 DEF Lenient!LNext, Strict!LNext, Strict!lvars
<1> QED
  BY <1>1, <1>7 DEF LedgerUnchanged

\* As long as no token is inserted late, whatever else overlaps, the tables
\* keep the ledger of the documentation: in addition, only a live token is ever
\* rotated, and a change of password leaves its account no live token.
THEOREM StrictLedgerImplemented == HSpec /\ []NobodyLate => StrictLedger
<1>1. NobodyLate => LateTokens = {}
  BY DEF NobodyLate, LateTokens
<1>2. NobodyLate' => LateTokens' = {}
  BY DEF NobodyLate, LateTokens, Born
<1>3. ASSUME ApiInv, FlightInv, SessionInv, NobodyLate, NobodyLate', [HNext]_hvars
      PROVE  [Strict!LNext]_<<AccountState, TokenState, TokenOwner, TokenParent, {}>>
  BY <1>1, <1>2, <1>3, LedgerNext, LedgersAgree
<1>4. HInit => Strict!LInit
  BY InitLedger DEF Lenient!LInit, Strict!LInit
<1> QED
  BY <1>3, <1>4, SessionInvariant, PTL
     DEF HSpec, StrictLedger, Strict!LSpec, Strict!lvars

=============================================================================
