----------------------------- MODULE LocksProofs -----------------------------
(***************************************************************************)
(* Which transactions can deadlock, for any number of them and any rows.   *)
(***************************************************************************)
EXTENDS TxLocks, TLAPS

LEMMA LocksOfOp ==
    ASSUME NEW o \in Op
    PROVE  First(o) \subseteq Lock /\ Second(o) \subseteq Lock /\ First(o) \cap Second(o) = {}
  <1> USE LocksAssumption DEF First, Second, Locks, Lock, Mode, TokensOf
  <1>1. CASE o.kind = "rotate"
    BY <1>1 DEF Op, RotateLocks
  <1>2. CASE o.kind = "changePassword"
    BY <1>2 DEF Op, PasswordLocks
  <1>3. CASE o.kind = "delete"
    BY <1>3 DEF Op, DeleteLocks
  <1>4. CASE o.kind = "rename"
    BY <1>4 DEF Op, RenameLocks
  <1>5. CASE o.kind \in {"login", "logout", "update"}
    BY <1>5 DEF Op, OneLock
  <1> QED BY <1>1, <1>2, <1>3, <1>4, <1>5 DEF Op

LEMMA NoOpIsNone == NoOp \notin Op
  BY DEF NoOp, Op

LEMMA ConflictIsSymmetric ==
    ASSUME NEW m \in Mode, NEW n \in Mode, m # "Name", <<n, m>> \in Conflict
    PROVE  <<m, n>> \in Conflict
  BY DEF Mode, Conflict

LEMMA NameHoldsNobody ==
    ASSUME NEW m \in Mode
    PROVE  <<"Name", m>> \notin Conflict
  BY DEF Mode, Conflict

LEMMA LocksInvInit == KInit => LocksInv
  BY NoOpIsNone DEF KInit, LocksInv, LockTypeOK, Idle, Blocks

LEMMA LocksInvNext == LocksInv /\ [KNext]_kvars => LocksInv'
  <1> SUFFICES ASSUME LocksInv, [KNext]_kvars PROVE LocksInv'
    OBVIOUS
  <1>1. CASE UNCHANGED kvars
    BY <1>1 DEF kvars, LocksInv, LockTypeOK, Idle, Blocks
  <1>2. ASSUME NEW x \in Txn, Begin(x) PROVE LocksInv'
    <2>1. PICK o \in Op : op' = [op EXCEPT ![x] = o]
      BY <1>2 DEF Begin
    <2>2. LockTypeOK'
      BY <1>2, <2>1 DEF Begin, LocksInv, LockTypeOK
    <2>3. held[x] = {} /\ op'[x] = o /\ \A y \in Txn \ {x} : op'[y] = op[y]
      BY <1>2, <2>1 DEF Begin, LocksInv, LockTypeOK
    <2> QED
      BY <1>2, <2>1, <2>2, <2>3, NoOpIsNone DEF Begin, LocksInv, Idle, Blocks
  <1>3. ASSUME NEW x \in Txn, Take(x) PROVE LocksInv'
    <2>1. PICK lock \in Wanted(x) :
              /\ \A y \in Txn : ~Blocks(y, lock, x)
              /\ held' = [held EXCEPT ![x] = @ \cup {lock}]
      BY <1>3 DEF Take
    <2>2. op' = op /\ gone' = gone
      BY <1>3 DEF Take
    <2>3. ~Idle(x) /\ op[x] \in Op
      BY <2>1 DEF Wanted, LocksInv, LockTypeOK, Idle
    <2>4. lock \in Lock
      BY <2>1, <2>3, LocksOfOp DEF Wanted
    <2>5. LockTypeOK'
      BY <2>1, <2>2, <2>4 DEF LocksInv, LockTypeOK
    <2>6. held'[x] = held[x] \cup {lock} /\ \A y \in Txn \ {x} : held'[y] = held[y]
      BY <2>1 DEF LocksInv, LockTypeOK
    <2>7. \/ held'[x] \subseteq First(op[x])
          \/ /\ First(op[x]) \subseteq held'[x]
             /\ held'[x] \subseteq First(op[x]) \cup Second(op[x])
      BY <2>1, <2>3, <2>6 DEF Wanted, LocksInv
    <2>8. ASSUME NEW y \in Txn, NEW z \in Txn, NEW l \in held'[y], l[2] # "Name", Blocks(z, l, y)'
          PROVE FALSE
      <3>1. PICK other \in held'[z] : z # y /\ other[1] = l[1] /\ <<other[2], l[2]>> \in Conflict
        BY <2>8 DEF Blocks
      <3>2. l \in Lock /\ other \in Lock
        BY <2>5, <3>1 DEF LockTypeOK
      <3>3. CASE l \in held[y] /\ other \in held[z]
        BY <2>8, <3>1, <3>3 DEF LocksInv, Blocks
      <3>4. CASE y = x /\ l = lock
        BY <2>1, <2>6, <3>1, <3>4 DEF Blocks
      <3>5. CASE z = x /\ other = lock /\ l \in held[y]
        <4>1. l[2] \in Mode /\ other[2] \in Mode
          BY <3>2 DEF Lock
        <4>2. <<l[2], other[2]>> \in Conflict
          BY <4>1, <3>1, <2>8, ConflictIsSymmetric
        <4> QED BY <2>1, <3>1, <3>5, <4>2 DEF Blocks
      <3> QED BY <2>6, <2>8, <3>1, <3>3, <3>4, <3>5
    <2> QED
      BY <2>2, <2>3, <2>5, <2>6, <2>7, <2>8 DEF LocksInv, Idle
  <1>4. ASSUME NEW x \in Txn, End(x), gone' \in SUBSET (User \cup Token) PROVE LocksInv'
    <2>1. LockTypeOK'
      BY <1>4 DEF End, LocksInv, LockTypeOK
    <2>2. op'[x] = NoOp /\ held'[x] = {} /\ \A y \in Txn \ {x} : op'[y] = op[y] /\ held'[y] = held[y]
      BY <1>4 DEF End, LocksInv, LockTypeOK
    <2> QED
      BY <2>1, <2>2 DEF LocksInv, Idle, Blocks
  <1>5. ASSUME NEW x \in Txn, Commit(x) PROVE LocksInv'
    <2>1. op[x] \in Op
      BY <1>5 DEF Commit, Idle, LocksInv, LockTypeOK
    <2>2. op[x].kind = "delete" => op[x].row \in User
      BY <2>1 DEF Op
    <2>3. gone' \in SUBSET (User \cup Token)
      BY <1>5, <2>2 DEF Commit, LocksInv, LockTypeOK, TokensOf
    <2> QED BY <1>4, <1>5, <2>3 DEF Commit
  <1>6. ASSUME NEW x \in Txn, Rollback(x) PROVE LocksInv'
    BY <1>4, <1>6 DEF Rollback, LocksInv, LockTypeOK
  <1> QED BY <1>1, <1>2, <1>3, <1>5, <1>6 DEF KNext

\* No two transactions hold locks that conflict, and each takes the locks of
\* its first statement before those of the second.
THEOREM LocksExclude == KSpec => []LocksInv
  BY LocksInvInit, LocksInvNext, PTL DEF KSpec

-----------------------------------------------------------------------------
(* What a transaction that holds locks may still wait for.                 *)

Rotating(y) ==
    /\ op[y].kind = "rotate" /\ op[y].row \in Token
    /\ held[y] = {<<op[y].row, "NoKeyUpdate">>}
    /\ Wanted(y) = {<<Owner[op[y].row], "KeyShare">>}

\* The user row is held, and tokens of it are wanted.
Sweeping(y, kind, mode) ==
    /\ op[y].kind = kind /\ op[y].row \in User
    /\ <<op[y].row, mode>> \in held[y]
    /\ held[y] \subseteq {<<op[y].row, mode>>} \cup (TokensOf(op[y].row) \X {mode})
    /\ Wanted(y) \subseteq TokensOf(op[y].row) \X {mode}

Renaming(y) ==
    /\ op[y].kind = "rename" /\ op[y].row \in User
    /\ held[y] = {<<op[y].row, "Update">>}
    /\ Wanted(y) \subseteq User \X {"Name"}

LEMMA HoldAndWait ==
    ASSUME LocksInv, NEW y \in Txn, Wanted(y) # {}, held[y] # {}
    PROVE  \/ Rotating(y)
           \/ Sweeping(y, "changePassword", "NoKeyUpdate")
           \/ Sweeping(y, "delete", "Update")
           \/ Renaming(y)
  <1>1. ~Idle(y) /\ op[y] \in Op
    BY DEF Wanted, LocksInv, LockTypeOK, Idle
  <1>2. ASSUME NEW first, First(op[y]) = {first}
        PROVE  /\ first \in held[y]
               /\ held[y] \subseteq {first} \cup Second(op[y])
               /\ Wanted(y) = Second(op[y]) \ held[y]
    BY <1>1, <1>2 DEF LocksInv, Wanted
  <1>8. ASSUME NEW first, NEW second, First(op[y]) = {first}, Second(op[y]) \in {{}, {second}}
        PROVE  held[y] = {first} /\ Wanted(y) = {second}
    <2>1. Wanted(y) = Second(op[y]) \ held[y] /\ first \in held[y]
      BY <1>2, <1>8
    <2>2. Second(op[y]) = {second} /\ second \notin held[y]
      BY <1>8, <2>1
    <2>3. held[y] \subseteq {first} \cup {second}
      BY <1>2, <1>8, <2>2
    <2> QED BY <2>1, <2>2, <2>3
  <1> USE LocksAssumption DEF First, Second, Locks
  <1>3. CASE op[y].kind = "rotate"
    <2>1. op[y].row \in Token
      BY <1>1, <1>3 DEF Op
    <2>2. /\ First(op[y]) = {<<op[y].row, "NoKeyUpdate">>}
          /\ Second(op[y]) = {<<Owner[op[y].row], "KeyShare">>}
      BY <1>3 DEF RotateLocks
    <2> HIDE DEF First, Second, Locks
    <2>3. /\ held[y] = {<<op[y].row, "NoKeyUpdate">>}
          /\ Wanted(y) = {<<Owner[op[y].row], "KeyShare">>}
      BY <1>8, <2>2
    <2> QED BY <1>3, <2>1, <2>3 DEF Rotating
  <1>4. CASE op[y].kind = "changePassword"
    <2>1. op[y].row \in User
      BY <1>1, <1>4 DEF Op
    <2>2. /\ First(op[y]) = {<<op[y].row, "NoKeyUpdate">>}
          /\ Second(op[y]) = TokensOf(op[y].row) \X {"NoKeyUpdate"}
      BY <1>4 DEF PasswordLocks
    <2> HIDE DEF First, Second, Locks
    <2> QED BY <1>2, <1>4, <2>1, <2>2 DEF Sweeping
  <1>5. CASE op[y].kind = "delete"
    <2>1. op[y].row \in User
      BY <1>1, <1>5 DEF Op
    <2>2. /\ First(op[y]) = {<<op[y].row, "Update">>}
          /\ Second(op[y]) = TokensOf(op[y].row) \X {"Update"}
      BY <1>5 DEF DeleteLocks
    <2> HIDE DEF First, Second, Locks
    <2> QED BY <1>2, <1>5, <2>1, <2>2 DEF Sweeping
  <1>6. CASE op[y].kind = "rename"
    <2>1. op[y].row \in User /\ op[y].other \in User \cup {None}
      BY <1>1, <1>6 DEF Op
    <2>2. /\ First(op[y]) = {<<op[y].row, "Update">>}
          /\ Second(op[y]) = ({op[y].other} \ {None}) \X {"Name"}
      BY <1>6 DEF RenameLocks
    <2>3. Second(op[y]) \subseteq User \X {"Name"}
      BY <2>1, <2>2
    <2>4. Second(op[y]) = {} \/ Second(op[y]) = {<<op[y].other, "Name">>}
      BY <2>2
    <2> HIDE DEF First, Second, Locks
    <2>5. held[y] = {<<op[y].row, "Update">>}
      BY <1>8, <2>2, <2>4
    <2> QED BY <1>2, <1>6, <2>1, <2>2, <2>3, <2>5 DEF Renaming
  <1>7. CASE op[y].kind \in {"login", "logout", "update"}
    <2>1. /\ First(op[y]) = {<<op[y].row, IF op[y].kind = "login" THEN "KeyShare" ELSE "NoKeyUpdate">>}
          /\ Second(op[y]) = {}
      BY <1>7 DEF OneLock
    <2> HIDE DEF First, Second, Locks
    <2> QED BY <1>2, <2>1
  <1> QED BY <1>1, <1>3, <1>4, <1>5, <1>6, <1>7 DEF Op

\* Two transactions that hold a row of users in these modes are one.
LEMMA UserHeldOnce ==
    ASSUME LocksInv, NEW x \in Txn, NEW y \in Txn, NEW u, NEW m \in Mode,
           <<u, m>> \in held[x], <<u, "Update">> \in held[y], m # "Name"
    PROVE  x = y
  BY DEF LocksInv, Blocks, Conflict

LEMMA KnownDeadlocksLemma == LocksInv => KnownDeadlocks
  <1> SUFFICES ASSUME LocksInv, NEW S \in SUBSET Txn, Deadlock(S),
                      ~ \A x \in S : op[x].kind = "rename"
               PROVE  \E x, y \in S :
                         /\ S = {x, y}
                         /\ op[x].kind = "delete" /\ op[y].kind = "rotate"
                         /\ Owner[op[y].row] = op[x].row
    BY DEF KnownDeadlocks
  <1> USE LocksAssumption
  <1>1. Stuck(S) /\ \A R \in SUBSET S : Stuck(R) => R = S
    BY DEF Deadlock
  <1>2. ASSUME NEW x \in S, NEW y \in S, WaitsFor(x, y)
        PROVE  \E lock \in Wanted(x), other \in held[y] :
                  /\ y # x /\ other[1] = lock[1] /\ <<other[2], lock[2]>> \in Conflict
    BY <1>2 DEF WaitsFor, Blocks
  <1>3. \A y \in S : Wanted(y) # {}
    BY <1>1 DEF Stuck, WaitsFor
  \* Whoever sweeps a user's tokens waits for a rotation of one of them.
  <1>4. ASSUME NEW y \in S, NEW kind, NEW mode \in {"NoKeyUpdate", "Update"},
               Sweeping(y, kind, mode), kind \in {"changePassword", "delete"}
        PROVE  \E z \in S : WaitsFor(y, z) /\ Rotating(z) /\ Owner[op[z].row] = op[y].row
    <2>1. PICK z \in S : WaitsFor(y, z)
      BY <1>1 DEF Stuck
    <2>2. PICK lock \in Wanted(y), other \in held[z] :
              z # y /\ other[1] = lock[1] /\ <<other[2], lock[2]>> \in Conflict
      BY <1>2, <2>1
    <2>3. other[1] \in Token /\ Owner[other[1]] = op[y].row
      BY <1>4, <2>2 DEF Sweeping, TokensOf
    <2>4. ASSUME NEW k, NEW m, Sweeping(z, k, m), m \in {"NoKeyUpdate", "Update"} PROVE FALSE
      <3>1. op[z].row = op[y].row
        BY <2>2, <2>3, <2>4 DEF Sweeping, TokensOf
      <3>2. <<op[y].row, m>> \in held[z] /\ <<op[y].row, mode>> \in held[y]
        BY <1>4, <2>4, <3>1 DEF Sweeping
      <3>3. ~Blocks(z, <<op[y].row, mode>>, y)
        BY <1>4, <3>2 DEF LocksInv
      <3>4. <<m, mode>> \notin Conflict
        BY <2>2, <3>2, <3>3 DEF Blocks
      <3> QED BY <1>4, <2>4, <3>4 DEF Conflict, Mode
    <2>5. ~Renaming(z)
      BY <2>2, <2>3 DEF Renaming
    <2>6. Rotating(z)
      BY <1>3, <2>2, <2>4, <2>5, HoldAndWait
    <2> QED BY <2>1, <2>2, <2>3, <2>6 DEF Rotating
  \* A rotation that waits, waits for a deletion or a renaming of its user.
  <1>5. ASSUME NEW z \in S, Rotating(z)
        PROVE  \E w \in S :
                  /\ WaitsFor(z, w)
                  /\ <<Owner[op[z].row], "Update">> \in held[w]
                  /\ Sweeping(w, "delete", "Update") \/ Renaming(w)
    <2>1. PICK w \in S : WaitsFor(z, w)
      BY <1>1 DEF Stuck
    <2>2. PICK lock \in Wanted(z), other \in held[w] :
              w # z /\ other[1] = lock[1] /\ <<other[2], lock[2]>> \in Conflict
      BY <1>2, <2>1
    <2>3. lock = <<Owner[op[z].row], "KeyShare">>
      BY <1>5, <2>2 DEF Rotating
    <2>4. other \in Lock
      BY <2>2 DEF LocksInv, LockTypeOK
    <2>5. other = <<Owner[op[z].row], "Update">>
      BY <2>2, <2>3, <2>4 DEF Conflict, Lock, Mode
    <2>6. ~Rotating(w) /\ ~Sweeping(w, "changePassword", "NoKeyUpdate")
      BY <2>2, <2>5 DEF Rotating, Sweeping
    <2> QED BY <1>3, <2>1, <2>2, <2>5, <2>6, HoldAndWait
  \* A change of a password that holds its user row cannot be in the deadlock.
  <1>6. ASSUME NEW y \in S, Sweeping(y, "changePassword", "NoKeyUpdate") PROVE FALSE
    <2>1. PICK z \in S : Rotating(z) /\ Owner[op[z].row] = op[y].row
      BY <1>4, <1>6
    <2>2. PICK w \in S :
              /\ <<op[y].row, "Update">> \in held[w]
              /\ op[w].kind \in {"delete", "rename"}
      BY <1>5, <2>1 DEF Sweeping, Renaming
    <2>3. <<op[y].row, "NoKeyUpdate">> \in held[y] /\ op[y].kind = "changePassword"
      BY <1>6 DEF Sweeping
    <2>4. y = w
      BY <2>2, <2>3, UserHeldOnce DEF Mode
    <2> QED BY <2>2, <2>3, <2>4
  <1>7. CASE \E y \in S : Sweeping(y, "delete", "Update")
    <2>1. PICK y \in S : Sweeping(y, "delete", "Update")
      BY <1>7
    <2>2. PICK z \in S : WaitsFor(y, z) /\ Rotating(z) /\ Owner[op[z].row] = op[y].row
      BY <1>4, <2>1
    <2>3. PICK w \in S : WaitsFor(z, w) /\ <<op[y].row, "Update">> \in held[w]
      BY <1>5, <2>2
    <2>4. <<op[y].row, "Update">> \in held[y]
      BY <2>1 DEF Sweeping
    <2>5. w = y
      BY <2>3, <2>4, UserHeldOnce DEF Mode
    <2>6. Stuck({y, z})
      BY <2>2, <2>3, <2>5 DEF Stuck
    <2>7. S = {y, z}
      BY <1>1, <2>6
    <2> QED BY <2>1, <2>2, <2>7 DEF Sweeping, Rotating
  <1>8. CASE ~ \E y \in S : Sweeping(y, "delete", "Update")
    <2> DEFINE R == {x \in S : op[x].kind = "rename"}
    <2>1. ASSUME NEW x \in S, NEW y \in S, WaitsFor(x, y)
          PROVE  Rotating(y) \/ Renaming(y)
      BY <1>2, <1>3, <1>6, <1>8, <2>1, HoldAndWait
    <2>2. ASSUME NEW x \in S, op[x].kind = "rename"
          PROVE  \E y \in R : WaitsFor(x, y)
      <3>1. PICK y \in S : WaitsFor(x, y)
        BY <1>1 DEF Stuck
      <3>2. op[x] \in Op
        BY <2>2 DEF LocksInv, LockTypeOK, NoOp
      <3>3. ~Idle(x) /\ First(op[x]) \cup Second(op[x]) \subseteq User \X Mode
        BY <2>2, <3>2 DEF Idle, NoOp, Op, First, Second, Locks, RenameLocks, Mode
      <3>4. Wanted(x) \subseteq User \X Mode
        BY <3>3 DEF Wanted
      <3>5. ~Rotating(y)
        <4>1. PICK lock \in Wanted(x), other \in held[y] : other[1] = lock[1]
          BY <3>1 DEF WaitsFor, Blocks
        <4>2. other[1] \in User
          BY <3>4, <4>1
        <4> QED BY <4>1, <4>2 DEF Rotating
      <3> QED BY <2>1, <3>1, <3>5 DEF Renaming
    <2>3. R # {}
      <3>1. PICK x \in S, y \in S : WaitsFor(x, y)
        BY <1>1 DEF Stuck
      <3>2. CASE Renaming(y)
        BY <3>2 DEF Renaming
      <3>3. CASE Rotating(y)
        BY <1>5, <1>8, <3>3 DEF Renaming
      <3> QED BY <2>1, <3>1, <3>2, <3>3
    <2>4. Stuck(R)
      BY <2>2, <2>3 DEF Stuck
    <2>5. R = S
      BY <1>1, <2>4
    <2> QED BY <2>5
  <1> QED BY <1>7, <1>8

\* However many transactions there are, the only deadlocks are those of a
\* deletion with a rotation of its user's token, and of renamings.
THEOREM OnlyKnownDeadlocks == KSpec => []KnownDeadlocks
  BY LocksExclude, KnownDeadlocksLemma, PTL

=============================================================================
