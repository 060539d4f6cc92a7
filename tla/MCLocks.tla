------------------------------- MODULE MCLocks -------------------------------
(***************************************************************************)
(* Instances of TxLocks for TLC.                                           *)
(***************************************************************************)
EXTENDS TxLocks, TLC

CONSTANTS u1, u2, t1, t2, t3

\* One user has two tokens, so that changePassword and the cascade have an
\* order to choose.
MCOwner == [t \in Token |-> IF t = t3 THEN u2 ELSE u1]

Transactions == Permutations(Txn)

=============================================================================
