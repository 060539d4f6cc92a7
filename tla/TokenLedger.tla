----------------------------- MODULE TokenLedger -----------------------------
(***************************************************************************)
(* What the API promises of refresh tokens and accounts, without requests, *)
(* statements or time: each change of the ledger is one step.              *)
(*                                                                         *)
(* Some tokens may be marked late as they enter.  A late token alone may   *)
(* replace a revoked one, and is alone in outliving a change of password.  *)
(* With late always empty this is the documentation's promise.             *)
(***************************************************************************)

CONSTANTS
    Token,      \* refresh tokens
    Owner,      \* accounts
    Nobody      \* the owner of a token that is not in the ledger

VARIABLES
    account,    \* the state of each account
    status,     \* the state of each token
    owner,      \* whose token it is
    parent,     \* the token it has replaced
    late        \* the tokens that were marked late

lvars == <<account, status, owner, parent, late>>

Current == {k \in Token : status[k] \in {"live", "revoked"}}

OwnedBy(u) == {k \in Current : owner[k] = u}

LInit ==
    /\ account \in [Owner -> {"none", "open"}]
    /\ status = [k \in Token |-> "unborn"]
    /\ owner = [k \in Token |-> Nobody]
    /\ parent = [k \in Token |-> Nobody]
    /\ late = {}

\* A token enters the ledger once, and live.
Enter(k, u, p) ==
    /\ status[k] = "unborn"
    /\ owner' = [owner EXCEPT ![k] = u]
    /\ parent' = [parent EXCEPT ![k] = p]
    /\ late' \in {late, late \cup {k}}

\* A new account comes with its first token.
Enroll(u, k) ==
    /\ account[u] = "none"
    /\ account' = [account EXCEPT ![u] = "open"]
    /\ Enter(k, u, Nobody)
    /\ status' = [status EXCEPT ![k] = "live"]

\* A login opens a session of an open account.
OpenSession(u, k) ==
    /\ account[u] = "open"
    /\ Enter(k, u, Nobody)
    /\ status' = [status EXCEPT ![k] = "live"]
    /\ UNCHANGED account

\* A token is revoked and its successor, of the same owner, enters.
Rotate(t, k) ==
    /\ t \in Current
    /\ k \in late' \/ (status[t] = "live" /\ t \notin late)
    /\ Enter(k, owner[t], t)
    /\ status' = [status EXCEPT ![t] = "revoked", ![k] = "live"]
    /\ UNCHANGED account

Revoked(K) == [k \in Token |-> IF k \in K THEN "revoked" ELSE status[k]]

Revoke(t) ==
    /\ t \in Current
    /\ status' = Revoked({t})
    /\ UNCHANGED <<account, owner, parent, late>>

\* A change of password leaves its account no live token that is not late.
RevokeAll(u) ==
    /\ account[u] = "open"
    /\ \E K \in SUBSET OwnedBy(u) :
          /\ \A k \in OwnedBy(u) \ K : status[k] = "live" => k \in late
          /\ status' = Revoked(K)
    /\ UNCHANGED <<account, owner, parent, late>>

\* An account goes for good, with everything it owns.
Close(u) ==
    /\ account[u] = "open"
    /\ account' = [account EXCEPT ![u] = "closed"]
    /\ status' = [k \in Token |-> IF k \in OwnedBy(u) THEN "deleted" ELSE status[k]]
    /\ owner' = [k \in Token |-> IF k \in OwnedBy(u) THEN Nobody ELSE owner[k]]
    /\ UNCHANGED <<parent, late>>

\* Revoking what is not live is no step of the ledger but a stutter.
LNext ==
    /\ ~ UNCHANGED lvars
    /\ \/ \E u \in Owner, k \in Token : Enroll(u, k) \/ OpenSession(u, k)
       \/ \E t, k \in Token : Rotate(t, k)
       \/ \E t \in Token : Revoke(t)
       \/ \E u \in Owner : RevokeAll(u) \/ Close(u)

LSpec == LInit /\ [][LNext]_lvars

=============================================================================
