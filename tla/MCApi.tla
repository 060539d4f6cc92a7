-------------------------------- MODULE MCApi --------------------------------
(***************************************************************************)
(* Instances of the API for TLC.                                           *)
(***************************************************************************)
EXTENDS ApiHistory, TLC

CONSTANTS r1, r2, u1, u2, e1, e2, alice, Alice, pw1, pw2, pw3, MaxPair

MCPair == 1 .. MaxPair

\* alice is how the schema of register writes Alice.
MCLower == [n \in Username |-> IF n = Alice THEN alice ELSE n]

\* pw3 agrees with pw2 in its first 72 bytes.
MCDigest == [p \in Password |-> IF p = pw3 THEN pw2 ELSE p]

\* One registered user, and an administrator who has logged in before.
User(email, username, role) ==
    [email |-> email, username |-> username, passwordHash |-> pw1,
     role |-> role, isActive |-> TRUE]

SeedOne == [u \in UserId |-> User(e1, alice, "USER")]

SeedAdmin == [u \in UserId |-> IF u = u1 THEN User(e1, alice, "ADMIN") ELSE Absent]

NoPatches == {}

\* What an administrator changes of a user.
AdminPatches ==
    {[NoPatch EXCEPT !.isActive = FALSE], [NoPatch EXCEPT !.role = "USER"],
     [NoPatch EXCEPT !.username = Alice]}

SessionOps == {"login", "refresh", "logout", "changePassword"}
RotateOps == {"login", "refresh", "logout"}
PasswordOps == {"login", "refresh", "changePassword"}
LedgerOps == {"login", "refresh", "logout", "changePassword", "getUserById", "deleteUser"}
ClockOps == {"login", "refresh", "logout", "me"}
AccountOps == {"register", "login", "refresh", "updateUser", "deleteUser"}

Slots == Permutations(Request)

=============================================================================
