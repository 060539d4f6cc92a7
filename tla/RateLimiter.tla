----------------------------- MODULE RateLimiter -----------------------------
(***************************************************************************)
(* The two rate limiters, as one client's keys in Redis see them, and this *)
(* instance's connection to Redis.                                         *)
(*                                                                         *)
(* The store's script is one atomic command: it opens a window with its    *)
(* first hit, and counts hits until the key expires.  Time is in units.    *)
(***************************************************************************)
EXTENDS Naturals, FiniteSets

CONSTANTS
    Limiter,        \* the limiters, by the prefix of their keys
    Max,            \* RATE_LIMIT_MAX_REQUESTS, AUTH_RATE_LIMIT_MAX_REQUESTS
    Window,         \* RATE_LIMIT_WINDOW_MS, AUTH_RATE_LIMIT_WINDOW_MS
    MaxRetries,     \* maxRetriesPerRequest
    MaxOutages      \* bound on how often the connection to Redis is lost

ASSUME LimiterAssumption ==
    /\ Max \in [Limiter -> Nat]
    /\ Window \in [Limiter -> Nat \ {0}]
    /\ MaxRetries \in Nat
    /\ MaxOutages \in Nat

VARIABLES
    hits,       \* the count under each key, up to one more than Max
    ttl,        \* what is left of its window; 0 if there is no key
    admitted,   \* by age in units, the hits of this client that were let through
    link,       \* the Redis client: connected, reconnecting, or ended for good
    attempts,   \* its failed attempts to reconnect, modulo MaxRetries + 1
    outages     \* how often it has lost the connection

limiterVars == <<hits, ttl, admitted>>
redisVars == <<link, attempts, outages>>

LimiterTypeOK ==
    /\ hits \in [Limiter -> Nat] /\ \A l \in Limiter : hits[l] <= Max[l] + 1
    /\ ttl \in [Limiter -> Nat] /\ \A l \in Limiter : ttl[l] <= Window[l]
    /\ DOMAIN admitted = Limiter
    /\ \A l \in Limiter : admitted[l] \in [0 .. Window[l] - 1 -> Nat]
    /\ link \in {"up", "down", "ended"}
    /\ attempts \in 0 .. MaxRetries
    /\ outages \in 0 .. MaxOutages

LimiterInit ==
    /\ hits = [l \in Limiter |-> 0]
    /\ ttl = [l \in Limiter |-> 0]
    /\ admitted = [l \in Limiter |-> [age \in 0 .. Window[l] - 1 |-> 0]]
    /\ link = "up"
    /\ attempts = 0
    /\ outages = 0

\* What INCR answers.  A rejected hit is counted like any other.
HitsAfter(l) ==
    IF ttl[l] = 0 THEN 1 ELSE IF hits[l] > Max[l] THEN hits[l] ELSE hits[l] + 1

\* Mutant: every hit starts the window anew (resetExpiryOnChange).
TtlSliding(l) == Window[l]

\* Mutant: the key is given no expiry.
TtlUnset(l) == ttl[l]

\* Only the first hit sets the key's expiry.
TtlAfter(l) == IF ttl[l] = 0 THEN Window[l] ELSE ttl[l]

\* Mutant: the limit is reached before it refuses.
AdmitsOneMore(l) == HitsAfter(l) <= Max[l] + 1

Admits(l) == HitsAfter(l) <= Max[l]

\* The script has run, and its answer has come back or not.
Increment(l) ==
    /\ hits' = [hits EXCEPT ![l] = HitsAfter(l)]
    /\ ttl' = [ttl EXCEPT ![l] = TtlAfter(l)]

Hit(l) ==
    /\ Increment(l)
    /\ admitted' = IF Admits(l) THEN [admitted EXCEPT ![l][0] = @ + 1] ELSE admitted

\* Redis expires the keys.
Expire ==
    /\ ttl' = [l \in Limiter |-> IF ttl[l] = 0 THEN 0 ELSE ttl[l] - 1]
    /\ hits' = [l \in Limiter |-> IF ttl[l] <= 1 THEN 0 ELSE hits[l]]
    /\ admitted' = [l \in Limiter |-> [age \in 0 .. Window[l] - 1 |->
                       IF age = 0 THEN 0 ELSE admitted[l][age - 1]]]

\* The connection is lost: whatever was sent and not answered is sent again.
Disconnect ==
    /\ link = "up"
    /\ outages < MaxOutages
    /\ outages' = outages + 1

\* retryStrategy always names a delay: the client never stops trying.
Reconnect ==
    /\ link = "down"
    /\ link' = "up"
    /\ attempts' = 0
    /\ UNCHANGED <<outages, limiterVars>>

-----------------------------------------------------------------------------

\* The hits of one window's length that were let through, by age and number.
Passed(l) == UNION {{age} \X (1 .. admitted[l][age]) : age \in 0 .. Window[l] - 1}

\* In no interval as long as the window are more than 2 * Max - 1 hits of one
\* client let through, whichever instances count them, and whatever is lost
\* and sent again: what a window that shifts with its first hit can promise,
\* and more than the Max that its documentation names.
BurstBound ==
    \A l \in Limiter : Cardinality(Passed(l)) <= IF Max[l] = 0 THEN 0 ELSE 2 * Max[l] - 1

\* A client that was refused is let through again after the window, however
\* often it keeps asking.
LimitLifts == \A l \in Limiter : (hits[l] > Max[l]) ~> (hits[l] <= Max[l])

=============================================================================
