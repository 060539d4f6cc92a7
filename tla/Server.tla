------------------------------- MODULE Server -------------------------------
(***************************************************************************)
(* One instance of the API from its start to its exit: connections and the *)
(* middleware chain their requests pass, the rate limiters, bootstrap and  *)
(* gracefulShutdown, the connection to Redis, and restarts.                *)
(*                                                                         *)
(* What a handler does with the stores is the subject of Api; here it is   *)
(* one step that ends in a response.                                       *)
(***************************************************************************)
EXTENDS RateLimiter, Sequences

CONSTANTS
    Conn,               \* connections of the client
    Call,               \* bound on overlapping calls of gracefulShutdown
    ShutdownTimeout,    \* the 10 s of gracefulShutdown's timer
    None                \* no exit code yet, no timer running

ASSUME ServerAssumption ==
    /\ Limiter = {"global", "auth"}
    /\ ShutdownTimeout \in Nat
    /\ None \notin Nat

VARIABLES
    phase,      \* starting, up (handlers are installed and it listens), exited
    code,       \* the exit code
    timer,      \* what is left until the first shutdown timer fires
    closing,    \* what each call of gracefulShutdown waits for
    conn,       \* the connections that are open
    chain,      \* what the request on each connection has still to pass
    sending     \* what its limiter has Redis do

serverVars == <<phase, code, timer, closing>>
requestVars == <<chain, sending>>
svars == <<limiterVars, redisVars, serverVars, conn, requestVars>>

\* The routes: register and login have both limiters, GET /health has none,
\* and neither has a request that the CORS check or the body parser refuses.
Route == {<<"global", "auth", "handler">>, <<"global", "handler">>, <<"handler">>}

Chain == Route \cup {<<"auth", "handler">>, <<>>}

Closing == {"none", "connections", "database", "redis"}

\* The store runs its script; after any error it loads the script and runs it
\* again, and a second error is the middleware's.
Sending == {"script", "load", "again"}

ServerTypeOK ==
    /\ LimiterTypeOK
    /\ phase \in {"starting", "up", "exited"}
    /\ code \in {None, 0, 1, 137}
    /\ timer \in {None} \cup 0 .. ShutdownTimeout
    /\ closing \in [Call -> Closing]
    /\ conn \in SUBSET Conn
    /\ chain \in [Conn -> Chain]
    /\ sending \in [Conn -> Sending]

SInit ==
    /\ LimiterInit
    /\ phase = "starting"
    /\ code = None
    /\ timer = None
    /\ closing = [i \in Call |-> "none"]
    /\ conn = {}
    /\ chain = [c \in Conn |-> <<>>]
    /\ sending = [c \in Conn |-> "script"]

Up == phase = "up"

ShuttingDown == \E i \in Call : closing[i] # "none"

\* The request on c waits for Redis to count it.
AtLimiter(c) == chain[c] # <<>> /\ Head(chain[c]) \in Limiter

\* The process is gone, and with it its connections, timers and requests.  A
\* client that had ended is not there any more to stay ended.
Exit(exitCode) ==
    /\ phase' = "exited"
    /\ code' = exitCode
    /\ timer' = None
    /\ closing' = [i \in Call |-> "none"]
    /\ conn' = {}
    /\ chain' = [c \in Conn |-> <<>>]
    /\ sending' = [c \in Conn |-> "script"]
    /\ link' = IF link = "ended" THEN "up" ELSE link
    /\ attempts' = 0
    /\ UNCHANGED <<outages, limiterVars>>

-----------------------------------------------------------------------------
(* Requests.                                                               *)

\* A connection's slot is free when the handler of its last request is over.
Connect(c) ==
    /\ Up /\ ~ShuttingDown
    /\ c \notin conn /\ chain[c] = <<>>
    /\ conn' = conn \cup {c}
    /\ UNCHANGED <<limiterVars, redisVars, serverVars, requestVars>>

\* A connection that is open may carry requests while the server is closing.
Arrive(c) ==
    /\ c \in conn /\ chain[c] = <<>>
    /\ \E route \in Route : chain' = [chain EXCEPT ![c] = route]
    /\ UNCHANGED <<limiterVars, redisVars, serverVars, conn, sending>>

\* The limiter's command: on to the next middleware, or a 429.
Count(c) ==
    LET l == Head(chain[c])
    IN  /\ AtLimiter(c) /\ sending[c] # "load"
        /\ link = "up"
        /\ Hit(l)
        /\ chain' = [chain EXCEPT ![c] = IF Admits(l) THEN Tail(@) ELSE <<>>]
        /\ sending' = [sending EXCEPT ![c] = "script"]
        /\ UNCHANGED <<redisVars, serverVars, conn>>

\* Redis counts the hit, the connection is lost before the answer, and the
\* client will send the command again.
CountUnheard(c) ==
    /\ AtLimiter(c) /\ sending[c] # "load"
    /\ Disconnect
    /\ Increment(Head(chain[c]))
    /\ link' = "down"
    /\ UNCHANGED <<attempts, admitted, serverVars, conn, requestVars>>

\* Redis does not know the script, or the store's last attempt to load it has
\* failed.
ScriptUnknown(c) ==
    /\ AtLimiter(c) /\ sending[c] = "script"
    /\ sending' = [sending EXCEPT ![c] = "load"]
    /\ UNCHANGED <<limiterVars, redisVars, serverVars, conn, chain>>

LoadScript(c) ==
    /\ AtLimiter(c) /\ sending[c] = "load"
    /\ link = "up"
    /\ sending' = [sending EXCEPT ![c] = "again"]
    /\ UNCHANGED <<limiterVars, redisVars, serverVars, conn, chain>>

\* The handler's response.
Respond(c) ==
    /\ chain[c] = <<"handler">>
    /\ chain' = [chain EXCEPT ![c] = <<>>]
    /\ UNCHANGED <<limiterVars, redisVars, serverVars, conn, sending>>

\* The client leaves, or an idle connection's keep-alive time is over.  The
\* handler of a request does not notice.
HangUp(c) ==
    /\ c \in conn
    /\ conn' = conn \ {c}
    /\ UNCHANGED <<limiterVars, redisVars, serverVars, requestVars>>

\* The same client asks another instance.
CountElsewhere(l) ==
    /\ Hit(l)
    /\ UNCHANGED <<redisVars, serverVars, conn, requestVars>>

-----------------------------------------------------------------------------
(* The Redis client.                                                       *)

LoseRedis ==
    /\ Disconnect
    /\ link' = "down"
    /\ UNCHANGED <<attempts, limiterVars, serverVars, conn, requestVars>>

RegainRedis == Reconnect /\ UNCHANGED <<serverVars, conn, requestVars>>

\* Mutant: maxRetriesPerRequest is null, and commands wait for ever.
WaitForever == UNCHANGED <<closing, requestVars>>

\* Every waiting command is rejected.  A limiter's first error has the script
\* loaded, and its second ends in a 500.  A rejected quit is an unhandled
\* rejection, which calls gracefulShutdown anew.
RejectWaiting ==
    /\ chain' = [c \in Conn |->
          IF AtLimiter(c) /\ sending[c] # "script" THEN <<>> ELSE chain[c]]
    /\ sending' = [c \in Conn |->
          IF AtLimiter(c) /\ sending[c] = "script" THEN "load" ELSE "script"]
    /\ closing' = [i \in Call |-> IF closing[i] = "redis" THEN "connections" ELSE closing[i]]

\* An attempt to reconnect fails.  After so many, the client gives up on what
\* is waiting, and tries on.
RetryFails ==
    /\ Up
    /\ link = "down"
    /\ \/ /\ attempts < MaxRetries
          /\ attempts' = attempts + 1
          /\ UNCHANGED <<closing, requestVars>>
       \/ /\ attempts = MaxRetries
          /\ attempts' = 0
          /\ RejectWaiting
    /\ UNCHANGED <<link, outages, limiterVars, phase, code, timer, conn>>

\* QUIT is on its way when the connection is lost: the client ends, although
\* disconnectRedis has not forgotten it.
QuitUnheard(i) ==
    /\ closing[i] = "redis"
    /\ Disconnect
    /\ link' = "ended"
    /\ RejectWaiting
    /\ UNCHANGED <<attempts, limiterVars, phase, code, timer, conn>>

\* A client that has ended rejects every command.
EndedRejects ==
    /\ link = "ended"
    /\ (\E c \in Conn : AtLimiter(c)) \/ (\E i \in Call : closing[i] = "redis")
    /\ RejectWaiting
    /\ UNCHANGED <<limiterVars, redisVars, phase, code, timer, conn>>

-----------------------------------------------------------------------------
(* Start and exit.                                                         *)

Bootstrap ==
    /\ phase = "starting"
    /\ phase' = "up"
    /\ UNCHANGED <<limiterVars, redisVars, code, timer, closing, conn, requestVars>>

\* connectDatabase fails.
BootstrapFails == phase = "starting" /\ Exit(1)

\* Mutant: the shutdown has no timer.
NoTimer == timer

StartTimer == IF timer = None THEN ShutdownTimeout ELSE timer

\* gracefulShutdown, on a signal, an unhandled rejection or an uncaught
\* exception: server.close also ends the connections that are idle.
GracefulShutdown(i) ==
    /\ Up
    /\ closing[i] = "none"
    /\ closing' = [closing EXCEPT ![i] = "connections"]
    /\ timer' = StartTimer
    /\ conn' = {c \in conn : chain[c] # <<>>}
    /\ UNCHANGED <<limiterVars, redisVars, phase, code, requestVars>>

\* Mutant: open connections are not waited for.
DrainedAnyway == TRUE

Drained == conn = {}

\* server.close calls back.
ServerClosed(i) ==
    /\ closing[i] = "connections"
    /\ Drained
    /\ closing' = [closing EXCEPT ![i] = "database"]
    /\ UNCHANGED <<limiterVars, redisVars, phase, code, timer, conn, requestVars>>

\* Commands of requests and of other calls that wait for the connection.
MayBeQueued == (\E c \in Conn : chain[c] # <<>>) \/ (\E i \in Call : closing[i] = "redis")

\* The QUIT is sent, or queued behind other commands.
DatabaseDisconnected(i) ==
    /\ closing[i] = "database"
    /\ link = "down" => MayBeQueued
    /\ closing' = [closing EXCEPT ![i] = "redis"]
    /\ UNCHANGED <<limiterVars, redisVars, phase, code, timer, conn, requestVars>>

\* Without a connection and with no command queued, quit resolves at once.  The
\* commands of requests may have been sent and have to be sent again: those are
\* not in that queue.
QuitUnconnected(i) ==
    /\ closing[i] = "database"
    /\ link = "down"
    /\ \A j \in Call : closing[j] # "redis"
    /\ Exit(0)

\* Redis answers QUIT, and nothing is awaited before the exit.
RedisDisconnected(i) ==
    /\ closing[i] = "redis"
    /\ link = "up"
    /\ Exit(0)

TimerFires == timer = 0 /\ Exit(1)

\* The process is killed, or dies of an error before its handlers are there.
Killed == phase # "exited" /\ Exit(137)

\* restart: unless-stopped
Restart ==
    /\ phase = "exited"
    /\ phase' = "starting"
    /\ code' = None
    /\ UNCHANGED <<limiterVars, redisVars, timer, closing, conn, requestVars>>

Tick ==
    /\ Expire
    /\ timer' = IF timer \in {None, 0} THEN timer ELSE timer - 1
    /\ UNCHANGED <<redisVars, phase, code, closing, conn, requestVars>>

-----------------------------------------------------------------------------

SNext ==
    \/ \E c \in Conn :
          \/ Connect(c) \/ Arrive(c) \/ Respond(c) \/ HangUp(c)
          \/ Count(c) \/ CountUnheard(c) \/ ScriptUnknown(c) \/ LoadScript(c)
    \/ \E l \in Limiter : CountElsewhere(l)
    \/ \E i \in Call :
          \/ GracefulShutdown(i) \/ ServerClosed(i) \/ DatabaseDisconnected(i)
          \/ QuitUnheard(i) \/ QuitUnconnected(i) \/ RedisDisconnected(i)
    \/ LoseRedis \/ RegainRedis \/ RetryFails \/ EndedRejects
    \/ Bootstrap \/ BootstrapFails \/ TimerFires \/ Killed \/ Restart \/ Tick

\* Time passes, timers fire, connected stores answer, and the Redis client's
\* attempts to reconnect end.  Nothing says that Redis comes back, that a
\* client leaves or that the process is restarted.
SFairness ==
    /\ WF_svars(Tick)
    /\ WF_svars(TimerFires)
    /\ WF_svars(RetryFails)
    /\ WF_svars(EndedRejects)
    /\ \A c \in Conn : WF_svars(LoadScript(c)) /\ WF_svars(Count(c)) /\ WF_svars(Respond(c))

SSpec == SInit /\ [][SNext]_svars /\ SFairness

-----------------------------------------------------------------------------

\* Nothing outlives the process, its timer runs exactly while it shuts down,
\* and a counter in Redis has an expiry exactly while it counts: none is left
\* to count for ever.
ServerInv ==
    /\ ServerTypeOK
    /\ ~Up => conn = {} /\ ~ShuttingDown /\ \A c \in Conn : chain[c] = <<>>
    /\ \A c \in Conn : sending[c] # "script" => AtLimiter(c)
    /\ phase = "exited" <=> code # None
    /\ ShuttingDown <=> timer # None
    /\ \A l \in Limiter : hits[l] > 0 <=> ttl[l] > 0
    /\ \A i \in Call : closing[i] \in {"database", "redis"} => conn = {}

\* The process ends with code 0 only when no client is connected: a response
\* that someone waits for is cut off by the timer or by a kill, never by the
\* orderly way out, however many calls of gracefulShutdown overlap.
CleanExit == [][(Up /\ phase' = "exited" /\ code' = 0) => conn = {}]_svars

\* Every request ends: while Redis is away with a 500, after two rounds of the
\* client's retries, however long it stays away, instead of waiting for its
\* return.
RequestsEnd == \A c \in Conn : (chain[c] # <<>>) ~> (chain[c] = <<>>)

\* A shutdown that has begun ends: connections that are kept alive and busy,
\* a Redis that does not answer and rejections during the shutdown delay it no
\* longer than the timer.
ShutdownEnds == ShuttingDown ~> (phase = "exited")

=============================================================================
