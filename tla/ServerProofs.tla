---------------------------- MODULE ServerProofs ----------------------------
(***************************************************************************)
(* The invariant of Server, that its orderly exit waits for clients, what  *)
(* its limiters let through, and that what it waits for runs out.          *)
(***************************************************************************)
EXTENDS Server, LimiterProofs

LEMMA TailOfChain ==
    ASSUME NEW s \in Chain, s # <<>>, Head(s) \in Limiter
    PROVE  Tail(s) \in Chain
  <1>1. CASE s = <<"global", "auth", "handler">>
    BY <1>1 DEF Chain
  <1>2. CASE s = <<"global", "handler">>
    BY <1>2 DEF Chain, Route
  <1>3. CASE s = <<"auth", "handler">>
    BY <1>3 DEF Chain, Route
  <1>4. CASE s = <<"handler">>
    BY <1>4, ServerAssumption
  <1> QED BY <1>1, <1>2, <1>3, <1>4 DEF Chain, Route

LEMMA EmptyChain == <<>> \in Chain /\ Route \subseteq Chain
  BY DEF Chain

-----------------------------------------------------------------------------
(* The process.                                                            *)

RequestsOK ==
    /\ chain \in [Conn -> Chain]
    /\ sending \in [Conn -> Sending]
    /\ \A c \in Conn : sending[c] # "script" => AtLimiter(c)

ProcessOK ==
    /\ phase \in {"starting", "up", "exited"}
    /\ code \in {None, 0, 1, 137}
    /\ timer \in {None} \cup 0 .. ShutdownTimeout
    /\ closing \in [Call -> Closing]
    /\ conn \in SUBSET Conn
    /\ RequestsOK
    /\ ~Up => conn = {} /\ ~ShuttingDown /\ \A c \in Conn : chain[c] = <<>>
    /\ phase = "exited" <=> code # None
    /\ ShuttingDown <=> timer # None
    /\ \A i \in Call : closing[i] \in {"database", "redis"} => conn = {}

LEMMA ServerInvParts == ServerInv <=> CountersOK /\ ProcessOK
  BY DEF ServerInv, ServerTypeOK, CountersOK, ProcessOK, RequestsOK

LEMMA ServerInvPartsPrime == ServerInv' <=> CountersOK' /\ ProcessOK'
  BY ServerInvParts, PTL

LEMMA ServerInvInit == SInit => ServerInv
  <1> SUFFICES ASSUME SInit PROVE CountersOK /\ ProcessOK
    BY ServerInvParts
  <1>1. CountersOK
    BY LimiterAssumption DEF SInit, LimiterInit, CountersOK, LimiterTypeOK
  <1>2. ProcessOK
    BY ServerAssumption, EmptyChain
    DEF SInit, ProcessOK, RequestsOK, Sending, ShuttingDown, Up, Closing
  <1> QED BY <1>1, <1>2

LEMMA ExitOK ==
    ASSUME ServerInv, NEW n \in {0, 1, 137}, Exit(n)
    PROVE  ServerInv'
  <1>1. CountersOK'
    BY ServerInvParts, CountersUnchanged, LimiterAssumption, SMTT(20) DEF Exit, CountersOK, LimiterTypeOK
  <1>2. ProcessOK'
    BY ServerAssumption, EmptyChain
    DEF Exit, ProcessOK, RequestsOK, Sending, ShuttingDown, Up, Closing
  <1> QED BY <1>1, <1>2, ServerInvPartsPrime

\* The requests on the connections move, the process does not.
LEMMA ChainStepOK ==
    ASSUME ServerInv, UNCHANGED serverVars, NEW c \in Conn, Up,
           conn' \in SUBSET conn \/ (~ShuttingDown /\ conn' \in SUBSET Conn),
           RequestsOK'
    PROVE  ProcessOK'
  BY ServerInvParts DEF ProcessOK, serverVars, ShuttingDown, Up

LEMMA RejectOK ==
    ASSUME ServerInv, RejectWaiting, UNCHANGED <<phase, code, timer, conn>>
    PROVE  ProcessOK'
  <1> USE ServerInvParts
  <1>1. /\ chain' \in [Conn -> Chain] /\ \A c \in Conn : chain[c] = <<>> => chain'[c] = <<>>
        /\ sending' \in [Conn -> Sending]
    BY EmptyChain DEF RejectWaiting, ProcessOK, RequestsOK, Sending
  <1>5. ASSUME NEW c \in Conn, sending'[c] # "script"
        PROVE  AtLimiter(c)'
    <2>1. AtLimiter(c) /\ chain'[c] = chain[c]
      BY <1>5 DEF RejectWaiting, ProcessOK, RequestsOK
    <2> QED BY <2>1 DEF AtLimiter
  <1>2. closing' \in [Call -> Closing]
    BY DEF RejectWaiting, ProcessOK, Closing
  <1>3. \A i \in Call : /\ closing'[i] = "none" <=> closing[i] = "none"
                        /\ closing'[i] \in {"database", "redis"} => closing[i] = closing'[i]
    BY DEF RejectWaiting, ProcessOK, Closing
  <1>4. ShuttingDown' <=> ShuttingDown
    BY <1>3 DEF ShuttingDown
  <1> QED BY <1>1, <1>2, <1>3, <1>4, <1>5 DEF ProcessOK, RequestsOK, Up

\* One call of gracefulShutdown goes on.
LEMMA ClosingStepOK ==
    ASSUME ServerInv, NEW i \in Call, NEW next \in Closing \ {"none"}, closing[i] # "none",
           closing' = [closing EXCEPT ![i] = next], next \in {"database", "redis"} => conn = {},
           UNCHANGED <<phase, code, timer, conn, requestVars>>
    PROVE  ProcessOK'
  <1> USE ServerInvParts DEF requestVars, RequestsOK, AtLimiter
  <1>1. closing' \in [Call -> Closing] /\ closing'[i] = next
    BY DEF ProcessOK
  <1>2. \A j \in Call \ {i} : closing'[j] = closing[j]
    BY DEF ProcessOK
  <1>3. ShuttingDown' <=> ShuttingDown
    BY <1>1, <1>2 DEF ShuttingDown
  <1> QED BY <1>1, <1>2, <1>3 DEF ProcessOK, Up

-----------------------------------------------------------------------------
(* The steps.                                                              *)

\* A step of a request, with its connection's slot moving on.
LEMMA RequestStepOK ==
    ASSUME ServerInv, NEW c \in Conn,
           \/ Connect(c) \/ Arrive(c) \/ Respond(c) \/ HangUp(c)
           \/ Count(c) \/ CountUnheard(c) \/ ScriptUnknown(c) \/ LoadScript(c)
    PROVE  ServerInv'
  <1> USE ServerInvParts
  <1>1. CASE Connect(c)
    <2>1. CountersOK'
      BY <1>1, CountersUnchanged DEF Connect, CountersOK, LimiterTypeOK, redisVars
    <2>2. RequestsOK' /\ conn' \in SUBSET Conn
      BY <1>1 DEF Connect, ProcessOK, RequestsOK, AtLimiter, requestVars
    <2> QED BY <1>1, <2>1, <2>2, ChainStepOK, ServerInvPartsPrime DEF Connect
  <1>2. CASE Arrive(c)
    <2>1. CountersOK'
      BY <1>2, CountersUnchanged DEF Arrive, CountersOK, LimiterTypeOK, redisVars
    <2>2. chain' \in [Conn -> Chain] /\ Up
      BY <1>2, EmptyChain DEF Arrive, ProcessOK, RequestsOK
    <2>3. RequestsOK'
      BY <1>2, <2>2 DEF Arrive, ProcessOK, RequestsOK, AtLimiter
    <2> QED BY <1>2, <2>1, <2>2, <2>3, ChainStepOK, ServerInvPartsPrime DEF Arrive
  <1>3. CASE Count(c)
    <2>1. Head(chain[c]) \in Limiter /\ chain[c] # <<>> /\ chain[c] \in Chain
      BY <1>3 DEF Count, AtLimiter, ProcessOK, RequestsOK
    <2>2. CountersOK'
      BY <1>3, <2>1, HitOK DEF Count
    <2>3. chain' \in [Conn -> Chain] /\ Up
      BY <1>3, <2>1, TailOfChain, EmptyChain DEF Count, ProcessOK, RequestsOK
    <2>4. RequestsOK'
      BY <1>3, <2>3 DEF Count, ProcessOK, RequestsOK, Sending, AtLimiter
    <2> QED BY <1>3, <2>2, <2>3, <2>4, ChainStepOK, ServerInvPartsPrime DEF Count
  <1>4. CASE CountUnheard(c)
    <2>1. Head(chain[c]) \in Limiter /\ Up
      BY <1>4 DEF CountUnheard, AtLimiter, ProcessOK
    <2>2. CountersOK'
      BY <1>4, <2>1, IncrementOK, DisconnectOK DEF CountUnheard, CountersOK, LimiterTypeOK
    <2>3. RequestsOK' /\ conn' = conn
      BY <1>4 DEF CountUnheard, ProcessOK, RequestsOK, AtLimiter, requestVars
    <2> QED BY <1>4, <2>1, <2>2, <2>3, ChainStepOK, ServerInvPartsPrime DEF CountUnheard, ProcessOK
  <1>5. CASE Respond(c)
    <2>1. CountersOK'
      BY <1>5, CountersUnchanged DEF Respond, CountersOK, LimiterTypeOK, redisVars
    <2>2. chain' \in [Conn -> Chain] /\ Up /\ ~AtLimiter(c)
      BY <1>5, ServerAssumption, EmptyChain DEF Respond, ProcessOK, RequestsOK, AtLimiter
    <2>3. RequestsOK'
      BY <1>5, <2>2 DEF Respond, ProcessOK, RequestsOK, AtLimiter
    <2> QED BY <1>5, <2>1, <2>2, <2>3, ChainStepOK, ServerInvPartsPrime DEF Respond
  <1>6. CASE HangUp(c)
    <2>1. CountersOK'
      BY <1>6, CountersUnchanged DEF HangUp, CountersOK, LimiterTypeOK, redisVars
    <2>2. RequestsOK' /\ Up /\ conn' \in SUBSET conn
      BY <1>6 DEF HangUp, ProcessOK, RequestsOK, AtLimiter, requestVars
    <2> QED BY <1>6, <2>1, <2>2, ChainStepOK, ServerInvPartsPrime DEF HangUp
  <1>7. ASSUME ScriptUnknown(c) \/ LoadScript(c)
        PROVE  ServerInv'
    <2>1. CountersOK'
      BY <1>7, CountersUnchanged
      DEF ScriptUnknown, LoadScript, CountersOK, LimiterTypeOK, redisVars
    <2>2. RequestsOK' /\ Up /\ conn' = conn
      BY <1>7 DEF ScriptUnknown, LoadScript, ProcessOK, RequestsOK, Sending, AtLimiter
    <2> QED
      BY <1>7, <2>1, <2>2, ChainStepOK, ServerInvPartsPrime DEF ScriptUnknown, LoadScript, ProcessOK
  <1> QED BY <1>1, <1>2, <1>3, <1>4, <1>5, <1>6, <1>7

LEMMA RedisStepOK ==
    ASSUME ServerInv, LoseRedis \/ RegainRedis \/ RetryFails \/ EndedRejects
    PROVE  ServerInv'
  <1> USE ServerInvParts
  <1>1. CASE LoseRedis
    <2>1. CountersOK'
      BY <1>1, DisconnectOK, CountersUnchanged DEF LoseRedis, CountersOK, LimiterTypeOK
    <2>2. ProcessOK'
      BY <1>1
      DEF LoseRedis, serverVars, requestVars, ProcessOK, RequestsOK, AtLimiter, Up, ShuttingDown
    <2> QED BY <2>1, <2>2, ServerInvPartsPrime
  <1>2. CASE RegainRedis
    <2>1. CountersOK'
      BY <1>2, CountersUnchanged, LimiterAssumption, SMTT(20)
         DEF RegainRedis, Reconnect, CountersOK, LimiterTypeOK
    <2>2. ProcessOK'
      BY <1>2
      DEF RegainRedis, serverVars, requestVars, ProcessOK, RequestsOK, AtLimiter, Up, ShuttingDown
    <2> QED BY <2>1, <2>2, ServerInvPartsPrime
  <1>3. CASE RetryFails
    <2>1. attempts' \in 0 .. MaxRetries
      BY <1>3, LimiterAssumption DEF RetryFails, CountersOK, LimiterTypeOK
    <2>2. CountersOK'
      BY <1>3, <2>1, CountersUnchanged DEF RetryFails, CountersOK, LimiterTypeOK
    <2>3. CASE UNCHANGED <<closing, requestVars>>
      <3>1. ProcessOK'
        BY <1>3, <2>3
        DEF RetryFails, requestVars, ProcessOK, RequestsOK, AtLimiter, Up, ShuttingDown
      <3> QED BY <3>1, <2>2, ServerInvPartsPrime
    <2> QED BY <1>3, <2>2, <2>3, RejectOK, ServerInvPartsPrime DEF RetryFails
  <1>4. CASE EndedRejects
    <2>1. CountersOK'
      BY <1>4, CountersUnchanged DEF EndedRejects, CountersOK, LimiterTypeOK, redisVars
    <2> QED BY <1>4, <2>1, RejectOK, ServerInvPartsPrime DEF EndedRejects
  <1> QED BY <1>1, <1>2, <1>3, <1>4

LEMMA ShutdownStepOK ==
    ASSUME ServerInv, NEW i \in Call,
           \/ GracefulShutdown(i) \/ ServerClosed(i) \/ DatabaseDisconnected(i)
           \/ QuitUnheard(i) \/ QuitUnconnected(i) \/ RedisDisconnected(i)
    PROVE  ServerInv'
  <1> USE ServerInvParts
  <1>1. CASE GracefulShutdown(i)
    <2>1. CountersOK'
      BY <1>1, CountersUnchanged DEF GracefulShutdown, CountersOK, LimiterTypeOK, redisVars
    <2>2. closing' \in [Call -> Closing] /\ closing'[i] = "connections"
      BY <1>1 DEF GracefulShutdown, ProcessOK, Closing
    <2>3. timer' \in 0 .. ShutdownTimeout
      BY <1>1, ServerAssumption DEF GracefulShutdown, StartTimer, ProcessOK
    <2>4. ShuttingDown' /\ timer' # None
      BY <2>2, <2>3, ServerAssumption DEF ShuttingDown
    <2>5. \A j \in Call : closing'[j] \in {"database", "redis"} => closing[j] = closing'[j]
      BY <1>1 DEF GracefulShutdown, ProcessOK
    <2>6. conn' \subseteq conn
      BY <1>1 DEF GracefulShutdown
    <2>7. ProcessOK'
      BY <1>1, <2>2, <2>3, <2>4, <2>5, <2>6
      DEF GracefulShutdown, requestVars, ProcessOK, RequestsOK, AtLimiter, Up
    <2> QED BY <2>1, <2>7, ServerInvPartsPrime
  <1>2. CASE ServerClosed(i)
    <2>1. CountersOK'
      BY <1>2, CountersUnchanged DEF ServerClosed, CountersOK, LimiterTypeOK, redisVars
    <2> QED
      BY <1>2, <2>1, ClosingStepOK, ServerInvPartsPrime DEF ServerClosed, Drained, Closing
  <1>3. CASE DatabaseDisconnected(i)
    <2>1. CountersOK'
      BY <1>3, CountersUnchanged DEF DatabaseDisconnected, CountersOK, LimiterTypeOK, redisVars
    <2>2. conn = {}
      BY <1>3 DEF DatabaseDisconnected, ProcessOK
    <2> QED
      BY <1>3, <2>1, <2>2, ClosingStepOK, ServerInvPartsPrime DEF DatabaseDisconnected, Closing
  <1>4. CASE QuitUnheard(i)
    <2>1. CountersOK'
      BY <1>4, DisconnectOK, CountersUnchanged DEF QuitUnheard, CountersOK, LimiterTypeOK
    <2> QED BY <1>4, <2>1, RejectOK, ServerInvPartsPrime DEF QuitUnheard
  <1>5. ASSUME QuitUnconnected(i) \/ RedisDisconnected(i)
        PROVE  ServerInv'
    BY <1>5, ExitOK DEF QuitUnconnected, RedisDisconnected
  <1> QED BY <1>1, <1>2, <1>3, <1>4, <1>5

LEMMA LifeStepOK ==
    ASSUME ServerInv,
           Bootstrap \/ BootstrapFails \/ TimerFires \/ Killed \/ Restart \/ Tick
    PROVE  ServerInv'
  <1> USE ServerInvParts
  <1>1. CASE Bootstrap
    <2>1. CountersOK'
      BY <1>1, CountersUnchanged DEF Bootstrap, CountersOK, LimiterTypeOK, redisVars
    <2>2. ProcessOK'
      BY <1>1 DEF Bootstrap, requestVars, ProcessOK, RequestsOK, AtLimiter, Up, ShuttingDown
    <2> QED BY <2>1, <2>2, ServerInvPartsPrime
  <1>2. CASE BootstrapFails
    BY <1>2, ExitOK DEF BootstrapFails
  <1>3. CASE TimerFires
    BY <1>3, ExitOK DEF TimerFires
  <1>4. CASE Killed
    BY <1>4, ExitOK DEF Killed
  <1>5. CASE Restart
    <2>1. CountersOK'
      BY <1>5, CountersUnchanged DEF Restart, CountersOK, LimiterTypeOK, redisVars
    <2>2. ProcessOK'
      BY <1>5 DEF Restart, requestVars, ProcessOK, RequestsOK, AtLimiter, Up, ShuttingDown
    <2> QED BY <2>1, <2>2, ServerInvPartsPrime
  <1>6. CASE Tick
    <2>1. CountersOK'
      BY <1>6, ExpireOK DEF Tick
    <2>2. /\ timer' \in {None} \cup 0 .. ShutdownTimeout
          /\ timer' = None <=> timer = None
      BY <1>6, ServerAssumption DEF Tick, ProcessOK
    <2>3. ProcessOK'
      BY <1>6, <2>2 DEF Tick, requestVars, ProcessOK, RequestsOK, AtLimiter, Up, ShuttingDown
    <2> QED BY <2>1, <2>3, ServerInvPartsPrime
  <1> QED BY <1>1, <1>2, <1>3, <1>4, <1>5, <1>6

LEMMA ServerInvNext == ServerInv /\ [SNext]_svars => ServerInv'
  <1> SUFFICES ASSUME ServerInv, [SNext]_svars PROVE ServerInv'
    OBVIOUS
  <1>1. CASE UNCHANGED svars
    BY <1>1 DEF svars, limiterVars, redisVars, serverVars, requestVars, ServerInv, ServerTypeOK,
                LimiterTypeOK, Up, ShuttingDown, AtLimiter
  <1>2. ASSUME NEW l \in Limiter, CountElsewhere(l) PROVE ServerInv'
    <2>1. CountersOK'
      BY <1>2, HitOK, ServerInvParts DEF CountElsewhere
    <2>2. ProcessOK'
      BY <1>2, ServerInvParts
      DEF CountElsewhere, serverVars, requestVars, ProcessOK, RequestsOK, AtLimiter, Up, ShuttingDown
    <2> QED BY <2>1, <2>2, ServerInvPartsPrime
  <1> QED
    BY <1>1, <1>2, RequestStepOK, RedisStepOK, ShutdownStepOK, LifeStepOK DEF SNext

\* A counter in Redis has an expiry exactly while it counts, and nothing of a
\* process outlives it, however requests, outages, signals and kills interleave.
THEOREM ServerSafe == SSpec => []ServerInv
  BY ServerInvInit, ServerInvNext, PTL DEF SSpec

\* Only a quit that is answered, or has nothing to wait for, exits with code 0,
\* and both come after server.close.
LEMMA CleanExitStep ==
    ServerInv /\ [SNext]_svars => [(Up /\ phase' = "exited" /\ code' = 0) => conn = {}]_svars
  <1> SUFFICES ASSUME ServerInv, SNext, Up, phase' = "exited", code' = 0 PROVE conn = {}
    OBVIOUS
  <1> USE ServerInvParts DEF Up
  <1>1. ASSUME NEW i \in Call, QuitUnconnected(i) \/ RedisDisconnected(i) PROVE conn = {}
    BY <1>1 DEF QuitUnconnected, RedisDisconnected, ProcessOK
  <1>2. ~ TimerFires /\ ~ Killed /\ ~ BootstrapFails
    BY DEF TimerFires, Killed, BootstrapFails, Exit
  <1>3. phase' # phase
    OBVIOUS
  <1> QED
    BY <1>1, <1>2, <1>3
    DEF SNext, Connect, Arrive, Count, CountUnheard, ScriptUnknown, LoadScript, Respond, HangUp,
        CountElsewhere, serverVars, GracefulShutdown, ServerClosed, DatabaseDisconnected, QuitUnheard, LoseRedis, RegainRedis,
        RetryFails, EndedRejects, Bootstrap, Restart, Tick

\* An orderly exit cuts off no connected client.
THEOREM ExitWaitsForClients == SSpec => CleanExit
  BY ServerSafe, CleanExitStep, PTL DEF SSpec, CleanExit

-----------------------------------------------------------------------------
(* The bound on what the limiters let through.                             *)

\* What a step of the server does to the counters.
LEMMA StepAtCounters ==
    ASSUME ServerInv, SNext
    PROVE  \/ \E l \in Limiter : Hit(l) \/ (Increment(l) /\ admitted' = admitted)
           \/ Expire
           \/ UNCHANGED limiterVars
  <1>1. ASSUME NEW c \in Conn,
               \/ Connect(c) \/ Arrive(c) \/ Respond(c) \/ HangUp(c)
               \/ Count(c) \/ CountUnheard(c) \/ ScriptUnknown(c) \/ LoadScript(c)
        PROVE  \/ \E l \in Limiter : Hit(l) \/ (Increment(l) /\ admitted' = admitted)
               \/ UNCHANGED limiterVars
    BY <1>1 DEF Connect, Arrive, Count, CountUnheard, ScriptUnknown, LoadScript, Respond, HangUp,
                AtLimiter
  <1>2. ASSUME NEW i \in Call,
               \/ GracefulShutdown(i) \/ ServerClosed(i) \/ DatabaseDisconnected(i)
               \/ QuitUnheard(i) \/ QuitUnconnected(i) \/ RedisDisconnected(i)
        PROVE  UNCHANGED limiterVars
    BY <1>2 DEF GracefulShutdown, ServerClosed, DatabaseDisconnected, QuitUnheard,
                QuitUnconnected, RedisDisconnected, Exit
  <1>3. ASSUME \/ LoseRedis \/ RegainRedis \/ RetryFails \/ EndedRejects
               \/ Bootstrap \/ BootstrapFails \/ TimerFires \/ Killed \/ Restart
        PROVE  UNCHANGED limiterVars
    BY <1>3 DEF LoseRedis, RegainRedis, Reconnect, RetryFails, EndedRejects, Bootstrap,
                BootstrapFails, TimerFires, Killed, Restart, Exit
  <1>4. ASSUME NEW l \in Limiter, CountElsewhere(l) PROVE Hit(l)
    BY <1>4 DEF CountElsewhere
  <1>5. Tick => Expire
    BY DEF Tick
  <1> QED BY <1>1, <1>2, <1>3, <1>4, <1>5 DEF SNext

LEMMA WindowInvNext == ServerInv /\ WindowInv /\ [SNext]_svars => WindowInv'
  <1> SUFFICES ASSUME ServerInv, WindowInv, [SNext]_svars PROVE WindowInv'
    OBVIOUS
  <1>1. CountersOK
    BY ServerInvParts
  <1>2. CASE UNCHANGED svars
    BY <1>2, WindowUnchanged DEF svars
  <1>3. CASE SNext
    BY <1>1, <1>3, StepAtCounters, HitWindowOK, UnheardWindowOK, ExpireWindowOK, WindowUnchanged
  <1> QED BY <1>2, <1>3

\* The rate limiters: whichever instances count a client's requests, and
\* whatever is sent to Redis twice, in any interval as long as the window fewer
\* than twice as many as the limit are let through.
THEOREM BurstsBounded == SSpec => []BurstBound
  <1>1. SInit => WindowInv
    BY WindowInvInit DEF SInit
  <1>2. ServerInv /\ WindowInv => BurstBound
    BY WindowBound, ServerInvParts
  <1> QED BY <1>1, <1>2, ServerSafe, WindowInvNext, PTL DEF SSpec

-----------------------------------------------------------------------------
(* The measures of the liveness properties.  That they come down is up to  *)
(* fairness, and not proved; that nothing puts them up again is.           *)

\* No hit prolongs the window it falls in.
WindowCloses == \A l \in Limiter : ttl[l] > 0 =>
    /\ ttl'[l] <= ttl[l]
    /\ Tick => ttl'[l] < ttl[l]

\* No other call of gracefulShutdown puts off the end of the one that runs, or
\* calls it off.
TimerRuns == timer # None =>
    \/ phase' = "exited"
    \/ timer' \in 0 .. timer /\ (Tick /\ timer > 0 => timer' < timer)

Round == [script |-> 0, load |-> 1, again |-> 2]

\* No request goes back to a middleware that it has passed, and at a limiter it
\* sends its command no third time.
ChainShortens == \A c \in Conn : chain[c] # <<>> =>
    \/ chain'[c] = chain[c] /\ Round[sending[c]] <= Round[sending'[c]]
    \/ chain'[c] \in {Tail(chain[c]), <<>>}

NothingPostponed == [][WindowCloses /\ TimerRuns /\ ChainShortens]_svars

LEMMA WindowClosesStep ==
    ASSUME ServerInv, SNext
    PROVE  WindowCloses
  <1> SUFFICES ASSUME NEW l \in Limiter, ttl[l] > 0
               PROVE  ttl'[l] <= ttl[l] /\ (Tick => ttl'[l] < ttl[l])
    BY DEF WindowCloses
  <1>1. ttl \in [Limiter -> Nat]
    BY ServerInvParts DEF CountersOK, LimiterTypeOK
  <1>2. ASSUME NEW k \in Limiter, Increment(k) PROVE ttl'[l] = ttl[l]
    BY <1>1, <1>2 DEF Increment, TtlAfter
  <1>3. Expire => ttl'[l] < ttl[l] /\ ttl'[l] <= ttl[l]
    BY <1>1 DEF Expire
  <1>4. UNCHANGED limiterVars => ttl'[l] = ttl[l]
    BY DEF limiterVars
  <1>5. Tick => Expire
    BY DEF Tick
  <1>6. Expire \/ ttl'[l] = ttl[l]
    BY <1>2, <1>4, StepAtCounters DEF Hit
  <1>7. ttl[l] <= ttl[l]
    BY <1>1
  <1> QED BY <1>3, <1>5, <1>6, <1>7

LEMMA TimerRunsStep ==
    ASSUME ServerInv, SNext
    PROVE  TimerRuns
  <1> SUFFICES ASSUME timer # None, phase' # "exited"
               PROVE  timer' \in 0 .. timer /\ (Tick /\ timer > 0 => timer' < timer)
    BY DEF TimerRuns
  <1>1. timer \in Nat /\ phase # "exited" /\ phase # "starting"
    BY ServerAssumption, ServerInvParts DEF ProcessOK, ShuttingDown, Up
  <1>2. CASE Tick
    BY <1>1, <1>2, ServerAssumption DEF Tick
  <1>3. ~ Tick => timer' = timer
    BY <1>1
    DEF SNext, Connect, Arrive, Count, CountUnheard, ScriptUnknown, LoadScript, Respond, HangUp,
        CountElsewhere, serverVars, GracefulShutdown, StartTimer, ServerClosed,
        DatabaseDisconnected, QuitUnheard, QuitUnconnected, RedisDisconnected, LoseRedis, RegainRedis, RetryFails, EndedRejects, Bootstrap,
        BootstrapFails, TimerFires, Killed, Restart, Exit
  <1> QED BY <1>1, <1>2, <1>3

LEMMA ChainShortensStep ==
    ASSUME ServerInv, SNext
    PROVE  ChainShortens
  <1> DEFINE Shorter(c) == chain'[c] \in {Tail(chain[c]), <<>>}
             NoEarlier(c) == chain'[c] = chain[c] /\ Round[sending[c]] <= Round[sending'[c]]
  <1> SUFFICES ASSUME NEW c \in Conn, chain[c] # <<>>
               PROVE  Shorter(c) \/ NoEarlier(c)
    BY DEF ChainShortens
  <1>1. /\ chain \in [Conn -> Chain] /\ sending \in [Conn -> Sending]
        /\ ~AtLimiter(c) => sending[c] = "script"
    BY ServerInvParts DEF ProcessOK, RequestsOK
  <1>2. Round \in [Sending -> Nat]
    BY DEF Round, Sending
  <1>3. sending'[c] = sending[c] => Round[sending[c]] <= Round[sending'[c]]
    BY <1>1, <1>2
  <1>4. sending[c] = "script" /\ sending'[c] \in Sending => Round[sending[c]] <= Round[sending'[c]]
    BY <1>1, <1>2 DEF Round, Sending
  <1>5. UNCHANGED requestVars => NoEarlier(c)
    BY <1>3 DEF requestVars
  <1>6. ASSUME NEW d \in Conn,
               \/ Connect(d) \/ Arrive(d) \/ Respond(d) \/ HangUp(d)
               \/ Count(d) \/ CountUnheard(d)
        PROVE  Shorter(c) \/ NoEarlier(c)
    <2>1. CASE Connect(d) \/ HangUp(d) \/ CountUnheard(d)
      BY <1>5, <2>1 DEF Connect, HangUp, CountUnheard
    <2>2. CASE Arrive(d) \/ Respond(d)
      BY <1>1, <1>3, <2>2 DEF Arrive, Respond
    <2>3. CASE Count(d)
      BY <1>1, <1>3, <2>3 DEF Count
    <2> QED BY <1>6, <2>1, <2>2, <2>3
  <1>7. ASSUME NEW d \in Conn, ScriptUnknown(d) \/ LoadScript(d)
        PROVE  NoEarlier(c)
    <2>1. chain' = chain
      BY <1>7 DEF ScriptUnknown, LoadScript
    <2>2. CASE c # d
      BY <1>1, <1>3, <1>7, <2>1, <2>2 DEF ScriptUnknown, LoadScript
    <2>3. CASE c = d
      BY <1>1, <1>7, <2>1, <2>3 DEF ScriptUnknown, LoadScript, Round
    <2> QED BY <2>2, <2>3
  <1>8. RejectWaiting => Shorter(c) \/ NoEarlier(c)
    BY <1>1, <1>4 DEF RejectWaiting, Sending
  <1>9. ASSUME NEW i \in Call,
               \/ GracefulShutdown(i) \/ ServerClosed(i) \/ DatabaseDisconnected(i)
               \/ QuitUnheard(i) \/ QuitUnconnected(i) \/ RedisDisconnected(i)
        PROVE  Shorter(c) \/ NoEarlier(c)
    BY <1>5, <1>8, <1>9 DEF GracefulShutdown, ServerClosed, DatabaseDisconnected, QuitUnheard,
                            QuitUnconnected, RedisDisconnected, Exit
  <1>10. ASSUME \/ \E l \in Limiter : CountElsewhere(l)
                \/ LoseRedis \/ RegainRedis \/ RetryFails \/ EndedRejects \/ Tick
                \/ Bootstrap \/ BootstrapFails \/ TimerFires \/ Killed \/ Restart
        PROVE  Shorter(c) \/ NoEarlier(c)
    BY <1>5, <1>8, <1>10 DEF CountElsewhere, LoseRedis, RegainRedis, RetryFails, EndedRejects,
                             Tick, Bootstrap, BootstrapFails, TimerFires, Killed, Restart, Exit,
                             requestVars
  <1> HIDE DEF Shorter, NoEarlier
  <1> QED BY <1>6, <1>7, <1>9, <1>10 DEF SNext

\* What LimitLifts, ShutdownEnds and RequestsEnd rely on besides fairness: a
\* limiter's window, the timer of gracefulShutdown and the middleware a request
\* has still to pass only ever run out.
THEOREM MeasuresOnlyFall == SSpec => NothingPostponed
  <1>1. ServerInv /\ [SNext]_svars => [WindowCloses /\ TimerRuns /\ ChainShortens]_svars
    BY WindowClosesStep, TimerRunsStep, ChainShortensStep
  <1> QED BY <1>1, ServerSafe, PTL DEF SSpec, NothingPostponed

=============================================================================
