---------------------------- MODULE LimiterProofs ----------------------------
(***************************************************************************)
(* The counters of RateLimiter, and how many hits they let through in the  *)
(* length of a window.                                                     *)
(*                                                                         *)
(* The lemmas are about the limiter's own steps; ServerProofs has those of *)
(* the server that take them.                                              *)
(***************************************************************************)
EXTENDS RateLimiter, FiniteSetTheorems, TLAPS

-----------------------------------------------------------------------------
(* The counters.                                                           *)

CountersOK ==
    /\ LimiterTypeOK
    /\ \A l \in Limiter : hits[l] > 0 <=> ttl[l] > 0

LEMMA IncrementOK ==
    ASSUME CountersOK, NEW l \in Limiter, Increment(l)
    PROVE  /\ hits' \in [Limiter -> Nat] /\ \A k \in Limiter : hits'[k] <= Max[k] + 1
           /\ ttl' \in [Limiter -> Nat] /\ \A k \in Limiter : ttl'[k] <= Window[k]
           /\ \A k \in Limiter : hits'[k] > 0 <=> ttl'[k] > 0
  <1>1. HitsAfter(l) \in Nat /\ HitsAfter(l) > 0 /\ HitsAfter(l) <= Max[l] + 1
    BY LimiterAssumption DEF CountersOK, LimiterTypeOK, HitsAfter
  <1>2. TtlAfter(l) \in Nat /\ TtlAfter(l) > 0 /\ TtlAfter(l) <= Window[l]
    BY LimiterAssumption DEF CountersOK, LimiterTypeOK, TtlAfter
  <1> QED BY <1>1, <1>2 DEF Increment, CountersOK, LimiterTypeOK

LEMMA CountedUnderZero ==
    ASSUME NEW n \in Nat \ {0}, NEW f \in [0 .. n - 1 -> Nat]
    PROVE  [f EXCEPT ![0] = f[0] + 1] \in [0 .. n - 1 -> Nat]
  <1>1. 0 \in 0 .. n - 1
    OBVIOUS
  <1>2. f[0] + 1 \in Nat
    BY <1>1
  <1> QED BY <1>2

LEMMA HitOK ==
    ASSUME CountersOK, NEW l \in Limiter, Hit(l), UNCHANGED redisVars
    PROVE  CountersOK'
  <1>1. Increment(l)
    BY DEF Hit
  <1>2. /\ DOMAIN admitted' = Limiter
        /\ \A k \in Limiter : admitted'[k] \in [0 .. Window[k] - 1 -> Nat]
    <2>1. CASE ~Admits(l)
      BY <2>1 DEF Hit, CountersOK, LimiterTypeOK
    <2>2. CASE Admits(l)
      <3> DEFINE new == [admitted[l] EXCEPT ![0] = admitted[l][0] + 1]
      <3>1. admitted' = [admitted EXCEPT ![l] = new]
        BY <2>2 DEF Hit
      <3>2. new \in [0 .. Window[l] - 1 -> Nat]
        BY LimiterAssumption, CountedUnderZero DEF CountersOK, LimiterTypeOK
      <3> HIDE DEF new
      <3> QED BY <3>1, <3>2 DEF CountersOK, LimiterTypeOK
    <2> QED BY <2>1, <2>2
  <1> QED BY <1>1, <1>2, IncrementOK DEF CountersOK, LimiterTypeOK, redisVars

LEMMA ExpireOK ==
    ASSUME CountersOK, Expire, UNCHANGED redisVars
    PROVE  CountersOK'
  <1>1. ttl' \in [Limiter -> Nat] /\ \A k \in Limiter : ttl'[k] <= Window[k]
    <2>1. ASSUME NEW k \in Limiter
          PROVE  (IF ttl[k] = 0 THEN 0 ELSE ttl[k] - 1) \in 0 .. Window[k]
      BY LimiterAssumption DEF CountersOK, LimiterTypeOK
    <2> QED BY <2>1 DEF Expire
  <1>2. hits' \in [Limiter -> Nat] /\ \A k \in Limiter : hits'[k] <= Max[k] + 1
    BY LimiterAssumption DEF Expire, CountersOK, LimiterTypeOK
  <1>3. \A k \in Limiter : hits'[k] > 0 <=> ttl'[k] > 0
    BY DEF Expire, CountersOK, LimiterTypeOK
  <1>4. ASSUME NEW k \in Limiter PROVE admitted'[k] \in [0 .. Window[k] - 1 -> Nat]
    <2>1. admitted'[k] = [age \in 0 .. Window[k] - 1 |-> IF age = 0 THEN 0 ELSE admitted[k][age - 1]]
      BY DEF Expire
    <2>2. Window[k] \in Nat /\ admitted[k] \in [0 .. Window[k] - 1 -> Nat]
      BY LimiterAssumption DEF CountersOK, LimiterTypeOK
    <2>3. ASSUME NEW age \in 0 .. Window[k] - 1, age # 0 PROVE admitted[k][age - 1] \in Nat
      <3>1. age - 1 \in 0 .. Window[k] - 1
        BY <2>2, <2>3
      <3> QED BY <2>2, <3>1
    <2> QED BY <2>1, <2>3
  <1>5. DOMAIN admitted' = Limiter
    BY DEF Expire
  <1> QED BY <1>1, <1>2, <1>3, <1>4, <1>5 DEF CountersOK, LimiterTypeOK, redisVars

LEMMA CountersUnchanged ==
    ASSUME CountersOK, UNCHANGED limiterVars,
           link' \in {"up", "down", "ended"}, attempts' \in 0 .. MaxRetries,
           outages' \in 0 .. MaxOutages
    PROVE  CountersOK'
  BY DEF CountersOK, LimiterTypeOK, limiterVars

LEMMA DisconnectOK ==
    ASSUME CountersOK, Disconnect
    PROVE  outages' \in 0 .. MaxOutages
  BY LimiterAssumption DEF CountersOK, LimiterTypeOK, Disconnect

-----------------------------------------------------------------------------
(* The inductive invariant of the bound.                                   *)

\* The hits of the window that is open, and those of the one before it.
Current(l) == {hit \in Passed(l) : hit[1] <= Window[l] - ttl[l]}

Earlier(l) == {hit \in Passed(l) : hit[1] > Window[l] - ttl[l]}

\* No window is open: what is left in sight are the hits of the last one, but
\* for its first, which is too old by now or was never let through.
ClosedOK(l) ==
    /\ admitted[l][0] = 0
    /\ Cardinality(Passed(l)) < Max[l]

\* A window is open: its own hits are at most Max, its first among them unless
\* that one was not let through, and those of the window before are fewer.
OpenOK(l) ==
    /\ Cardinality(Earlier(l)) < Max[l]
    /\ Cardinality(Current(l)) <= hits[l] /\ Cardinality(Current(l)) <= Max[l]
    /\ admitted[l][Window[l] - ttl[l]] = 0 =>
           Cardinality(Current(l)) < hits[l] /\ Cardinality(Current(l)) < Max[l]

WindowOK(l) ==
    /\ IsFiniteSet(Passed(l))
    /\ Max[l] = 0 => Passed(l) = {}
    /\ Max[l] > 0 => IF ttl[l] = 0 THEN ClosedOK(l) ELSE OpenOK(l)

WindowInv == \A l \in Limiter : WindowOK(l)

-----------------------------------------------------------------------------
(* Hits and their sets.                                                    *)

LEMMA PassedHits ==
    ASSUME NEW l \in Limiter
    PROVE  \A hit : hit \in Passed(l) <=>
               \E age \in 0 .. Window[l] - 1 : \E n \in 1 .. admitted[l][age] : hit = <<age, n>>
  BY DEF Passed

LEMMA PassedHitsPrime ==
    ASSUME NEW l \in Limiter
    PROVE  \A hit : hit \in Passed(l)' <=>
               \E age \in 0 .. Window[l] - 1 : \E n \in 1 .. admitted'[l][age] : hit = <<age, n>>
  BY DEF Passed

\* Current and Earlier divide what was let through.
LEMMA Divided ==
    ASSUME CountersOK, NEW l \in Limiter, IsFiniteSet(Passed(l))
    PROVE  /\ IsFiniteSet(Current(l)) /\ IsFiniteSet(Earlier(l))
           /\ Cardinality(Current(l)) \in Nat /\ Cardinality(Earlier(l)) \in Nat
           /\ Cardinality(Passed(l)) = Cardinality(Current(l)) + Cardinality(Earlier(l))
  <1>1. Window[l] - ttl[l] \in Int /\ \A hit \in Passed(l) : hit[1] \in Int
    <2>1. Window[l] \in Nat /\ ttl[l] \in Nat
      BY LimiterAssumption DEF CountersOK, LimiterTypeOK
    <2> QED BY <2>1, PassedHits
  <1>2. Passed(l) = Current(l) \cup Earlier(l) /\ Current(l) \cap Earlier(l) = {}
    BY <1>1 DEF Current, Earlier
  <1>3. /\ IsFiniteSet(Current(l)) /\ IsFiniteSet(Earlier(l))
        /\ Cardinality(Current(l)) \in Nat /\ Cardinality(Earlier(l)) \in Nat
    BY <1>2, FS_Subset, FS_CardinalityType
  <1>4. Cardinality(Current(l) \cap Earlier(l)) = 0
    BY <1>2, FS_EmptySet
  <1>5. Cardinality(Current(l) \cup Earlier(l)) =
            Cardinality(Current(l)) + Cardinality(Earlier(l)) - Cardinality(Current(l) \cap Earlier(l))
    BY <1>3, FS_Union
  <1> QED BY <1>2, <1>3, <1>4, <1>5

LEMMA WindowInvInit == LimiterInit => WindowInv
  <1> SUFFICES ASSUME LimiterInit, NEW l \in Limiter PROVE WindowOK(l)
    BY DEF WindowInv
  <1>1. /\ Window[l] \in Nat \ {0} /\ Max[l] \in Nat /\ ttl[l] = 0
        /\ \A age \in 0 .. Window[l] - 1 : admitted[l][age] = 0
    BY LimiterAssumption DEF LimiterInit
  <1>2. Passed(l) = {}
    BY <1>1, PassedHits
  <1> QED BY <1>1, <1>2, FS_EmptySet DEF WindowOK, ClosedOK

\* A hit that is counted and not let through: it was refused, or its answer
\* was lost.
LEMMA NotAdmittedOK ==
    ASSUME CountersOK, WindowInv, NEW l \in Limiter, Increment(l), admitted' = admitted
    PROVE  WindowOK(l)'
  <1>1. /\ Window[l] \in Nat \ {0} /\ Max[l] \in Nat /\ hits[l] \in Nat /\ ttl[l] \in Nat
        /\ hits'[l] = HitsAfter(l) /\ ttl'[l] = TtlAfter(l)
    BY LimiterAssumption DEF CountersOK, LimiterTypeOK, Increment
  <1>2. Passed(l)' = Passed(l)
    BY DEF Passed
  <1>3. WindowOK(l)
    BY DEF WindowInv
  <1>4. ASSUME Max[l] > 0, ttl[l] = 0 PROVE OpenOK(l)'
    <2>1. ttl'[l] = Window[l] /\ hits'[l] = 1 /\ ClosedOK(l)
      BY <1>1, <1>3, <1>4 DEF TtlAfter, HitsAfter, WindowOK
    <2>2. \A hit \in Passed(l) : hit[1] \in Nat /\ hit[1] > 0
      BY <2>1, <1>1, PassedHits DEF ClosedOK
    <2>3. Current(l)' = {} /\ Earlier(l)' = Passed(l)
      BY <2>1, <2>2, <1>1, <1>2 DEF Current, Earlier
    <2> QED BY <2>1, <2>3, <1>1, <1>4, FS_EmptySet DEF OpenOK, ClosedOK
  <1>5. ASSUME Max[l] > 0, ttl[l] # 0 PROVE OpenOK(l)'
    <2>1. ttl'[l] = ttl[l] /\ hits'[l] \in Nat /\ hits[l] <= hits'[l] /\ OpenOK(l)
      BY <1>1, <1>3, <1>5 DEF TtlAfter, HitsAfter, WindowOK
    <2>2. Current(l)' = Current(l) /\ Earlier(l)' = Earlier(l)
      BY <2>1, <1>2 DEF Current, Earlier
    <2>3. Cardinality(Current(l)) \in Nat
      BY <1>3, Divided DEF WindowOK
    <2> QED BY <2>1, <2>2, <2>3, <1>1 DEF OpenOK
  <1>6. ttl'[l] # 0
    BY <1>1 DEF TtlAfter
  <1> QED BY <1>2, <1>3, <1>4, <1>5, <1>6 DEF WindowOK

\* A hit that is let through.
LEMMA AdmittedOK ==
    ASSUME CountersOK, WindowInv, NEW l \in Limiter, Hit(l), Admits(l)
    PROVE  WindowOK(l)'
  <1> DEFINE new == <<0, admitted[l][0] + 1>>
  <1>1. /\ Window[l] \in Nat \ {0} /\ Max[l] \in Nat /\ hits[l] \in Nat /\ ttl[l] \in Nat
        /\ hits'[l] = HitsAfter(l) /\ ttl'[l] = TtlAfter(l) /\ ttl[l] <= Window[l]
    BY LimiterAssumption DEF CountersOK, LimiterTypeOK, Hit, Increment
  <1>2. /\ admitted[l] \in [0 .. Window[l] - 1 -> Nat] /\ 0 \in 0 .. Window[l] - 1
        /\ admitted'[l][0] = admitted[l][0] + 1
        /\ \A age \in 0 .. Window[l] - 1 : age # 0 => admitted'[l][age] = admitted[l][age]
    <2> DEFINE row == [admitted[l] EXCEPT ![0] = admitted[l][0] + 1]
    <2>1. admitted[l] \in [0 .. Window[l] - 1 -> Nat] /\ 0 \in 0 .. Window[l] - 1
      BY <1>1 DEF CountersOK, LimiterTypeOK
    <2>2. admitted' = [admitted EXCEPT ![l] = row]
      BY DEF Hit
    <2>3. /\ row[0] = admitted[l][0] + 1
          /\ \A age \in 0 .. Window[l] - 1 : age # 0 => row[age] = admitted[l][age]
      BY <2>1
    <2> HIDE DEF row
    <2>4. admitted'[l] = row
      BY <2>2 DEF CountersOK, LimiterTypeOK
    <2> QED BY <2>1, <2>3, <2>4
  <1>3. Passed(l)' = Passed(l) \cup {new} /\ new \notin Passed(l)
    <2>1. admitted[l][0] \in Nat
      BY <1>2
    <2>2. 1 .. admitted'[l][0] = (1 .. admitted[l][0]) \cup {admitted[l][0] + 1}
      BY <1>2, <2>1
    <2>3. new \notin Passed(l)
      BY <2>1, PassedHits
    <2>4. ASSUME NEW hit PROVE hit \in Passed(l)' <=> hit \in Passed(l) \cup {new}
      <3>1. \A age \in 0 .. Window[l] - 1 : \A n :
                n \in 1 .. admitted'[l][age] <=>
                    n \in 1 .. admitted[l][age] \/ (age = 0 /\ n = admitted[l][0] + 1)
        BY <2>2, <1>2
      <3>2. hit \in Passed(l)' => hit \in Passed(l) \cup {new}
        BY <3>1, PassedHits, PassedHitsPrime
      <3>3. hit \in Passed(l) => hit \in Passed(l)'
        BY <3>1, PassedHits, PassedHitsPrime
      <3>4. new \in Passed(l)'
        <4>1. admitted[l][0] + 1 \in 1 .. admitted'[l][0]
          BY <1>2, <2>1
        <4> QED BY <4>1, <1>2, PassedHitsPrime
      <3> QED BY <3>2, <3>3, <3>4
    <2> QED BY <2>3, <2>4
  <1>4. WindowOK(l) /\ IsFiniteSet(Passed(l))
    BY DEF WindowInv, WindowOK
  <1>5. IsFiniteSet(Passed(l)')
    BY <1>3, <1>4, FS_AddElement
  <1>6. Max[l] > 0 /\ hits'[l] <= Max[l] /\ hits'[l] \in Nat
    BY <1>1 DEF Admits, HitsAfter
  <1>7. new[1] = 0 /\ admitted'[l][0] # 0
    <2>1. admitted[l][0] \in Nat
      BY <1>2
    <2> QED BY <2>1, <1>2
  <1> HIDE DEF new
  <1>8. ASSUME ttl[l] = 0 PROVE OpenOK(l)'
    <2>1. ttl'[l] = Window[l] /\ hits'[l] = 1 /\ ClosedOK(l)
      BY <1>1, <1>4, <1>6, <1>8 DEF TtlAfter, HitsAfter, WindowOK
    <2>2. \A hit \in Passed(l) : hit[1] \in Nat /\ hit[1] > 0
      BY <2>1, <1>1, PassedHits DEF ClosedOK
    <2>3. Current(l)' = {new} /\ Earlier(l)' = Passed(l)
      BY <2>1, <2>2, <1>1, <1>3, <1>7 DEF Current, Earlier
    <2>4. Cardinality(Current(l)') = 1
      BY <2>3, FS_Singleton
    <2> QED BY <2>1, <2>3, <2>4, <1>1, <1>6, <1>7 DEF OpenOK, ClosedOK
  <1>9. ASSUME ttl[l] # 0 PROVE OpenOK(l)'
    <2>1. ttl'[l] = ttl[l] /\ OpenOK(l)
      BY <1>1, <1>4, <1>6, <1>9 DEF TtlAfter, WindowOK
    <2>2. hits'[l] = hits[l] + 1
      BY <1>1, <1>6, <1>9 DEF HitsAfter
    <2>3. /\ IsFiniteSet(Current(l)) /\ Cardinality(Current(l)) \in Nat
          /\ new \notin Current(l)
      BY <1>3, <1>4, Divided DEF Current
    <2>4. Current(l)' = Current(l) \cup {new} /\ Earlier(l)' = Earlier(l)
      BY <2>1, <1>1, <1>3, <1>7 DEF Current, Earlier
    <2>5. Cardinality(Current(l)') = Cardinality(Current(l)) + 1
      BY <2>3, <2>4, FS_AddElement
    <2>6. Window[l] - ttl'[l] # 0 => admitted'[l][Window[l] - ttl'[l]] = admitted[l][Window[l] - ttl[l]]
      <3>1. Window[l] - ttl[l] \in 0 .. Window[l] - 1
        BY <1>1, <1>9
      <3> QED BY <3>1, <2>1, <1>2
    <2> QED BY <2>1, <2>2, <2>3, <2>4, <2>5, <2>6, <1>1, <1>6, <1>7 DEF OpenOK
  <1>10. ttl'[l] # 0
    BY <1>1 DEF TtlAfter
  <1> QED BY <1>1, <1>5, <1>6, <1>8, <1>9, <1>10 DEF WindowOK

\* One limiter's hit leaves the other limiters alone.
LEMMA OtherWindow ==
    ASSUME CountersOK, WindowInv, NEW l \in Limiter, Increment(l), NEW k \in Limiter \ {l},
           admitted' = admitted \/ Hit(l)
    PROVE  WindowOK(k)'
  <1>1. hits'[k] = hits[k] /\ ttl'[k] = ttl[k] /\ admitted'[k] = admitted[k]
    BY DEF CountersOK, LimiterTypeOK, Increment, Hit
  <1>2. WindowOK(k)
    BY DEF WindowInv
  <1>3. Passed(k)' = Passed(k)
    BY <1>1 DEF Passed
  <1>4. Current(k)' = Current(k) /\ Earlier(k)' = Earlier(k)
    BY <1>1, <1>3 DEF Current, Earlier
  <1> QED BY <1>1, <1>2, <1>3, <1>4 DEF WindowOK, ClosedOK, OpenOK

LEMMA UnheardWindowOK ==
    ASSUME CountersOK, WindowInv, NEW l \in Limiter, Increment(l), admitted' = admitted
    PROVE  WindowInv'
  BY NotAdmittedOK, OtherWindow DEF WindowInv

LEMMA HitWindowOK ==
    ASSUME CountersOK, WindowInv, NEW l \in Limiter, Hit(l)
    PROVE  WindowInv'
  <1>1. Increment(l) /\ (~ Admits(l) => admitted' = admitted)
    BY DEF Hit
  <1>2. WindowOK(l)'
    BY <1>1, NotAdmittedOK, AdmittedOK
  <1> QED BY <1>1, <1>2, OtherWindow DEF WindowInv

\* Time makes every hit a unit older, and takes none but the oldest away.
LEMMA Ageing ==
    ASSUME CountersOK, Expire, NEW l \in Limiter, NEW hit \in Passed(l)'
    PROVE  /\ hit[1] \in 1 .. Window[l] - 1
           /\ hit = <<hit[1], hit[2]>>
           /\ <<hit[1] - 1, hit[2]>> \in Passed(l)
  <1>1. PICK age \in 0 .. Window[l] - 1 : \E n \in 1 .. admitted'[l][age] : hit = <<age, n>>
    BY PassedHitsPrime
  <1>2. PICK n \in 1 .. admitted'[l][age] : hit = <<age, n>>
    BY <1>1
  <1>3. Window[l] \in Nat \ {0}
    BY LimiterAssumption
  <1>4. admitted'[l][age] = IF age = 0 THEN 0 ELSE admitted[l][age - 1]
    BY DEF Expire
  <1>5. age # 0 /\ n \in 1 .. admitted[l][age - 1]
    BY <1>2, <1>4
  <1>6. age - 1 \in 0 .. Window[l] - 1 /\ age \in 1 .. Window[l] - 1
    BY <1>3, <1>5
  <1>7. <<age - 1, n>> \in Passed(l)
    BY <1>5, <1>6, PassedHits
  <1> QED BY <1>2, <1>6, <1>7

\* So that a set of hits is no larger than the set they were a unit ago.
LEMMA AgeingShrinks ==
    ASSUME CountersOK, Expire, NEW l \in Limiter,
           NEW S \in SUBSET Passed(l)', NEW T, IsFiniteSet(T),
           \A hit \in S : <<hit[1] - 1, hit[2]>> \in T
    PROVE  IsFiniteSet(S) /\ Cardinality(S) <= Cardinality(T)
  <1> DEFINE f == [hit \in S |-> <<hit[1] - 1, hit[2]>>]
  <1>1. \A hit \in S : hit[1] \in Int /\ hit = <<hit[1], hit[2]>>
    <2>1. ASSUME NEW hit \in S PROVE hit[1] \in 1 .. Window[l] - 1 /\ hit = <<hit[1], hit[2]>>
      BY Ageing
    <2> QED BY <2>1
  <1>2. \A a, b \in S : f[a] = f[b] => a = b
    <2> SUFFICES ASSUME NEW a \in S, NEW b \in S, <<a[1] - 1, a[2]>> = <<b[1] - 1, b[2]>>
                 PROVE  a = b
      OBVIOUS
    <2>1. a[1] - 1 = b[1] - 1 /\ a[2] = b[2]
      OBVIOUS
    <2> QED BY <2>1, <1>1
  <1>3. f \in Injection(S, T)
    BY <1>2 DEF Injection, IsInjective
  <1> QED BY <1>3, FS_Injection

LEMMA ExpireWindowOK ==
    ASSUME CountersOK, WindowInv, Expire
    PROVE  WindowInv'
  <1> SUFFICES ASSUME NEW l \in Limiter PROVE WindowOK(l)'
    BY DEF WindowInv
  <1>1. /\ Window[l] \in Nat \ {0} /\ Max[l] \in Nat /\ hits[l] \in Nat /\ ttl[l] \in Nat
        /\ ttl[l] <= Window[l] /\ admitted[l] \in [0 .. Window[l] - 1 -> Nat]
    BY LimiterAssumption DEF CountersOK, LimiterTypeOK
  <1>2. /\ ttl'[l] = IF ttl[l] = 0 THEN 0 ELSE ttl[l] - 1
        /\ hits'[l] = IF ttl[l] <= 1 THEN 0 ELSE hits[l]
        /\ \A age \in 0 .. Window[l] - 1 :
               admitted'[l][age] = IF age = 0 THEN 0 ELSE admitted[l][age - 1]
    BY DEF Expire
  <1>3. WindowOK(l) /\ IsFiniteSet(Passed(l))
    BY DEF WindowInv, WindowOK
  <1>4. \A hit \in Passed(l)' : hit[1] \in 1 .. Window[l] - 1 /\ <<hit[1] - 1, hit[2]>> \in Passed(l)
    BY Ageing
  <1>5. IsFiniteSet(Passed(l)') /\ Cardinality(Passed(l)') <= Cardinality(Passed(l))
    BY <1>3, <1>4, AgeingShrinks
  <1>6. /\ Cardinality(Passed(l)) \in Nat /\ Cardinality(Passed(l)') \in Nat
        /\ IsFiniteSet(Current(l)) /\ IsFiniteSet(Earlier(l))
        /\ Cardinality(Current(l)) \in Nat /\ Cardinality(Earlier(l)) \in Nat
    BY <1>3, <1>5, Divided, FS_CardinalityType
  <1>7. Max[l] = 0 => Passed(l)' = {}
    BY <1>3, <1>4 DEF WindowOK
  <1>8. admitted'[l][0] = 0
    BY <1>1, <1>2
  <1>9. ASSUME Max[l] > 0, ttl[l] = 0 PROVE ClosedOK(l)'
    BY <1>1, <1>3, <1>5, <1>6, <1>8, <1>9 DEF WindowOK, ClosedOK
  <1>10. ASSUME Max[l] > 0, ttl[l] = 1 PROVE ClosedOK(l)'
    <2>1. OpenOK(l)
      BY <1>1, <1>3, <1>10 DEF WindowOK
    <2>2. Current(l) = Passed(l)
      BY <1>1, <1>10, PassedHits DEF Current
    <2>3. CASE admitted[l][Window[l] - 1] = 0
      BY <2>1, <2>2, <2>3, <1>1, <1>5, <1>6, <1>8, <1>10 DEF OpenOK, ClosedOK
    <2>4. CASE admitted[l][Window[l] - 1] # 0
      <3> DEFINE first == <<Window[l] - 1, 1>>
                 rest == Passed(l) \ {first}
      <3>1. Window[l] - 1 \in 0 .. Window[l] - 1 /\ 1 \in 1 .. admitted[l][Window[l] - 1]
        BY <2>4, <1>1
      <3>2. first \in Passed(l)
        BY <3>1, PassedHits
      <3> HIDE DEF first
      <3>3. IsFiniteSet(rest) /\ Cardinality(rest) = Cardinality(Passed(l)) - 1
        BY <3>2, <1>3, FS_RemoveElement
      <3> USE DEF first
      <3>4. \A hit \in Passed(l)' : <<hit[1] - 1, hit[2]>> \in rest
        <4> SUFFICES ASSUME NEW hit \in Passed(l)' PROVE <<hit[1] - 1, hit[2]>> # first
          BY <1>4
        <4>1. hit[1] \in 1 .. Window[l] - 1
          BY <1>4
        <4>2. hit[1] - 1 # Window[l] - 1
          BY <4>1, <1>1
        <4> QED BY <4>2
      <3> HIDE DEF rest
      <3>5. Cardinality(Passed(l)') <= Cardinality(rest)
        BY <3>3, <3>4, AgeingShrinks
      <3> QED BY <3>3, <3>5, <2>1, <2>2, <1>1, <1>6, <1>8 DEF OpenOK, ClosedOK
    <2> QED BY <2>3, <2>4
  <1>11. ASSUME Max[l] > 0, ttl[l] > 1 PROVE OpenOK(l)'
    <2>1. OpenOK(l)
      BY <1>1, <1>3, <1>11 DEF WindowOK
    <2>2. ttl'[l] = ttl[l] - 1 /\ hits'[l] = hits[l]
      BY <1>1, <1>2, <1>11
    <2>3. /\ Current(l)' \subseteq Passed(l)' /\ Earlier(l)' \subseteq Passed(l)'
          /\ \A hit \in Current(l)' : <<hit[1] - 1, hit[2]>> \in Current(l)
          /\ \A hit \in Earlier(l)' : <<hit[1] - 1, hit[2]>> \in Earlier(l)
      <3>1. ASSUME NEW hit \in Passed(l)'
            PROVE  /\ <<hit[1] - 1, hit[2]>> \in Passed(l)
                   /\ <<hit[1] - 1, hit[2]>>[1] = hit[1] - 1
                   /\ hit[1] <= Window[l] - ttl'[l] <=> hit[1] - 1 <= Window[l] - ttl[l]
                   /\ hit[1] > Window[l] - ttl'[l] <=> hit[1] - 1 > Window[l] - ttl[l]
        <4>1. hit[1] \in Int /\ <<hit[1] - 1, hit[2]>> \in Passed(l)
          BY <1>1, <1>4
        <4> QED BY <4>1, <2>2, <1>1
      <3> QED BY <3>1 DEF Current, Earlier
    <2>4. /\ IsFiniteSet(Current(l)') /\ Cardinality(Current(l)') <= Cardinality(Current(l))
          /\ IsFiniteSet(Earlier(l)') /\ Cardinality(Earlier(l)') <= Cardinality(Earlier(l))
      BY <2>3, <1>6, AgeingShrinks
    <2>5. Cardinality(Current(l)') \in Nat /\ Cardinality(Earlier(l)') \in Nat
      BY <2>4, FS_CardinalityType
    <2>6. admitted'[l][Window[l] - ttl'[l]] = admitted[l][Window[l] - ttl[l]]
      <3> DEFINE first == Window[l] - ttl'[l]
      <3>1. first \in 0 .. Window[l] - 1 /\ first # 0 /\ first - 1 = Window[l] - ttl[l]
        BY <2>2, <1>1, <1>11
      <3> HIDE DEF first
      <3>2. admitted'[l][first] = admitted[l][first - 1]
        BY <3>1, <1>2
      <3> QED BY <3>1, <3>2 DEF first
    <2>7. Cardinality(Earlier(l)') < Max[l]
      BY <2>1, <2>4, <2>5, <1>1, <1>6 DEF OpenOK
    <2>8. Cardinality(Current(l)') <= hits'[l] /\ Cardinality(Current(l)') <= Max[l]
      BY <2>1, <2>2, <2>4, <2>5, <1>1, <1>6 DEF OpenOK
    <2>9. ASSUME admitted'[l][Window[l] - ttl'[l]] = 0
          PROVE  Cardinality(Current(l)') < hits'[l] /\ Cardinality(Current(l)') < Max[l]
      <3>1. Cardinality(Current(l)) < hits[l] /\ Cardinality(Current(l)) < Max[l]
        BY <2>1, <2>6, <2>9 DEF OpenOK
      <3> QED BY <3>1, <2>2, <2>4, <2>5, <1>1, <1>6
    <2> QED BY <2>7, <2>8, <2>9 DEF OpenOK
  <1>12. ttl[l] = 0 \/ ttl[l] = 1 => ttl'[l] = 0
    BY <1>2
  <1>13. ttl[l] > 1 => ttl'[l] # 0
    BY <1>1, <1>2
  <1> QED BY <1>1, <1>5, <1>7, <1>9, <1>10, <1>11, <1>12, <1>13 DEF WindowOK

LEMMA WindowUnchanged == WindowInv /\ UNCHANGED limiterVars => WindowInv'
  <1> SUFFICES ASSUME WindowInv, UNCHANGED limiterVars, NEW l \in Limiter PROVE WindowOK(l)'
    BY DEF WindowInv
  <1>1. Passed(l)' = Passed(l) /\ Current(l)' = Current(l) /\ Earlier(l)' = Earlier(l)
    BY DEF limiterVars, Passed, Current, Earlier
  <1> QED BY <1>1 DEF limiterVars, WindowInv, WindowOK, ClosedOK, OpenOK

\* One window's hits are at most Max, and those of the window before it that
\* are still counted are fewer.
LEMMA WindowBound == CountersOK /\ WindowInv => BurstBound
  <1> SUFFICES ASSUME CountersOK, WindowInv, NEW l \in Limiter
               PROVE  Cardinality(Passed(l)) <= IF Max[l] = 0 THEN 0 ELSE 2 * Max[l] - 1
    BY DEF BurstBound
  <1>1. Max[l] \in Nat /\ WindowOK(l) /\ IsFiniteSet(Passed(l))
    BY LimiterAssumption DEF WindowInv, WindowOK
  <1>2. /\ Cardinality(Current(l)) \in Nat /\ Cardinality(Earlier(l)) \in Nat
        /\ Cardinality(Passed(l)) = Cardinality(Current(l)) + Cardinality(Earlier(l))
    BY <1>1, Divided
  <1>3. CASE Max[l] = 0
    BY <1>1, <1>3, FS_EmptySet DEF WindowOK
  <1>4. CASE Max[l] > 0
    BY <1>1, <1>2, <1>4 DEF WindowOK, ClosedOK, OpenOK
  <1> QED BY <1>1, <1>3, <1>4

=============================================================================
