-------------------------- MODULE IngestGateProofs --------------------------
(***************************************************************************)
(* Theorems about the ingest gate, for any number of handlers, any limits  *)
(* and any plans.                                                          *)
(***************************************************************************)
EXTENDS IngestGate, FiniteSetTheorems, WellFoundedInduction, TLAPS

-----------------------------------------------------------------------------
\* The inductive invariant.

\* The counter has counted what it let pass.
RateInv == admitted <= rate /\ admitted <= RateLimit

\* The usage that handler h will leave, if it counts its batch.
Due(h) == usage + req[h].n

\* Past the threshold of the tenant's plan.
Warns(used) == quota_warning_threshold(quota) > 0 /\ used >= quota_warning_threshold(quota)

\* As long as nothing is disturbed, a handler has read the quota there is; only
\* one handler is between its comparison and its increment; and if it will
\* pass the threshold, the warning is out.
WarnInv ==
    ~disturbed =>
        /\ \A h \in Handlers : req[h].phase = "usage" => req[h].limit = quota
        /\ \A g, h \in Handlers : req[g].phase = "append" /\ req[h].phase = "append" => g = h
        /\ \A h \in Handlers : req[h].phase = "append" /\ Warns(Due(h)) => warned
        /\ Warns(usage) => warned

IInv == TypeOK /\ RateInv /\ WarnInv

-----------------------------------------------------------------------------
\* Frames, and the largest of two.

LEMMA Constants ==
    /\ MaxBatch \in Nat /\ RateLimit \in Nat
    /\ \A q \in Quotas : q \in Nat \/ q = -1
    /\ Idle \notin Frame /\ Idle.phase = "idle"
BY IngestGateAssumption DEF Idle, Frame

LEMMA FrameFields ==
    ASSUME NEW f \in Frame
    PROVE  /\ f.phase \in {"tenant", "usage", "append", "commit"}
           /\ f.n \in 1..MaxBatch /\ f.n \in Nat
           /\ f.up \in BOOLEAN /\ f.limit \in Quotas \cup {0} /\ f.counted \in BOOLEAN
BY Constants DEF Frame

LEMMA MaxOfTwo == \A a, b \in Nat : Max({a, b}) \in Nat /\ Max({a, b}) >= a /\ Max({a, b}) >= b
<1> TAKE a, b \in Nat
<1>1. \E m \in {a, b} : \A y \in {a, b} : m >= y
  OBVIOUS
<1> QED
  BY <1>1 DEF Max

LEMMA Threshold == ASSUME TypeOK PROVE quota_warning_threshold(quota) \in Int
BY Constants DEF TypeOK, quota_warning_threshold

\* A handler in one of the phases has a frame.
LEMMA UnderWay ==
    ASSUME TypeOK, NEW h \in Handlers, req[h].phase # "idle"
    PROVE  req[h] \in Frame
BY Constants DEF TypeOK

\* A step of handler h leaves the others alone.
LEMMA Steps ==
    ASSUME TypeOK, NEW h \in Handlers, NEW f, req' = [req EXCEPT ![h] = f]
    PROVE  req'[h] = f /\ \A g \in Handlers \ {h} : req'[g] = req[g]
BY DEF TypeOK

LEMMA Ends ==
    ASSUME TypeOK, NEW h \in Handlers, End(h)
    PROVE  /\ req'[h].phase = "idle" /\ \A g \in Handlers \ {h} : req'[g] = req[g]
           /\ req' \in [Handlers -> Frame \cup {Idle}]
BY Constants, Steps DEF End, TypeOK

LEMMA Commits ==
    ASSUME TypeOK, NEW h \in Handlers, req[h].phase = "append", NEW c \in BOOLEAN, ToCommit(h, c)
    PROVE  /\ req'[h].phase = "commit" /\ \A g \in Handlers \ {h} : req'[g] = req[g]
           /\ req' \in [Handlers -> Frame \cup {Idle}]
<1> DEFINE f == [req[h] EXCEPT !.phase = "commit", !.up = FALSE, !.counted = c]
<1>1. req[h] \in Frame
  BY UnderWay
<1>2. f \in Frame /\ f.phase = "commit"
  BY <1>1 DEF Frame
<1>3. req' = [req EXCEPT ![h] = f]
  BY DEF ToCommit
<1> HIDE DEF f
<1> QED
  BY <1>2, <1>3, Steps DEF TypeOK

LEMMA CommitFields ==
    ASSUME TypeOK, NEW h \in Handlers, req[h].phase = "append", NEW c \in BOOLEAN, ToCommit(h, c)
    PROVE  req'[h].n = req[h].n /\ req'[h].counted = c
<1>1. req[h] \in Frame
  BY UnderWay
<1>2. req'[h] = [req[h] EXCEPT !.phase = "commit", !.up = FALSE, !.counted = c]
  BY DEF ToCommit, TypeOK
<1> QED
  BY <1>1, <1>2 DEF Frame

-----------------------------------------------------------------------------
\* Requests that end, and others that WarnInv does not speak of.

LEMMA Quiet ==
    ASSUME TypeOK, WarnInv, NEW h \in Handlers,
           \A g \in Handlers \ {h} : req'[g] = req[g],
           req'[h].phase \notin {"usage", "append"},
           usage' = usage, quota' = quota, warned' = warned, ~disturbed' => ~disturbed
    PROVE  WarnInv'
BY DEF WarnInv, Warns, Due

LEMMA InitInvariant == Init => IInv
<1> SUFFICES ASSUME Init PROVE IInv
  OBVIOUS
<1>1. TypeOK
  BY DEF Init, TypeOK
<1>2. RateInv
  BY Constants DEF Init, RateInv
<1>3. WarnInv
  <2>1. usage = 0 /\ \A h \in Handlers : req[h].phase = "idle"
    BY Constants DEF Init
  <2>2. quota_warning_threshold(quota) \in Int
    BY <1>1, Threshold
  <2> QED
    BY <2>1, <2>2 DEF WarnInv, Warns
<1> QED
  BY <1>1, <1>2, <1>3 DEF IInv

-----------------------------------------------------------------------------
\* The actions of a handler.

LEMMA RequestStep == ASSUME IInv, NEW h \in Handlers, Request(h) PROVE IInv'
<1> USE DEF IInv
<1>1. PICK n \in 1..MaxBatch :
          \/ check_ingest_rate(h, n)
          \/ Blip(rate, n) /\ Admit(h, n, TRUE) /\ UNCHANGED admitted
          \/ Admit(h, n, FALSE) /\ UNCHANGED <<rate, admitted>>
  BY DEF Request, BatchSizes
<1>2. n \in Nat
  BY Constants
<1>3. rate' \in Nat /\ admitted' \in Nat /\ RateInv'
  <2>1. CASE check_ingest_rate(h, n)
    <3>1. rate' = rate + n /\ rate \in Nat /\ admitted \in Nat
      BY <2>1 DEF check_ingest_rate, TypeOK
    <3>2. CASE rate' > RateLimit
      BY <1>2, <2>1, <3>1, <3>2, Constants DEF RateInv, check_ingest_rate
    <3>3. CASE ~(rate' > RateLimit)
      <4>1. admitted' = admitted + n
        BY <2>1, <3>3 DEF check_ingest_rate
      <4> QED
        BY <1>2, <3>1, <3>3, <4>1, Constants DEF RateInv
    <3> QED
      BY <3>2, <3>3
  <2>2. CASE Blip(rate, n) /\ UNCHANGED admitted
    <3>1. rate' = rate \/ rate' = rate + n
      BY <1>2, <2>2 DEF Blip, TypeOK
    <3> QED
      BY <1>2, <2>2, <3>1, Constants DEF TypeOK, RateInv
  <2>3. CASE UNCHANGED <<rate, admitted>>
    BY <2>3 DEF TypeOK, RateInv
  <2> QED
    BY <1>1, <2>1, <2>2, <2>3
<1>4. req' = req \/ \E up \in BOOLEAN : Admit(h, n, up)
  BY <1>1 DEF check_ingest_rate
<1>5. req' \in [Handlers -> Frame \cup {Idle}] /\ req'[h].phase \notin {"usage", "append"}
      /\ \A g \in Handlers \ {h} : req'[g] = req[g]
  <2>1. CASE req' = req
    BY <2>1, Constants DEF Request, TypeOK
  <2>2. ASSUME NEW up \in BOOLEAN, Admit(h, n, up) PROVE <1>5!:
    <3> DEFINE f == [phase |-> "tenant", n |-> n, up |-> up, limit |-> 0, counted |-> FALSE]
    <3>1. f \in Frame /\ f.phase = "tenant"
      BY DEF Frame
    <3>2. req' = [req EXCEPT ![h] = f]
      BY <2>2 DEF Admit
    <3> HIDE DEF f
    <3> QED
      BY <3>1, <3>2, Steps DEF TypeOK
  <2> QED
    BY <1>4, <2>1, <2>2
<1>6. TypeOK'
  BY <1>3, <1>5 DEF Request, TypeOK
<1>7. WarnInv'
  BY <1>5, Quiet DEF Request
<1> QED
  BY <1>3, <1>6, <1>7

LEMMA ReadTenantStep == ASSUME IInv, NEW h \in Handlers, ReadTenant(h) PROVE IInv'
<1> USE DEF IInv
<1> DEFINE f == [req[h] EXCEPT !.phase = "usage", !.limit = quota]
<1>1. req[h] \in Frame
  BY UnderWay DEF ReadTenant
<1>2. f \in Frame /\ f.phase = "usage" /\ f.limit = quota
  BY <1>1 DEF Frame, TypeOK
<1>3. req' = [req EXCEPT ![h] = f]
  BY DEF ReadTenant
<1> HIDE DEF f
<1>4. req'[h] = f /\ \A g \in Handlers \ {h} : req'[g] = req[g]
  BY <1>3, Steps
<1>5. TypeOK' /\ RateInv'
  BY <1>2, <1>3 DEF TypeOK, RateInv, ReadTenant, redis, histories
<1>6. WarnInv'
  BY <1>2, <1>4 DEF WarnInv, Warns, Due, ReadTenant, redis, histories
<1> QED
  BY <1>5, <1>6

\* The comparison: the batch is refused, or goes on, with the warning if it is due.
LEMMA Checks ==
    ASSUME TypeOK, NEW h \in Handlers, req[h].phase = "usage", NEW current \in Nat,
           CheckQuota(h, current)
    PROVE  /\ req' \in [Handlers -> Frame \cup {Idle}]
           /\ \A g \in Handlers \ {h} : req'[g] = req[g]
           /\ ceiling' \in Nat /\ warned' \in BOOLEAN /\ (warned => warned')
           /\ \/ req'[h].phase = "idle"
              \/ /\ req'[h].phase = "append" /\ req'[h].n = req[h].n
                 /\ Crosses(current, req[h].limit, req[h].n) => warned'
<1>1. req[h] \in Frame
  BY UnderWay
<1>2. CASE is_quota_exceeded(current, req[h].limit)
  BY <1>2, Ends DEF CheckQuota, TypeOK
<1>3. CASE ~is_quota_exceeded(current, req[h].limit)
  <2> DEFINE f == [req[h] EXCEPT !.phase = "append", !.limit = 0]
             top == IF req[h].limit = -1 THEN current + 1 ELSE req[h].limit
  <2>1. f \in Frame /\ f.phase = "append" /\ f.n = req[h].n
    BY <1>1 DEF Frame
  <2>2. req' = [req EXCEPT ![h] = f]
    BY <1>3 DEF CheckQuota
  <2>3. ceiling' = Max({ceiling, top}) /\ warned' = (warned \/ Crosses(current, req[h].limit, req[h].n))
    BY <1>3 DEF CheckQuota
  <2>4. top \in Nat
    BY <1>1, FrameFields, Constants
  <2> HIDE DEF f, top
  <2>5. ceiling' \in Nat
    BY <2>3, <2>4, MaxOfTwo DEF TypeOK
  <2>6. warned' \in BOOLEAN
    BY <2>3 DEF TypeOK, Crosses
  <2>7. req'[h] = f /\ \A g \in Handlers \ {h} : req'[g] = req[g]
    BY <2>2, Steps
  <2>8. req' \in [Handlers -> Frame \cup {Idle}]
    BY <2>1, <2>2 DEF TypeOK
  <2> QED
    BY <2>1, <2>3, <2>5, <2>6, <2>7, <2>8
<1> QED
  BY <1>2, <1>3

LEMMA ReadUsageStep == ASSUME IInv, NEW h \in Handlers, ReadUsage(h) PROVE IInv'
<1> USE DEF IInv
<1>1. req[h].phase = "usage"
  BY DEF ReadUsage
<1>2. UNCHANGED <<level, quota, redis, stored, admitted, forgotten>>
  BY DEF ReadUsage
<1>3. CASE /\ CheckQuota(h, usage)
           /\ disturbed' = (disturbed \/ Overlaps(h))
  <2>1. /\ req' \in [Handlers -> Frame \cup {Idle}]
        /\ \A g \in Handlers \ {h} : req'[g] = req[g]
        /\ ceiling' \in Nat /\ warned' \in BOOLEAN /\ (warned => warned')
        /\ \/ req'[h].phase = "idle"
           \/ /\ req'[h].phase = "append" /\ req'[h].n = req[h].n
              /\ Crosses(usage, req[h].limit, req[h].n) => warned'
    BY <1>1, <1>3, Checks DEF TypeOK
  <2>2. TypeOK' /\ RateInv'
    BY <1>2, <1>3, <2>1 DEF TypeOK, RateInv, redis, Overlaps
  <2>3. WarnInv'
    <3> SUFFICES ASSUME ~disturbed' PROVE WarnInv'
      BY DEF WarnInv
    <3>1. ~disturbed /\ (\A g \in Handlers \ {h} : req[g].phase # "append")
      BY <1>3 DEF Overlaps, TypeOK
    <3>2. req[h].limit = quota /\ (Warns(usage) => warned)
      BY <1>1, <3>1 DEF WarnInv
    <3>3. usage' = usage /\ quota' = quota
      BY <1>2 DEF redis
    <3>4. (Warns(usage) => warned)'
      BY <2>1, <3>2, <3>3 DEF Warns
    <3>5. \A g \in Handlers : req'[g].phase = "usage" => req'[g].limit = quota'
      BY <2>1, <3>1, <3>3 DEF WarnInv
    <3>6. \A g \in Handlers : req'[g].phase = "append" => g = h
      BY <2>1, <3>1
    <3>7. ASSUME req'[h].phase = "append", Warns(Due(h))' PROVE warned'
      <4>1. req'[h].n = req[h].n /\ (Crosses(usage, quota, req[h].n) => warned')
        BY <2>1, <3>2, <3>7
      <4>2. /\ quota_warning_threshold(quota) > 0
            /\ usage + req[h].n >= quota_warning_threshold(quota)
        BY <3>3, <3>7, <4>1 DEF Warns, Due
      <4>3. quota_warning_threshold(quota) \in Int /\ usage \in Nat /\ req[h].n \in Nat
        BY <1>1, Threshold, UnderWay, FrameFields DEF TypeOK
      <4>4. CASE usage < quota_warning_threshold(quota)
        BY <4>1, <4>2, <4>3, <4>4 DEF Crosses
      <4>5. CASE usage >= quota_warning_threshold(quota)
        BY <2>1, <3>2, <4>2, <4>5 DEF Warns
      <4> QED
        BY <4>3, <4>4, <4>5
    <3> QED
      BY <3>4, <3>5, <3>6, <3>7 DEF WarnInv
  <2> QED
    BY <2>2, <2>3
<1>4. CASE End(h) /\ UNCHANGED <<ceiling, warned, disturbed>>
  <2>1. TypeOK' /\ RateInv'
    BY <1>2, <1>4, Ends DEF TypeOK, RateInv, redis
  <2>2. WarnInv'
    BY <1>2, <1>4, Ends, Quiet DEF redis
  <2> QED
    BY <2>1, <2>2
<1>5. CASE CheckQuota(h, stored) /\ disturbed' = TRUE
  BY <1>1, <1>2, <1>5, Checks DEF TypeOK, RateInv, WarnInv, redis
<1> QED
  BY <1>3, <1>4, <1>5 DEF ReadUsage

LEMMA IncrementStep == ASSUME IInv, NEW h \in Handlers, Increment(h) PROVE IInv'
<1> USE DEF IInv
<1>1. req[h].phase = "append" /\ req[h] \in Frame /\ req[h].n \in Nat
  BY UnderWay, FrameFields DEF Increment
<1>2. UNCHANGED <<level, quota, rate, stored, histories>>
  BY DEF Increment
<1>3. usage' = usage \/ usage' = usage + req[h].n
  <2>1. usage' = usage + req[h].n \/ Blip(usage, req[h].n)
    BY DEF Increment
  <2> QED
    BY <1>1, <2>1 DEF Blip, TypeOK
<1>4. /\ req'[h].phase \in {"idle", "commit"} /\ \A g \in Handlers \ {h} : req'[g] = req[g]
      /\ req' \in [Handlers -> Frame \cup {Idle}]
  <2>1. CASE End(h)
    BY <2>1, Ends
  <2>2. CASE \E c \in BOOLEAN : ToCommit(h, c)
    BY <1>1, <2>2, Commits
  <2>3. ToCommit(h, usage' # usage) => \E c \in BOOLEAN : ToCommit(h, c)
    <3>1. (usage' # usage) \in BOOLEAN
      OBVIOUS
    <3> QED
      BY <3>1
  <2> QED
    BY <2>1, <2>2, <2>3 DEF Increment
<1>5. TypeOK' /\ RateInv'
  BY <1>1, <1>2, <1>3, <1>4 DEF TypeOK, RateInv, histories
<1>6. WarnInv'
  <2> SUFFICES ASSUME ~disturbed' PROVE WarnInv'
    BY DEF WarnInv
  <2>1. ~disturbed /\ quota' = quota /\ warned' = warned
    BY <1>2 DEF histories
  <2>2. \A g \in Handlers : req'[g].phase # "append"
    BY <1>1, <1>4, <2>1 DEF WarnInv
  <2>3. \A g \in Handlers : req'[g].phase = "usage" => req'[g].limit = quota'
    BY <1>4, <2>1 DEF WarnInv
  <2>4. (Warns(usage) => warned) /\ (Warns(Due(h)) => warned)
    BY <1>1, <2>1 DEF WarnInv
  <2>5. (Warns(usage) => warned)'
    BY <1>3, <2>1, <2>4 DEF Warns, Due
  <2> QED
    BY <2>2, <2>3, <2>5 DEF WarnInv
<1> QED
  BY <1>5, <1>6

LEMMA WithoutRedisStep == ASSUME IInv, NEW h \in Handlers, WithoutRedis(h) PROVE IInv'
<1> USE DEF IInv
<1>1. /\ req'[h].phase = "commit" /\ \A g \in Handlers \ {h} : req'[g] = req[g]
      /\ req' \in [Handlers -> Frame \cup {Idle}]
  BY Commits DEF WithoutRedis
<1>2. TypeOK' /\ RateInv'
  BY <1>1 DEF WithoutRedis, TypeOK, RateInv, redis, histories
<1>3. WarnInv'
  BY <1>1, Quiet DEF WithoutRedis, redis, histories
<1> QED
  BY <1>2, <1>3

LEMMA CommitStep == ASSUME IInv, NEW h \in Handlers, Commit(h) PROVE IInv'
<1> USE DEF IInv
<1>1. PICK fresh \in 0..req[h].n :
          /\ stored' = stored + fresh
          /\ forgotten' = forgotten + (IF req[h].counted THEN 0 ELSE fresh)
          /\ disturbed' = (disturbed \/ ~req[h].counted)
  BY DEF Commit
<1>2. req[h] \in Frame /\ req[h].n \in Nat /\ req[h].counted \in BOOLEAN
  BY UnderWay, FrameFields DEF Commit
<1>3. stored' \in Nat /\ forgotten' \in Nat /\ disturbed' \in BOOLEAN
  BY <1>1, <1>2 DEF TypeOK
<1>4. /\ req'[h].phase = "idle" /\ \A g \in Handlers \ {h} : req'[g] = req[g]
      /\ req' \in [Handlers -> Frame \cup {Idle}]
  BY Ends DEF Commit
<1>5. TypeOK' /\ RateInv'
  BY <1>3, <1>4 DEF Commit, TypeOK, RateInv, redis
<1>6. WarnInv'
  BY <1>1, <1>4, Quiet DEF Commit, redis
<1> QED
  BY <1>5, <1>6

LEMMA FailStep == ASSUME IInv, NEW h \in Handlers, Fail(h) PROVE IInv'
<1> USE DEF IInv
<1>1. TypeOK' /\ RateInv'
  BY Ends DEF Fail, TypeOK, RateInv, redis, histories
<1>2. WarnInv'
  BY Ends, Quiet DEF Fail, redis, histories
<1> QED
  BY <1>1, <1>2

-----------------------------------------------------------------------------
\* What happens around the handlers.

LEMMA ChangePlanStep == ASSUME IInv, ChangePlan PROVE IInv'
BY DEF IInv, TypeOK, RateInv, WarnInv, ChangePlan, redis

LEMMA NextMinuteStep == ASSUME IInv, NextMinute PROVE IInv'
BY Constants DEF IInv, TypeOK, RateInv, WarnInv, Warns, Due, NextMinute

\* What Redis loses touches a request in its history only.
Forgets(f) == IF f = Idle THEN Idle ELSE [f EXCEPT !.counted = FALSE]

LEMMA Forgotten ==
    ASSUME TypeOK, RedisLoses
    PROVE  /\ req' \in [Handlers -> Frame \cup {Idle}]
           /\ \A h \in Handlers :
                  /\ req'[h].phase = req[h].phase
                  /\ req[h].phase # "idle" => req'[h].n = req[h].n /\ req'[h].counted = FALSE
<1>1. req' = [h \in Handlers |-> Forgets(req[h])]
  BY DEF RedisLoses, Forgets
<1>2. ASSUME NEW f \in Frame
      PROVE  /\ Forgets(f) \in Frame /\ Forgets(f).phase = f.phase
             /\ Forgets(f).n = f.n /\ Forgets(f).counted = FALSE
  <2>1. Forgets(f) = [f EXCEPT !.counted = FALSE]
    BY Constants DEF Forgets
  <2> QED
    BY <2>1 DEF Frame
<1>3. \A h \in Handlers : req[h] \in Frame \/ req[h] = Idle
  BY DEF TypeOK
<1>4. Forgets(Idle) = Idle
  BY DEF Forgets
<1>5. req' \in [Handlers -> Frame \cup {Idle}]
  BY <1>1, <1>2, <1>3, <1>4
<1> QED
  BY <1>1, <1>2, <1>3, <1>4, <1>5, Constants

LEMMA RedisLosesStep == ASSUME IInv, RedisLoses PROVE IInv'
<1> USE DEF IInv
<1>1. req' \in [Handlers -> Frame \cup {Idle}]
  BY Forgotten
<1>2. TypeOK'
  BY <1>1 DEF TypeOK, RedisLoses
<1>3. RateInv'
  BY Constants DEF TypeOK, RateInv, RedisLoses
<1>4. WarnInv'
  BY DEF WarnInv, RedisLoses
<1> QED
  BY <1>2, <1>3, <1>4

LEMMA StepInvariant == IInv /\ [Next]_vars => IInv'
<1> SUFFICES ASSUME IInv, [Next]_vars PROVE IInv'
  OBVIOUS
<1>1. CASE UNCHANGED vars
  BY <1>1 DEF vars, IInv, TypeOK, RateInv, WarnInv, Warns, Due
<1>2. ASSUME NEW h \in Handlers,
             \/ Request(h) \/ ReadTenant(h) \/ ReadUsage(h)
             \/ Increment(h) \/ WithoutRedis(h) \/ Commit(h) \/ Fail(h)
      PROVE  IInv'
  BY <1>2, RequestStep, ReadTenantStep, ReadUsageStep, IncrementStep, WithoutRedisStep,
     CommitStep, FailStep
<1>3. CASE ChangePlan \/ NextMinute \/ RedisLoses
  BY <1>3, ChangePlanStep, NextMinuteStep, RedisLosesStep
<1> QED
  BY <1>1, <1>2, <1>3 DEF Next

LEMMA Invariant == Spec => []IInv
BY InitInvariant, StepInvariant, PTL DEF Spec

-----------------------------------------------------------------------------
\* Sums over the handlers.  The induction is over a set of subsets, not over a
\* predicate: the least counterexample has an element, and is none without it.

\* A set of numbers has a least one.
LEMMA LeastElement ==
    ASSUME NEW K, K \subseteq Nat, K # {}
    PROVE  \E m \in K : \A k \in K : m <= k
<1>1. PICK m \in K : \A k \in K : ~(<<k, m>> \in OpToRel(<, Nat))
  BY WFMin, NatLessThanWellFounded
<1>2. \A k \in K : ~(k < m)
  BY <1>1 DEF OpToRel
<1> QED
  BY <1>2

\* What holds of the empty set, and of a set with one element more, holds of S.
LEMMA InductionOverSubsets ==
    ASSUME NEW S, IsFiniteSet(S), NEW P \in SUBSET (SUBSET S),
           {} \in P, \A U \in P : \A e \in S \ U : U \cup {e} \in P
    PROVE  S \in P
<1> SUFFICES ASSUME S \notin P PROVE FALSE
  OBVIOUS
<1> DEFINE Bad == {U \in SUBSET S : U \notin P}
           K == {n \in Nat : \E U \in Bad : Cardinality(U) = n}
<1>1. \A U \in SUBSET S : IsFiniteSet(U) /\ Cardinality(U) \in Nat
  BY FS_Subset, FS_CardinalityType
<1>2. Cardinality(S) \in K
  BY <1>1
<1>3. K \subseteq Nat /\ K # {} /\ \A k \in K : \E U \in Bad : Cardinality(U) = k
  BY <1>2
<1>4. \A U \in Bad : Cardinality(U) \in K
  BY <1>1
<1> HIDE DEF K
<1>5. PICK m \in K : \A k \in K : m <= k
  BY <1>3, LeastElement
<1>6. PICK U \in Bad : Cardinality(U) = m
  BY <1>3
<1>7. PICK e \in U : TRUE
  BY <1>6
<1>8. U \ {e} \in SUBSET S /\ Cardinality(U \ {e}) = m - 1
  BY <1>1, <1>6, FS_RemoveElement
<1>9. U \ {e} \in P
  BY <1>1, <1>3, <1>4, <1>5, <1>8
<1>10. (U \ {e}) \cup {e} = U /\ e \in S \ (U \ {e})
  BY <1>6
<1> QED
  BY <1>6, <1>9, <1>10

\* t sums w over every subset of S.
IsSum(t, w, S) ==
    /\ t \in [SUBSET S -> Int] /\ t[{}] = 0
    /\ \A U \in SUBSET S : \A e \in S \ U : t[U \cup {e}] = t[U] + w[e]

Total(w) == (CHOOSE t : IsSum(t, w, Handlers))[Handlers]

LEMMA SumExists ==
    ASSUME NEW S, IsFiniteSet(S), NEW w \in [S -> Int]
    PROVE  \E t : IsSum(t, w, S)
<1> DEFINE P == {U \in SUBSET S : \E t : IsSum(t, w, U)}
<1>1. {} \in P
  <2>1. IsSum([U \in SUBSET {} |-> 0], w, {})
    BY DEF IsSum
  <2> QED
    BY <2>1
<1>2. ASSUME NEW U \in P, NEW e \in S \ U PROVE U \cup {e} \in P
  <2>1. PICK t : IsSum(t, w, U)
    OBVIOUS
  <2> DEFINE s == [V \in SUBSET (U \cup {e}) |-> IF e \in V THEN t[V \ {e}] + w[e] ELSE t[V]]
  <2>2. w[e] \in Int /\ \A V \in SUBSET U : t[V] \in Int
    BY <2>1 DEF IsSum
  <2>3. \A V \in SUBSET (U \cup {e}) : V \ {e} \in SUBSET U /\ (e \notin V => V \in SUBSET U)
    OBVIOUS
  <2>4. s \in [SUBSET (U \cup {e}) -> Int]
    BY <2>2, <2>3
  <2>5. s[{}] = 0
    BY <2>1 DEF IsSum
  <2>6. ASSUME NEW V \in SUBSET (U \cup {e}), NEW g \in (U \cup {e}) \ V
        PROVE  s[V \cup {g}] = s[V] + w[g]
    <3>0. w[g] \in Int /\ V \cup {g} \in SUBSET (U \cup {e})
      OBVIOUS
    <3>1. CASE g = e
      <4>1. (V \cup {g}) \ {e} = V /\ V \in SUBSET U
        BY <3>1
      <4> QED
        BY <3>0, <3>1, <4>1
    <3>2. CASE g # e /\ e \in V
      <4>1. (V \cup {g}) \ {e} = (V \ {e}) \cup {g} /\ g \in U \ (V \ {e})
        BY <3>2
      <4>2. t[(V \ {e}) \cup {g}] = t[V \ {e}] + w[g]
        BY <2>1, <2>3, <4>1 DEF IsSum
      <4>3. s[V \cup {g}] = t[(V \ {e}) \cup {g}] + w[e] /\ s[V] = t[V \ {e}] + w[e]
        BY <3>0, <3>2, <4>1
      <4>4. t[V \ {e}] \in Int
        BY <2>2, <2>3
      <4> HIDE DEF s
      <4> QED
        BY <2>2, <3>0, <4>2, <4>3, <4>4
    <3>3. CASE g # e /\ e \notin V
      <4>1. V \in SUBSET U /\ g \in U \ V /\ e \notin V \cup {g}
        BY <3>3
      <4> QED
        BY <2>1, <3>0, <4>1 DEF IsSum
    <3> QED
      BY <3>1, <3>2, <3>3
  <2>7. IsSum(s, w, U \cup {e})
    BY <2>4, <2>5, <2>6 DEF IsSum
  <2> HIDE DEF s
  <2> QED
    BY <2>7
<1> HIDE DEF P
<1>3. P \in SUBSET (SUBSET S)
  BY DEF P
<1>4. S \in P
  BY <1>1, <1>2, <1>3, InductionOverSubsets
<1> QED
  BY <1>4 DEF P

\* There is one sum only.
LEMMA TotalIs ==
    ASSUME NEW w \in [Handlers -> Int], NEW t, IsSum(t, w, Handlers)
    PROVE  Total(w) = t[Handlers]
<1> DEFINE s == CHOOSE s : IsSum(s, w, Handlers)
           P == {U \in SUBSET Handlers : s[U] = t[U]}
<1>1. IsSum(s, w, Handlers)
  OBVIOUS
<1> HIDE DEF s
<1>2. /\ s[{}] = t[{}]
      /\ \A U \in SUBSET Handlers : \A e \in Handlers \ U :
            s[U \cup {e}] = s[U] + w[e] /\ t[U \cup {e}] = t[U] + w[e]
  BY <1>1 DEF IsSum
<1>3. {} \in P /\ \A U \in P : \A e \in Handlers \ U : U \cup {e} \in P
  BY <1>2
<1> HIDE DEF P
<1>4. P \in SUBSET (SUBSET Handlers)
  BY DEF P
<1>5. Handlers \in P
  BY <1>3, <1>4, IngestGateAssumption, InductionOverSubsets
<1> QED
  BY <1>5 DEF P, s, Total

LEMMA TotalSum ==
    ASSUME NEW w \in [Handlers -> Int]
    PROVE  \E t : IsSum(t, w, Handlers) /\ Total(w) = t[Handlers]
BY IngestGateAssumption, SumExists, TotalIs

LEMMA TotalType == ASSUME NEW w \in [Handlers -> Int] PROVE Total(w) \in Int
<1>1. PICK t : IsSum(t, w, Handlers) /\ Total(w) = t[Handlers]
  BY TotalSum
<1> QED
  BY <1>1 DEF IsSum

\* One summand changes.
LEMMA TotalChange ==
    ASSUME NEW w \in [Handlers -> Int], NEW v \in [Handlers -> Int], NEW h \in Handlers,
           \A g \in Handlers \ {h} : v[g] = w[g]
    PROVE  Total(v) = Total(w) + v[h] - w[h]
<1>1. PICK t : IsSum(t, w, Handlers) /\ Total(w) = t[Handlers]
  BY TotalSum
<1> DEFINE s == [U \in SUBSET Handlers |-> IF h \in U THEN t[U] + v[h] - w[h] ELSE t[U]]
<1>2. v[h] \in Int /\ w[h] \in Int /\ \A U \in SUBSET Handlers : t[U] \in Int
  BY <1>1 DEF IsSum
<1>3. ASSUME NEW U \in SUBSET Handlers, NEW g \in Handlers \ U
      PROVE  s[U \cup {g}] = s[U] + v[g]
  <2>1. t[U \cup {g}] = t[U] + w[g] /\ U \cup {g} \in SUBSET Handlers
    BY <1>1 DEF IsSum
  <2>2. t[U] \in Int /\ w[g] \in Int
    BY <1>2
  <2> QED
    BY <1>2, <2>1, <2>2
<1>4. IsSum(s, v, Handlers)
  BY <1>1, <1>2, <1>3 DEF IsSum
<1>5. Total(v) = s[Handlers]
  BY <1>4, TotalIs
<1> QED
  BY <1>1, <1>5

\* Every summand is at most so much larger.
LEMMA TotalBound ==
    ASSUME NEW w \in [Handlers -> Int], NEW v \in [Handlers -> Int], NEW b \in Nat,
           \A h \in Handlers : w[h] <= v[h] + b
    PROVE  Total(w) <= Total(v) + Cardinality(Handlers) * b
<1>1. PICK s : IsSum(s, w, Handlers) /\ Total(w) = s[Handlers]
  BY TotalSum
<1>2. PICK t : IsSum(t, v, Handlers) /\ Total(v) = t[Handlers]
  BY TotalSum
<1> DEFINE P == {U \in SUBSET Handlers : s[U] <= t[U] + Cardinality(U) * b}
<1>3. {} \in P
  BY <1>1, <1>2, FS_EmptySet DEF IsSum
<1>4. ASSUME NEW U \in P, NEW e \in Handlers \ U PROVE U \cup {e} \in P
  <2>1. s[U \cup {e}] = s[U] + w[e] /\ t[U \cup {e}] = t[U] + v[e]
    BY <1>1, <1>2 DEF IsSum
  <2>2. IsFiniteSet(U) /\ Cardinality(U) \in Nat
    BY IngestGateAssumption, FS_Subset, FS_CardinalityType
  <2>3. Cardinality(U \cup {e}) = Cardinality(U) + 1
    BY <2>2, FS_AddElement
  <2>4. s[U] \in Int /\ t[U] \in Int /\ w[e] \in Int /\ v[e] \in Int
    BY <1>1, <1>2 DEF IsSum
  <2>5. (Cardinality(U) + 1) * b = Cardinality(U) * b + b /\ Cardinality(U) * b \in Int
    BY <2>2
  <2>6. s[U \cup {e}] <= t[U \cup {e}] + Cardinality(U \cup {e}) * b
    BY <2>1, <2>3, <2>4, <2>5
  <2> QED
    BY <2>6
<1> HIDE DEF P
<1>5. P \in SUBSET (SUBSET Handlers)
  BY DEF P
<1>6. Handlers \in P
  BY <1>3, <1>4, <1>5, IngestGateAssumption, InductionOverSubsets
<1> QED
  BY <1>1, <1>2, <1>6 DEF P

LEMMA TotalZero == Total([h \in Handlers |-> 0]) = 0
<1>1. IsSum([U \in SUBSET Handlers |-> 0], [h \in Handlers |-> 0], Handlers)
  BY DEF IsSum
<1> QED
  BY <1>1, TotalIs
-----------------------------------------------------------------------------
\* The quota and the usage.

\* Of a request's batch, which is not stored yet, what the usage counter holds
\* and what the request may still store.
CountedBy(f) == IF f.phase = "commit" /\ f.counted THEN f.n ELSE 0
PassedBy(f) == IF f.phase \in {"append", "commit"} THEN f.n ELSE 0

Counted(r) == [h \in Handlers |-> CountedBy(r[h])]
Passed(r) == [h \in Handlers |-> PassedBy(r[h])]

\* One full batch per handler.
Slack == Cardinality(Handlers) * MaxBatch

\* What is stored or about to be, apart from what Redis does not have, is counted,
\* and is less than one full batch per handler above the highest limit passed.
UsageInv ==
    /\ forgotten <= stored
    /\ stored - forgotten + Total(Counted(req)) <= usage
    /\ Handlers # {} => stored - forgotten + Total(Passed(req)) < ceiling + Slack
    /\ Handlers = {} => stored = 0

LEMMA SlackType == Slack \in Nat /\ (Handlers # {} => Slack > 0)
<1>1. Cardinality(Handlers) \in Nat /\ (Handlers # {} => Cardinality(Handlers) # 0)
  BY IngestGateAssumption, FS_CardinalityType, FS_EmptySet
<1>2. \A c, b \in Nat : c * b \in Nat /\ (c # 0 /\ b # 0 => c * b > 0)
  OBVIOUS
<1> QED
  BY <1>1, <1>2, IngestGateAssumption DEF Slack

LEMMA Summands ==
    ASSUME NEW f \in Frame \cup {Idle}
    PROVE  /\ CountedBy(f) \in Nat /\ PassedBy(f) \in Nat
           /\ CountedBy(f) <= PassedBy(f) /\ PassedBy(f) <= MaxBatch
<1>1. CASE f = Idle
  BY <1>1, Constants DEF CountedBy, PassedBy
<1>2. CASE f \in Frame
  <2>1. f.n \in 1..MaxBatch
    BY <1>2, FrameFields
  <2> QED
    BY <2>1, Constants DEF CountedBy, PassedBy
<1> QED
  BY <1>1, <1>2

\* Two sums of which the one has at most one batch more per handler.
LEMMA WithinSlack ==
    ASSUME NEW w \in [Handlers -> Nat], NEW v \in [Handlers -> Nat],
           \A h \in Handlers : w[h] <= v[h] /\ v[h] <= MaxBatch
    PROVE  /\ Total(w) \in Nat /\ Total(v) \in Nat /\ Total(w) <= Total(v)
           /\ Total(v) <= Total(w) + Slack /\ Total(v) <= Slack
<1> DEFINE zero == [h \in Handlers |-> 0]
<1>1. w \in [Handlers -> Int] /\ v \in [Handlers -> Int] /\ zero \in [Handlers -> Int]
  OBVIOUS
<1>2. Total(w) \in Int /\ Total(v) \in Int /\ Total(zero) = 0
  BY <1>1, TotalType, TotalZero
<1>3. Cardinality(Handlers) \in Nat /\ Cardinality(Handlers) * 0 = 0
  BY IngestGateAssumption, FS_CardinalityType
<1>4. \A h \in Handlers : zero[h] <= w[h] + 0 /\ w[h] <= v[h] + 0
  OBVIOUS
<1>5. \A h \in Handlers : v[h] <= w[h] + MaxBatch /\ v[h] <= zero[h] + MaxBatch
  BY Constants
<1> HIDE DEF zero
<1>6. Total(zero) <= Total(w) + Cardinality(Handlers) * 0
  BY <1>1, <1>4, TotalBound
<1>7. Total(w) <= Total(v) + Cardinality(Handlers) * 0
  BY <1>1, <1>4, TotalBound
<1>8. Total(v) <= Total(w) + Slack
  BY <1>1, <1>5, Constants, TotalBound DEF Slack
<1>9. Total(v) <= Total(zero) + Slack
  BY <1>1, <1>5, Constants, TotalBound DEF Slack
<1> QED
  BY <1>2, <1>3, <1>6, <1>7, <1>8, <1>9, SlackType

LEMMA Totals ==
    ASSUME NEW r \in [Handlers -> Frame \cup {Idle}]
    PROVE  /\ Counted(r) \in [Handlers -> Nat] /\ Passed(r) \in [Handlers -> Nat]
           /\ \A h \in Handlers : Counted(r)[h] <= Passed(r)[h] /\ Passed(r)[h] <= MaxBatch
<1>1. \A h \in Handlers : r[h] \in Frame \cup {Idle}
  OBVIOUS
<1> QED
  BY <1>1, Summands DEF Counted, Passed

\* A step of handler h changes its own summands.
LEMMA OneSummand ==
    ASSUME TypeOK, TypeOK', NEW h \in Handlers, \A g \in Handlers \ {h} : req'[g] = req[g]
    PROVE  /\ Total(Counted(req')) = Total(Counted(req)) + CountedBy(req'[h]) - CountedBy(req[h])
           /\ Total(Passed(req')) = Total(Passed(req)) + PassedBy(req'[h]) - PassedBy(req[h])
           /\ Total(Counted(req)) \in Nat /\ Total(Passed(req)) \in Nat
           /\ Total(Counted(req')) \in Nat /\ Total(Passed(req')) \in Nat
           /\ Total(Passed(req')) <= Total(Counted(req')) + Slack /\ Total(Passed(req')) <= Slack
<1>1. req \in [Handlers -> Frame \cup {Idle}] /\ req' \in [Handlers -> Frame \cup {Idle}]
  BY DEF TypeOK
<1>2. /\ Counted(req) \in [Handlers -> Nat] /\ Passed(req) \in [Handlers -> Nat]
      /\ Counted(req') \in [Handlers -> Nat] /\ Passed(req') \in [Handlers -> Nat]
  BY <1>1, Totals
<1>3. /\ Total(Counted(req)) \in Nat /\ Total(Passed(req)) \in Nat
      /\ Total(Counted(req')) \in Nat /\ Total(Passed(req')) \in Nat
      /\ Total(Passed(req')) <= Total(Counted(req')) + Slack /\ Total(Passed(req')) <= Slack
  BY <1>1, <1>2, Totals, WithinSlack
<1>4. \A g \in Handlers \ {h} : /\ Counted(req')[g] = Counted(req)[g]
                                /\ Passed(req')[g] = Passed(req)[g]
  BY DEF Counted, Passed
<1>5. /\ Counted(req)[h] = CountedBy(req[h]) /\ Counted(req')[h] = CountedBy(req'[h])
      /\ Passed(req)[h] = PassedBy(req[h]) /\ Passed(req')[h] = PassedBy(req'[h])
  BY DEF Counted, Passed
<1>6. /\ Counted(req) \in [Handlers -> Int] /\ Passed(req) \in [Handlers -> Int]
      /\ Counted(req') \in [Handlers -> Int] /\ Passed(req') \in [Handlers -> Int]
  BY <1>2
<1>7. Total(Counted(req')) = Total(Counted(req)) + CountedBy(req'[h]) - CountedBy(req[h])
  BY <1>4, <1>5, <1>6, TotalChange
<1>8. Total(Passed(req')) = Total(Passed(req)) + PassedBy(req'[h]) - PassedBy(req[h])
  BY <1>4, <1>5, <1>6, TotalChange
<1> QED
  BY <1>3, <1>7, <1>8

LEMMA InitUsage == Init => UsageInv
<1> SUFFICES ASSUME Init PROVE UsageInv
  OBVIOUS
<1>1. \A h \in Handlers : CountedBy(req[h]) = 0 /\ PassedBy(req[h]) = 0
  BY Constants DEF Init, CountedBy, PassedBy
<1>2. Counted(req) = [h \in Handlers |-> 0] /\ Passed(req) = [h \in Handlers |-> 0]
  BY <1>1 DEF Counted, Passed
<1> QED
  BY <1>2, TotalZero, SlackType DEF Init, UsageInv

\* The comparison: the highest limit never falls, and a batch that goes on has
\* found the usage below it.
LEMMA CheckRaises ==
    ASSUME TypeOK, NEW h \in Handlers, req[h].phase = "usage", NEW current \in Nat,
           CheckQuota(h, current)
    PROVE  ceiling' >= ceiling /\ (req'[h].phase = "append" => current < ceiling')
<1>1. CASE is_quota_exceeded(current, req[h].limit)
  BY <1>1, Ends DEF CheckQuota, TypeOK
<1>2. CASE ~is_quota_exceeded(current, req[h].limit)
  <2> DEFINE top == IF req[h].limit = -1 THEN current + 1 ELSE req[h].limit
  <2>1. top \in Nat
    BY UnderWay, FrameFields, Constants
  <2>2. current < top
    BY <1>2, <2>1, UnderWay, FrameFields, Constants DEF is_quota_exceeded
  <2>3. ceiling' = Max({ceiling, top})
    BY <1>2 DEF CheckQuota
  <2> HIDE DEF top
  <2> QED
    BY <2>1, <2>2, <2>3, MaxOfTwo DEF TypeOK
<1> QED
  BY <1>1, <1>2

\* A request that begins, ends or goes on without having stored or counted.
LEMMA Releases ==
    ASSUME TypeOK, TypeOK', UsageInv, NEW h \in Handlers,
           \A g \in Handlers \ {h} : req'[g] = req[g],
           CountedBy(req'[h]) = 0, PassedBy(req'[h]) <= PassedBy(req[h]),
           usage' >= usage, UNCHANGED <<stored, forgotten>>, ceiling' >= ceiling
    PROVE  UsageInv'
<1>1. CountedBy(req[h]) \in Nat /\ PassedBy(req[h]) \in Nat /\ PassedBy(req'[h]) \in Nat
  BY Summands DEF TypeOK
<1>2. stored \in Nat /\ forgotten \in Nat /\ usage \in Nat /\ ceiling \in Nat
      /\ usage' \in Nat /\ ceiling' \in Nat
  BY DEF TypeOK
<1> QED
  BY <1>1, <1>2, OneSummand, SlackType DEF UsageInv

LEMMA ReadUsageKeeps ==
    ASSUME TypeOK, TypeOK', UsageInv, NEW h \in Handlers, ReadUsage(h) PROVE UsageInv'
<1>1. /\ req[h].phase = "usage" /\ UNCHANGED <<level, quota, redis, stored, admitted, forgotten>>
      /\ usage' = usage
  BY DEF ReadUsage, redis
<1>2. CountedBy(req[h]) = 0 /\ PassedBy(req[h]) = 0
  BY <1>1 DEF CountedBy, PassedBy
<1>3. /\ stored \in Nat /\ forgotten \in Nat /\ usage \in Nat /\ ceiling \in Nat /\ ceiling' \in Nat
  BY DEF TypeOK
<1>4. CASE End(h) /\ UNCHANGED ceiling
  <2>1. req'[h].phase = "idle" /\ \A g \in Handlers \ {h} : req'[g] = req[g]
    BY <1>4, Ends
  <2>2. CountedBy(req'[h]) = 0 /\ PassedBy(req'[h]) = 0
    BY <2>1 DEF CountedBy, PassedBy
  <2> QED
    BY <1>1, <1>2, <1>3, <1>4, <2>1, <2>2, Releases
<1>5. ASSUME NEW current \in {usage, stored}, CheckQuota(h, current) PROVE UsageInv'
  <2>1. current \in Nat
    BY <1>3
  <2>2. /\ \A g \in Handlers \ {h} : req'[g] = req[g]
        /\ req'[h].phase \in {"idle", "append"}
        /\ ceiling' >= ceiling /\ (req'[h].phase = "append" => current < ceiling')
    BY <1>1, <1>5, <2>1, Checks, CheckRaises
  <2>3. CountedBy(req'[h]) = 0
    BY <2>2 DEF CountedBy
  <2>4. CASE req'[h].phase = "idle"
    <3>1. PassedBy(req'[h]) = 0
      BY <2>4 DEF PassedBy
    <3> QED
      BY <1>1, <1>2, <1>3, <2>2, <2>3, <3>1, Releases
  <2>5. CASE req'[h].phase = "append"
    <3>1. /\ Total(Counted(req')) = Total(Counted(req)) /\ Total(Counted(req)) \in Nat
          /\ Total(Passed(req')) \in Nat
          /\ Total(Passed(req')) <= Total(Counted(req')) + Slack /\ Total(Passed(req')) <= Slack
      BY <1>2, <2>2, <2>3, OneSummand
    <3>2. stored - forgotten + Total(Counted(req)) <= usage
      BY DEF UsageInv
    <3>3. stored - forgotten + Total(Passed(req')) < ceiling' + Slack
      BY <1>3, <2>2, <2>5, <3>1, <3>2, SlackType
    <3> QED
      BY <1>1, <1>3, <3>1, <3>3 DEF UsageInv
  <2> QED
    BY <2>2, <2>4, <2>5
<1> QED
  BY <1>4, <1>5 DEF ReadUsage

LEMMA IncrementKeeps ==
    ASSUME TypeOK, TypeOK', UsageInv, NEW h \in Handlers, Increment(h) PROVE UsageInv'
<1>1. /\ req[h].phase = "append" /\ req[h] \in Frame /\ req[h].n \in Nat
      /\ UNCHANGED <<stored, forgotten, ceiling>>
  BY UnderWay, FrameFields DEF Increment, histories
<1>2. CountedBy(req[h]) = 0 /\ PassedBy(req[h]) = req[h].n
  BY <1>1 DEF CountedBy, PassedBy
<1>3. /\ stored \in Nat /\ forgotten \in Nat /\ usage \in Nat /\ ceiling \in Nat
  BY DEF TypeOK
<1>4. usage' = usage \/ usage' = usage + req[h].n
  <2>1. usage' = usage + req[h].n \/ Blip(usage, req[h].n)
    BY DEF Increment
  <2> QED
    BY <1>1, <1>3, <2>1 DEF Blip
<1>5. CASE End(h)
  <2>1. req'[h].phase = "idle" /\ \A g \in Handlers \ {h} : req'[g] = req[g]
    BY <1>5, Ends
  <2>2. CountedBy(req'[h]) = 0 /\ PassedBy(req'[h]) = 0
    BY <2>1 DEF CountedBy, PassedBy
  <2> QED
    BY <1>1, <1>2, <1>3, <1>4, <2>1, <2>2, Releases
<1>6. ASSUME NEW c \in BOOLEAN, ToCommit(h, c), c => usage' = usage + req[h].n
      PROVE  UsageInv'
  <2>1. /\ req'[h].phase = "commit" /\ req'[h].n = req[h].n /\ req'[h].counted = c
        /\ \A g \in Handlers \ {h} : req'[g] = req[g]
    BY <1>1, <1>6, Commits, CommitFields
  <2>2. CountedBy(req'[h]) = (IF c THEN req[h].n ELSE 0) /\ PassedBy(req'[h]) = req[h].n
    BY <2>1 DEF CountedBy, PassedBy
  <2>3. /\ Total(Counted(req')) = Total(Counted(req)) + (IF c THEN req[h].n ELSE 0)
        /\ Total(Passed(req')) = Total(Passed(req))
        /\ Total(Counted(req)) \in Nat /\ Total(Passed(req)) \in Nat
    BY <1>1, <1>2, <2>1, <2>2, OneSummand
  <2> QED
    BY <1>1, <1>3, <1>4, <1>6, <2>3, SlackType DEF UsageInv
<1>7. ASSUME ToCommit(h, TRUE), usage' = usage + req[h].n PROVE UsageInv'
  BY <1>6, <1>7
<1>8. ASSUME ToCommit(h, usage' # usage) PROVE UsageInv'
  <2>1. (usage' # usage) \in BOOLEAN /\ (usage' # usage => usage' = usage + req[h].n)
    BY <1>4
  <2> QED
    BY <1>6, <1>8, <2>1
<1> QED
  BY <1>5, <1>7, <1>8 DEF Increment

LEMMA CommitKeeps ==
    ASSUME TypeOK, TypeOK', UsageInv, NEW h \in Handlers, Commit(h) PROVE UsageInv'
<1>1. PICK fresh \in 0..req[h].n :
          /\ stored' = stored + fresh
          /\ forgotten' = forgotten + (IF req[h].counted THEN 0 ELSE fresh)
  BY DEF Commit
<1>2. /\ req[h].phase = "commit" /\ req[h] \in Frame /\ req[h].n \in Nat /\ req[h].counted \in BOOLEAN
      /\ usage' = usage /\ ceiling' = ceiling
  BY UnderWay, FrameFields DEF Commit, redis
<1>3. req'[h].phase = "idle" /\ \A g \in Handlers \ {h} : req'[g] = req[g]
  BY Ends DEF Commit
<1>4. /\ CountedBy(req'[h]) = 0 /\ PassedBy(req'[h]) = 0
      /\ CountedBy(req[h]) = (IF req[h].counted THEN req[h].n ELSE 0) /\ PassedBy(req[h]) = req[h].n
  BY <1>2, <1>3 DEF CountedBy, PassedBy
<1>5. /\ Total(Counted(req')) = Total(Counted(req)) - (IF req[h].counted THEN req[h].n ELSE 0)
      /\ Total(Passed(req')) = Total(Passed(req)) - req[h].n
      /\ Total(Counted(req)) \in Nat /\ Total(Passed(req)) \in Nat
  BY <1>2, <1>3, <1>4, OneSummand
<1>6. stored \in Nat /\ forgotten \in Nat /\ usage \in Nat /\ ceiling \in Nat /\ fresh \in Nat /\ fresh <= req[h].n
  BY <1>2 DEF TypeOK
<1> QED
  BY <1>1, <1>2, <1>5, <1>6, SlackType DEF UsageInv

\* The handlers' other steps, which neither store nor count.
LEMMA OthersKeep ==
    ASSUME TypeOK, TypeOK', UsageInv, NEW h \in Handlers,
           Request(h) \/ ReadTenant(h) \/ WithoutRedis(h) \/ Fail(h)
    PROVE  UsageInv'
<1>1. usage' = usage /\ UNCHANGED <<stored, forgotten, ceiling>>
  BY DEF Request, ReadTenant, WithoutRedis, Fail, redis, histories
<1>2. usage \in Nat /\ ceiling \in Nat
  BY DEF TypeOK
<1>3. /\ \A g \in Handlers \ {h} : req'[g] = req[g]
      /\ CountedBy(req'[h]) = 0 /\ PassedBy(req'[h]) <= PassedBy(req[h])
  <2>1. PassedBy(req[h]) \in Nat
    BY Summands DEF TypeOK
  <2>2. CASE Request(h)
    <3>1. req' = req \/ \E f : f.phase = "tenant" /\ req' = [req EXCEPT ![h] = f]
      BY <2>2 DEF Request, check_ingest_rate, Admit
    <3>2. req[h].phase = "idle"
      BY <2>2, Constants DEF Request
    <3>3. /\ \A g \in Handlers \ {h} : req'[g] = req[g]
          /\ req'[h].phase \in {"idle", "tenant"}
      BY <3>1, <3>2, Steps
    <3> QED
      BY <2>1, <3>3 DEF CountedBy, PassedBy
  <2>3. CASE ReadTenant(h)
    <3> DEFINE f == [req[h] EXCEPT !.phase = "usage", !.limit = quota]
    <3>1. req[h] \in Frame /\ req' = [req EXCEPT ![h] = f]
      BY <2>3, UnderWay DEF ReadTenant
    <3>2. f.phase = "usage"
      BY <3>1 DEF Frame
    <3> HIDE DEF f
    <3>3. /\ \A g \in Handlers \ {h} : req'[g] = req[g]
          /\ req'[h].phase = "usage"
      BY <3>1, <3>2, Steps
    <3> QED
      BY <2>1, <3>3 DEF CountedBy, PassedBy
  <2>4. CASE WithoutRedis(h)
    <3>1. /\ req[h].phase = "append" /\ ToCommit(h, FALSE)
          /\ \A g \in Handlers \ {h} : req'[g] = req[g]
          /\ req'[h].n = req[h].n /\ req'[h].counted = FALSE /\ req'[h].phase = "commit"
      BY <2>4, Commits, CommitFields DEF WithoutRedis
    <3> QED
      BY <2>1, <3>1 DEF CountedBy, PassedBy
  <2>5. CASE Fail(h)
    <3>1. req'[h].phase = "idle" /\ \A g \in Handlers \ {h} : req'[g] = req[g]
      BY <2>5, Ends DEF Fail
    <3> QED
      BY <2>1, <3>1 DEF CountedBy, PassedBy
  <2> QED
    BY <2>2, <2>3, <2>4, <2>5
<1> QED
  BY <1>1, <1>2, <1>3, Releases

LEMMA AroundKeeps ==
    ASSUME TypeOK, UsageInv, ChangePlan \/ NextMinute
    PROVE  UsageInv'
BY DEF ChangePlan, NextMinute, redis, UsageInv

\* Nothing is counted any more, and what may still be stored was below the bound.
LEMMA LosesKeeps ==
    ASSUME TypeOK, UsageInv, RedisLoses
    PROVE  UsageInv'
<1>1. usage' = 0 /\ forgotten' = stored /\ stored' = stored /\ ceiling' = ceiling
  BY DEF RedisLoses
<1>2. ASSUME NEW h \in Handlers
      PROVE  CountedBy(req'[h]) = 0 /\ PassedBy(req'[h]) = PassedBy(req[h])
  <2>1. /\ req'[h].phase = req[h].phase
        /\ req[h].phase # "idle" => req'[h].n = req[h].n /\ req'[h].counted = FALSE
    BY Forgotten
  <2> QED
    BY <2>1 DEF CountedBy, PassedBy
<1>3. Counted(req') = [h \in Handlers |-> 0] /\ Passed(req') = Passed(req)
  BY <1>2 DEF Counted, Passed
<1>4. Total(Counted(req')) = 0 /\ Total(Passed(req')) = Total(Passed(req))
  BY <1>3, TotalZero
<1>5. stored \in Nat /\ forgotten \in Nat /\ ceiling \in Nat /\ Total(Passed(req)) \in Nat
  BY Totals, WithinSlack DEF TypeOK
<1> QED
  BY <1>1, <1>4, <1>5, SlackType DEF UsageInv

LEMMA UsageInvariant == Spec => []UsageInv
<1>1. IInv /\ IInv' /\ UsageInv /\ [Next]_vars => UsageInv'
  <2> SUFFICES ASSUME IInv, IInv', UsageInv, [Next]_vars PROVE UsageInv'
    OBVIOUS
  <2>1. TypeOK /\ TypeOK'
    BY DEF IInv
  <2>2. CASE UNCHANGED vars
    BY <2>2 DEF vars, UsageInv
  <2>3. ASSUME NEW h \in Handlers,
               \/ Request(h) \/ ReadTenant(h) \/ ReadUsage(h)
               \/ Increment(h) \/ WithoutRedis(h) \/ Commit(h) \/ Fail(h)
        PROVE  UsageInv'
    BY <2>1, <2>3, ReadUsageKeeps, IncrementKeeps, CommitKeeps, OthersKeep
  <2>4. CASE ChangePlan \/ NextMinute \/ RedisLoses
    BY <2>1, <2>4, AroundKeeps, LosesKeeps
  <2> QED
    BY <2>2, <2>3, <2>4 DEF Next
<1> QED
  BY <1>1, Invariant, InitUsage, PTL DEF Spec

-----------------------------------------------------------------------------
\* The theorems.

\* The variables keep the shapes that TypeOK gives them.
THEOREM GateTypeCorrect == Spec => []TypeOK
<1>1. IInv => TypeOK
  BY DEF IInv
<1> QED
  BY <1>1, Invariant, PTL

\* However many requests a tenant sends at once, what the counter of a minute
\* lets pass stays within the limit (routes.py, _check_ingest_rate).
THEOREM RateIsBounded == Spec => []RateBounded
<1>1. IInv => RateBounded
  BY DEF IInv, RateInv, RateBounded
<1> QED
  BY <1>1, Invariant, PTL

\* "Fire quota.warning webhook at 80%" (routes.py): nothing that fails keeps the
\* warning from being out by the time the usage has reached the threshold,
\* unless one of the disturbances comes in between.
THEOREM WarningIsSent == Spec => []WarningSent
<1>1. IInv => WarningSent
  BY DEF IInv, WarnInv, Warns, WarningSent
<1> QED
  BY <1>1, Invariant, PTL

\* The quota is compared when a request starts and the usage counted when it ends
\* (routes.py, post_events): however many requests of a tenant overlap, what they
\* store together is less than one full batch per handler above the highest limit
\* that was compared, but for what Redis did not count or has lost.
THEOREM QuotaIsBounded == Spec => []QuotaBounded
<1>1. IInv /\ UsageInv => QuotaBounded
  <2> SUFFICES ASSUME IInv, UsageInv PROVE QuotaBounded
    OBVIOUS
  <2>1. stored \in Nat /\ forgotten \in Nat /\ ceiling \in Nat /\ Total(Passed(req)) \in Nat
    BY Totals, WithinSlack DEF IInv, TypeOK
  <2> QED
    BY <2>1, SlackType DEF UsageInv, QuotaBounded, Slack
<1> QED
  BY <1>1, Invariant, UsageInvariant, PTL

\* Whichever step of a request fails, and whatever Redis has executed of a command
\* that failed, the usage counter that bills the overage (usage.py) misses no
\* stored event but those that Redis was not there to count or has lost.
THEOREM BilledUsageCovers == Spec => []BilledCovers
<1>1. IInv /\ UsageInv => BilledCovers
  <2> SUFFICES ASSUME IInv, UsageInv PROVE BilledCovers
    OBVIOUS
  <2>1. stored \in Nat /\ forgotten \in Nat /\ usage \in Nat /\ Total(Counted(req)) \in Nat
    BY Totals, WithinSlack DEF IInv, TypeOK
  <2>2. quota \in Nat \/ quota = -1
    BY Constants DEF IInv, TypeOK
  <2>3. stored <= usage + forgotten
    BY <2>1 DEF UsageInv
  <2> QED
    BY <2>1, <2>2, <2>3 DEF BilledCovers, Overage
<1> QED
  BY <1>1, Invariant, UsageInvariant, PTL

=============================================================================
