----------------------------- MODULE IngestGate -----------------------------
(***************************************************************************)
(* What stands before and after the ledger in POST /v1/events: the rate    *)
(* limit per minute, the monthly quota, the usage counter and the          *)
(* quota.warning webhook (goderash_core/api/routes.py, billing/usage.py).  *)
(*                                                                         *)
(* The two counters live in Redis, the rows and the quota in PostgreSQL,   *)
(* and nothing ties the two: a handler compares the usage when it starts   *)
(* and increments it when it has inserted, before its transaction commits. *)
(* Redis may be down when a request begins (every step then does without   *)
(* it), fail at any one command, with or without having executed it, or    *)
(* restart empty.  The except clauses of usage.py call a stdlib logger     *)
(* with keyword arguments: where its level is enabled the call raises      *)
(* TypeError, so the clause does not return and the request fails.         *)
(*                                                                         *)
(* One tenant, one billing month; occurred_at lies in that month.          *)
(***************************************************************************)
EXTENDS Integers, FiniteSets, FiniteSetsExt

CONSTANTS Handlers,    \* requests of the tenant that may run at the same time
          MaxBatch,    \* max_event_batch_size
          RateLimit,   \* ingest_rate_limit_per_minute
          Quotas,      \* monthly_event_quota of the plans; -1 is unlimited
          Levels,      \* log levels the server may run with
          MaxUsage     \* bound: no request begins once so many events are counted or
                       \* stored, nor once the minute is over its limit

ASSUME IngestGateAssumption ==
    /\ IsFiniteSet(Handlers)
    /\ MaxBatch \in Nat \ {0} /\ RateLimit \in Nat /\ MaxUsage \in Nat
    /\ Quotas \subseteq Nat \cup {-1} /\ Quotas # {}
    /\ Levels \subseteq {"INFO", "WARNING", "ERROR"}

VARIABLES level,      \* goderash_log_level
          quota,      \* tenants.monthly_event_quota
          rate,       \* gdr:rate:ingest:<tenant>:<minute>
          usage,      \* goderash:usage:<tenant>:<month>
          stored,     \* committed rows of the month
          req,        \* req[h]: the request h handles, or Idle
          admitted,   \* history: events the rate counter let pass this minute
          forgotten,  \* history: stored events that the usage counter does not have
          ceiling,    \* history: the highest limit a quota check has passed
          warned,     \* history: quota.warning was dispatched
          disturbed   \* history: see WarningSent

vars == <<level, quota, rate, usage, stored, req, admitted, forgotten, ceiling, warned, disturbed>>
redis == <<rate, usage>>
histories == <<admitted, forgotten, ceiling, warned, disturbed>>

Idle == [phase |-> "idle"]

\* n is len(body.events), up that Redis answered the ping, limit the quota that
\* was read; and counted is history: the usage counter has the batch.
Frame == [phase : {"tenant", "usage", "append", "commit"}, n : 1..MaxBatch,
          up : BOOLEAN, limit : Quotas \cup {0}, counted : BOOLEAN]

TypeOK ==
    /\ level \in Levels /\ quota \in Quotas
    /\ rate \in Nat /\ usage \in Nat /\ stored \in Nat
    /\ req \in [Handlers -> Frame \cup {Idle}]
    /\ admitted \in Nat /\ forgotten \in Nat /\ ceiling \in Nat
    /\ warned \in BOOLEAN /\ disturbed \in BOOLEAN

Init ==
    /\ level \in Levels /\ quota \in Quotas
    /\ rate = 0 /\ usage = 0 /\ stored = 0
    /\ req = [h \in Handlers |-> Idle]
    /\ admitted = 0 /\ forgotten = 0 /\ ceiling = 0
    /\ warned = FALSE /\ disturbed = FALSE

-----------------------------------------------------------------------------
\* usage.py.

\* Mutation: the event that reaches the quota is not the last one.
is_quota_exceeded_Strict(current, limit) == limit # -1 /\ current > limit

is_quota_exceeded(current, limit) == limit # -1 /\ current >= limit

\* int(quota * 0.8), which is 0 for -1: never above zero without a quota.
quota_warning_threshold(limit) == (limit * 8) \div 10

\* log.warning(..., tenant_id=...) raises unless warnings are not logged.
WarningRaises == level \in {"INFO", "WARNING"}

\* A command to Redis fails, and may have been executed all the same.
Blip(counter, n) == \E done \in {0, n} : counter' = counter + done

\* What the handler has read is not needed any more once it is used.
ToCommit(h, counted) ==
    req' = [req EXCEPT ![h].phase = "commit", ![h].up = FALSE, ![h].counted = counted]

End(h) == req' = [req EXCEPT ![h] = Idle]

-----------------------------------------------------------------------------
\* The handler.

\* Mutation: one event too many.
BatchSizes_OffByOne == 1..(MaxBatch + 1)

\* What the schema and the comparison with max_event_batch_size (413) leave.
BatchSizes == 1..MaxBatch

Admit(h, n, up) ==
    req' = [req EXCEPT ![h] = [phase |-> "tenant", n |-> n, up |-> up,
                               limit |-> 0, counted |-> FALSE]]

\* Mutation: the counter is compared as it was before this batch.
check_ingest_rate_BeforeBatch(h, n) ==
    /\ rate' = rate + n
    /\ IF rate > RateLimit
       THEN UNCHANGED <<req, admitted>>
       ELSE Admit(h, n, TRUE) /\ admitted' = admitted + n

\* INCRBY, then the comparison (429): a refused batch has been counted.
check_ingest_rate(h, n) ==
    /\ rate' = rate + n
    /\ IF rate' > RateLimit
       THEN UNCHANGED <<req, admitted>>
       ELSE Admit(h, n, TRUE) /\ admitted' = admitted + n

\* A request begins: the ping and the rate limit, which a Redis that is down or
\* fails does not enforce.  (An unknown key ends it before, 403 is a Fail.)
Request(h) ==
    /\ req[h] = Idle
    /\ usage < MaxUsage /\ stored < MaxUsage /\ rate <= RateLimit
    /\ \E n \in BatchSizes :
           \/ check_ingest_rate(h, n)
           \/ Blip(rate, n) /\ Admit(h, n, TRUE) /\ UNCHANGED admitted
           \/ Admit(h, n, FALSE) /\ UNCHANGED <<rate, admitted>>
    /\ UNCHANGED <<level, quota, usage, stored, forgotten, ceiling, warned, disturbed>>

\* The tenant row is read (an envelope of another tenant: 403, as Fail).
ReadTenant(h) ==
    /\ req[h].phase = "tenant"
    /\ req' = [req EXCEPT ![h].phase = "usage", ![h].limit = quota]
    /\ UNCHANGED <<level, quota, redis, stored, histories>>

\* Mutation: a batch that comes exactly to the threshold does not count.
Crosses_Beyond(current, limit, n) ==
    LET warn == quota_warning_threshold(limit)
    IN  warn > 0 /\ current < warn /\ warn < current + n

Crosses(current, limit, n) ==
    LET warn == quota_warning_threshold(limit)
    IN  warn > 0 /\ current < warn /\ warn <= current + n

\* The usage is known to be `current': 402, or the warning and on to the ledger.
\* The warning is dispatched by a task of its own, whatever becomes of the batch.
CheckQuota(h, current) ==
    LET limit == req[h].limit
    IN  IF is_quota_exceeded(current, limit)
        THEN End(h) /\ UNCHANGED <<ceiling, warned>>
        ELSE /\ req' = [req EXCEPT ![h].phase = "append", ![h].limit = 0]
             /\ ceiling' = Max({ceiling, IF limit = -1 THEN current + 1 ELSE limit})
             /\ warned' = (warned \/ Crosses(current, limit, req[h].n))

\* Another handler has compared the usage and not yet counted its batch.
Overlaps(h) == \E g \in Handlers \ {h} : req[g].phase = "append"

\* get_usage: from Redis, or from the rows when there is no Redis (the rows are
\* also what a failed GET would fall back to, if its except clause returned).
ReadUsage(h) ==
    /\ req[h].phase = "usage"
    /\ \/ /\ req[h].up /\ CheckQuota(h, usage)
          /\ disturbed' = (disturbed \/ Overlaps(h))
       \/ /\ req[h].up /\ WarningRaises /\ End(h)
          /\ UNCHANGED <<ceiling, warned, disturbed>>
       \/ /\ ~req[h].up \/ ~WarningRaises
          /\ CheckQuota(h, stored) /\ disturbed' = TRUE
    /\ UNCHANGED <<level, quota, redis, stored, admitted, forgotten>>

\* Mutation: the failed increment is ignored, and so is what it did not count.
Increment_Ignored(h) ==
    /\ req[h].phase = "append" /\ req[h].up
    /\ usage' = usage \/ usage' = usage + req[h].n
    /\ ToCommit(h, TRUE)
    /\ UNCHANGED <<level, quota, rate, stored, histories>>

\* append_many has inserted the rows; increment_usage counts all envelopes.
Increment(h) ==
    /\ req[h].phase = "append" /\ req[h].up
    /\ \/ /\ usage' = usage + req[h].n
          /\ ToCommit(h, TRUE)
       \/ /\ Blip(usage, req[h].n)
          /\ IF WarningRaises THEN End(h) ELSE ToCommit(h, usage' # usage)
    /\ UNCHANGED <<level, quota, rate, stored, histories>>

WithoutRedis(h) ==
    /\ req[h].phase = "append" /\ ~req[h].up
    /\ ToCommit(h, FALSE)
    /\ UNCHANGED <<level, quota, redis, stored, histories>>

\* The transaction commits; of the batch, the events not stored before are new.
Commit(h) ==
    /\ req[h].phase = "commit"
    /\ \E fresh \in 0..req[h].n :
           /\ stored' = stored + fresh
           /\ forgotten' = forgotten + (IF req[h].counted THEN 0 ELSE fresh)
           /\ disturbed' = (disturbed \/ ~req[h].counted)
    /\ End(h)
    /\ UNCHANGED <<level, quota, redis, admitted, ceiling, warned>>

\* Any step of the request raises, or the commit fails: the rows are rolled
\* back and the counters are not.
Fail(h) ==
    /\ req[h] # Idle
    /\ End(h)
    /\ UNCHANGED <<level, quota, redis, stored, histories>>

-----------------------------------------------------------------------------
\* Around the handlers.

\* The Stripe webhook moves the tenant to another plan (module Tenancy).
ChangePlan ==
    /\ quota' \in Quotas \ {quota}
    /\ disturbed' = TRUE
    /\ UNCHANGED <<level, redis, stored, req, admitted, forgotten, ceiling, warned>>

\* The key of the next minute has no count yet; nor has this one's, if it is evicted.
NextMinute ==
    /\ rate > 0
    /\ rate' = 0 /\ admitted' = 0
    /\ UNCHANGED <<level, quota, usage, stored, req, forgotten, ceiling, warned, disturbed>>

\* Redis drops the usage key, or comes back empty, at any time and as often as it
\* likes: the counter has no event any more, neither of those that are stored nor
\* of those whose transaction is under way.
RedisLoses ==
    /\ usage > 0 /\ usage' = 0
    /\ \/ UNCHANGED <<rate, admitted>>
       \/ rate' = 0 /\ admitted' = 0
    /\ req' = [h \in Handlers |->
                  IF req[h] = Idle THEN Idle ELSE [req[h] EXCEPT !.counted = FALSE]]
    /\ forgotten' = stored /\ disturbed' = TRUE
    /\ UNCHANGED <<level, quota, stored, ceiling, warned>>

Next ==
    \/ \E h \in Handlers : \/ Request(h) \/ ReadTenant(h) \/ ReadUsage(h)
                           \/ Increment(h) \/ WithoutRedis(h) \/ Commit(h) \/ Fail(h)
    \/ ChangePlan \/ NextMinute \/ RedisLoses

Spec == Init /\ [][Next]_vars

-----------------------------------------------------------------------------
\* Safety.

\* However requests interleave, what one minute's counter lets pass stays within
\* the limit: INCRBY counts a batch before it is compared.
RateBounded == admitted <= RateLimit

\* The quota is compared at the start of a request and the usage counted at its
\* end, so concurrent batches pass it together.  What is stored goes beyond the
\* highest quota that was in force by less than one full batch per handler, and
\* by what Redis never counted or has lost.  (The code stops a paid plan at its
\* quota as well.)
QuotaBounded ==
    stored > 0 => stored < ceiling + Cardinality(Handlers) * MaxBatch + forgotten

\* usage.py: the counter is what get_billing_usage reports and bills overage
\* from.  Rolled back and repeated batches may be counted too often; but no
\* stored event is missing from the count, except those that Redis was not there
\* to count or has lost.
Overage(used) == IF quota = -1 \/ used < quota THEN 0 ELSE used - quota

BilledCovers == stored <= usage + forgotten /\ Overage(stored) <= Overage(usage + forgotten)

\* "Fire quota.warning webhook at 80%": when no two requests compare the usage
\* at once, the plan stays and Redis answers, the usage does not come to the
\* threshold without the warning, whichever requests fail on the way.
WarningSent ==
    LET warn == quota_warning_threshold(quota)
    IN  ~disturbed /\ warn > 0 /\ usage >= warn => warned

=============================================================================
