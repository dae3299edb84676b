# Goderash: models, checks and proofs

Goderash keeps an audit trail of what AI agents do.  An SDK in the agent's
process emits events and guards tool calls; a control plane stores the events
of every tenant in a hash-chained ledger, verifies the chain on demand and
exports evidence packs.  This directory holds TLA+ models of that code, the TLC
runs that check them on small instances, and TLAPS proofs, for instances of
every size, of every safety and action property that a passing run checks.

Paths below are relative to `src/`; *core* is
`python/core/src/goderash_core`, *sdk* is
`python/goderash_sdk/src/goderash_sdk`.

## 1. The system

| Part | State | Operations | What makes it correct |
|---|---|---|---|
| Event ledger, core `ledger/store.py`, `ledger/chain.py`, `models/event.py`, `db.py` | the `events` table; one transaction per request; an advisory lock per tenant | `append_many`, `iter_tenant`, `verify_chain` | the rows of a tenant are one unbroken chain, numbered 1..n; each delivered batch is in it once and whole, however requests overlap, repeat or fail |
| SDK client, sdk `client.py` (and `packages/sdk-ts/src/client.ts`) | a buffer shared by threads and tasks; per flush a batch and an attempt number | `emit`, `flush`, `flush_sync`, `turn`, `aclose` | no event in two batches; none lost without an exception; flushes end |
| Verification and packs, core `api/routes.py`, `api/packs.py`, `api/orgs.py`, `packs/` | none | `POST /v1/verify`, `collect`, `build` | the verdict says what it seems to say; a pack holds only what was written |
| Runtime guards, sdk `guards/` | a deque of attempts per (tenant, user, tool); calls and tokens per conversation | `GuardChain.evaluate`, `consume_tokens`, `reset` | limits hold, or are exceeded by no more than the calls under way |
| Ingest gate, core `api/routes.py`, `billing/usage.py` | Redis counters per minute and per month; the tenant's quota | rate limit, quota, usage increment, quota warning | usage follows the ledger; the minute's limit holds; the quota is not exceeded by more than the requests under way; the customer is warned |
| Outbound webhooks, core `webhooks/dispatcher.py`, `api/webhooks.py` | endpoints; one background task per delivery | create, delete, dispatch, deliver | a deleted endpoint stays deleted, whatever deliveries had read it |
| Billing webhook, core `api/billing.py` | plan, quota and subscription of a tenant | updated, deleted | the three columns agree, in whatever order the webhooks arrive |
| Accounts, teams, keys, core `api/auth*.py`, `api/orgs.py`, `api/invites.py`, `security/` | users, memberships, invites, one-time links, session tokens and their block list in Redis, API keys | sign-up, invite, accept, remove, log in, refresh, log out, reset, verify, issue, revoke | nobody joins without an invite; an email has one open invite; a workspace keeps its owner; a link works once; what is revoked stays revoked |
| Wrappers, callbacks and cancellation, sdk `wrap/`, `guards/cancellation.py`, the adapters, `packages/sdk-ts` | the call under way; a cancellation token; the open runs of a LangGraph callback | `wrap_tool`, `wrap_agent`, `wrap_llm`, the `on_…` handlers, `cancel` | every start that comes to an end has one end on the record; turns do not overlap; a cancelled tool is told why |
| What-if, upcasters, contracts, core `whatif/`, `ledger/upcast.py`, `contracts/` | counters of one projection; a registry; contracts | `project`, `register`, `upcast`, `enforce` | each decision is the one the window before it calls for |

The parts meet in six places.  The client POSTs batches to the ingest
handler, and repeats them when an answer is missing.  The handler calls
`append_many` inside a transaction that is committed when the FastAPI
dependency is torn down, **after** the 202.  Verification and packs read the
same table.  The guards are asked before a tool call, and emit their decisions
through the client.  The gate in front of the handler reads the quota that the
billing webhook writes.  Every request on a tenant's rows is authorized by a
session, a key or a membership, which other requests revoke meanwhile.

What is hard here: handlers of any number of API processes extend one chain;
the client cannot tell a lost request from a lost answer; the acknowledgement
comes before the commit; windows are ranges of the clients' clocks while the
chain is in order of arrival; guards compare and record in separate critical
sections; Redis and PostgreSQL keep two halves of one truth and fail apart; a
request acts on rows that it read some statements ago, with nothing locked.  `PROJECT.json` lists each of these hazards at its line.

## 2. Modules

    HashChain ──── Ledger ──── LedgerProofs          AppendLog (what a ledger promises)
        │            └ implements ─────────────────────► ▲
        └───────── LedgerAudit ──── LedgerAuditProofs
                             Delivery ── implements ┘ ── DeliveryProofs

    Guards ──── GuardsProofs      IngestGate ──── IngestGateProofs      Teams ──── TeamsProofs

    Sessions ┬ MCAccount ──── AccountProofs
    Tenancy  ┘

    Wrappers ┐
    Callback ┼ MCWrappers ──── WrappersProofs
    WhatIf   ┘

**HashChain** holds the pure part of `chain.py`.  The hash is symbolic:
`compute_hash(prev, payload)` is the sequence `prev` with the payload appended,
so two hashes are equal exactly when they are hashes of the same payloads in
the same order.  That is collision resistance, taken as perfect.  `verify_chain`
is stated over a *set* of rows by their sequence numbers.

**AppendLog** is the abstract specification: for every tenant a log that grows
by whole batches, each at most once.

**Ledger** is `POST /v1/events` down to the table.  A `Worker` is a handler in
any API process; its program counter stands between the statements of
`append_many`: lock, head hash, head sequence, insert, reply, commit.  Rows a
transaction inserted are in `pending` until `Commit`, so other handlers do not
see them (READ COMMITTED).  `Abort` may happen at every point: an exception, a
failed commit, a crash.  A batch may be delivered any number of times, also
while an earlier delivery of it is running.  `Jsonb` is what a payload looks
like after the round trip through the JSONB column, from which the verifier
recomputes the hash.

**Delivery** puts the SDK client before a ledger.  `emitted`, `buffer`,
`local`, `attempt` and `state` are the client's; `network` holds the requests
that may still arrive (a full network, bound `InFlight`, is one that loses the
request); `serving` the requests that are answered and not committed; `log` the
committed events.  The handler is cut down to the phases a client can tell
apart, which is what the refinement of Ledger to AppendLog justifies.  One
model serves threads (`flush_sync`) and asyncio tasks (`flush`): both
interleave between `_drain`, the posts and the sleeps.  `Interrupt` is the
cancellation of a task or an exception out of `time.sleep`.  Three history
variables (`drained`, `raised`, `undone`) record what became of each batch.

**LedgerAudit** has the readers.  Rows are appended one at a time with an
arbitrary client time; then payloads are altered, rows removed and exchanged
behind the ledger's back; `Verify` and `GeneratePack` read any window.

**Guards** has the guard chain.  `frame[th]` is the evaluation thread `th` is
in: the guard at work and, in the velocity limiter, the limit it compares next
and the time it read.  Each access to the counter is one critical section and
one action; the budget is compared and charged in one.  The user's answer and
the verdict of the fraud patterns are nondeterministic.  `passed` and `granted`
are history variables.  Chain, mode and limits are constants.

**IngestGate** is the rest of `POST /v1/events`: `_check_ingest_rate`, the
quota check, `quota.warning` and `increment_usage`, with the ledger's
transaction reduced to its commit or rollback.  A handler stops between its
Redis commands and its statements; `up` is what the ping of its request has
said, and any later command may still fail, executed or not.  The log level is
a variable, because it decides what the `except` clauses do: the loggers are
stdlib loggers and are called with keyword arguments, so where the level is
enabled the call raises `TypeError` and the request fails.  `ChangePlan` is the
billing webhook seen from here, `RedisLoses` a restart or an eviction, at any
time and any number of times.

**Teams** has the members of one workspace.  Every request (invite, revoke,
remove, accept, sign up with an invite) is a frame that moves from SELECT to
SELECT and ends in one step with its write and commit: READ COMMITTED, no row
locks.  Memberships have a unique key of user and tenant (migration 0002), so
the INSERT of a second row fails and rolls its request back (`InsertRow`).
Invites have no such key: that an email has one open invite rests on a SELECT.
`origin`, the invite that brought a row, is history.

**Sessions** has the token pairs of one account and the links that are mailed
to it.  The account comes into being by a sign-up, which mails the one link
that can verify it, or by an invite that is accepted, which leaves it verified.
Requests for an account that does not exist end at their first statement.  Time
is counted in ticks, `Second` of which make a second, since claims are whole
seconds and a TTL in Redis is computed from another instant than the `exp` it
must outlive.  **Tenancy** has the rows of one tenant that requests read and
later write: plan, quota and subscription, keys, endpoints, and the deliveries
that write `last_status` back.  `Updated` is SQLAlchemy's UPDATE: the columns
whose value differs from what was read.

**Wrappers** brackets nested calls with events, for both SDKs: `stack[t]` are the
wrapped calls that thread `t` is in, `raising[t]` the exception on its way up.
The Python emission may raise after it has buffered (it flushes), the TypeScript
one never does; `BaseException` is what `except Exception` lets pass.
**Callback** is one LangGraph callback whose handlers LangChain calls from any
thread.  **WhatIf** is the projector's loop, one event a step, with the two
routes that run it.

`MC*` modules give the constants their values for TLC.  `MCAccount` puts
Sessions and Tenancy into one run and `MCWrappers` the last three: parts that
share no state and do not restrict each other.  The variable `part` picks the
one a behaviour is about, so that the states of the parts add up and do not
multiply.

*What the history variables delimit.*  Some promises hold only while something
does not happen, and the models say exactly what.  `raced` (Teams, Sessions,
Callback): two requests had read the same state before either wrote; without it
there is one open invite per email, one use of a link, one open turn.  In Teams
it is the set of the emails that overlapping requests have invited.  `torn`
(Tenancy): two Stripe webhooks overlapped, or a plan was named that is not in
`PLAN_QUOTAS`.  `disturbed` (IngestGate): two requests compared the usage at
once, the plan changed, or Redis was not there to count; without it the warning
is out in time.  `forgotten` and `ceiling` are amounts: the stored events that
the usage counter does not have, because they were never counted or because
Redis has lost its keys since, be it many times; and the highest limit a check has
passed.  Each is set by the step that causes it and read by no guard, as is
`counted`, which says of a request what the counter has of it.

## 3. Runs

| Run | Instance | Shows |
|---|---|---|
| `ledger` | 3 handlers, 2 tenants, batches of 2, 1 and 1 events, two of them with equal payloads | `ChainIntact`, `SequenceContiguous`, `UniqueKeys`, `BatchWhole` hold; the ledger implements AppendLog; every handler ends |
| `ledger_retry` | a delivery that repeats a stored event next to a new one | *violation*: the chain is broken for good |
| `ledger_jsonb` | a payload with a number that JSONB writes differently | *violation*: an untouched row fails verification |
| `delivery` | 2 threads, 3 events, batch size 1, one retry, 2 requests in flight | batches are disjoint; every event is accounted for; a thread's batches stay in order although the 202 comes first; the buffer bound; the log is an AppendLog; flushes end |
| `audit` | 3 rows, 2 payloads, 2 times, 2 changes, every window and limit | what "ok", `first_broken_index` and a pack mean |
| `audit_window` | 2 rows, no changes | *violation*: a window of an untouched ledger is reported as broken |
| `guards` | 2 threads, the README's chain, two limits of one window, 3 instants | caps on calls, tokens and velocity, with the excess that concurrency, resets and failing emits allow |
| `guards_velocity` | 1 thread, a short and a long window | *violation*: the long limit is not enforced |
| `gate` | 2 handlers, batches of 1 or 2, 2 events a minute, quotas 2 and unlimited, log levels INFO and ERROR | the minute's limit; the excess over the quota under concurrency; no stored event missing from the bill except those Redis did not count or has lost, however often it loses its keys; the warning |
| `teams` | the founder and 2 people, 2 invites, 2 roles, 2 requests at a time | the owner stays; members are invited; an email has one open invite, or as many as requests that raced; a revoked invite is dead |
| `account` | 2 token pairs, 2 links, 1 new password, 2 requests, 4 ticks, a second of 2; 1 key, 1 endpoint, 3 plans of which one is unlisted | a revoked token is refused until it expires; a link works once, and an account that signed up is verified exactly by its link; plan, quota and subscription agree; what is revoked or deleted stays so |
| `wrappers` | 2 threads, 2 calls, one inside the other or side by side, 2 who cancel; 3 LangChain runs; 3 events of 2 tools on 2 days under 2 policies | ends and starts of calls; the reason of a cancellation; turns do not overlap; the projection against its reference |

*Why the bounds are enough.*  Three handlers are the holder of the lock, a
waiter of the same tenant and one of another tenant (or a second waiter); a
batch of two has an inside and a boundary, which `BatchWhole` and the retry
need; two tenants suffice because nothing relates three.  In `delivery` two
threads race for the buffer, one retry yields an original and a duplicate in
flight at once, and both threads can be between append and drain, which is
where `BufferBound` is tight and where, with batch size 1, batches of two come
from.  In `audit`, two changes are what it takes to repair one with the other.
In `guards`, three instants are one more than the window, so that records leave
it; the bound of `VelocityBounded` is tight in its factor two: with factor one
TLC finds a violation of 32 steps.  In `gate` two handlers compare before
either counts, a batch of two crosses a quota of two, and `MaxUsage` 4 lets the
usage come to the quota, past it, and there again after a loss; the warning
threshold of the quota 2 is 1, so that usage can come to it, and past it, in
one batch.  `teams` needs two requests for a race, two invites for two that are
open for one email, and someone who is neither the founder nor the invited.  In
`account`, two links are the one that verifies the address and one that resets
the password, or two resets; which password is set matters to no property; a
second of two ticks is the least that makes whole seconds differ from instants,
`Horizon` lets both lives of a pair end, and an unlisted plan shares its quota
with a listed one.  In `wrappers` two calls are one in the other or two at
once, and three LangChain runs are a turn, a run in it and a rival root.  Where
a theorem of section 4 states the property, the bounds do not matter.  Symmetry
sets permute requests, threads, people, invites and pairs, which no definition
tells apart.

*Fairness.*  `Ledger`: weak fairness of a started handler's own steps, since
the event loop runs it and statements return; strong fairness of
`AcquireLock`, since PostgreSQL queues the waiters of a lock.  `Delivery`: weak
fairness of a thread's own steps; `TryAgain` and `GiveUp` stand for the
timeout of `httpx.Client(timeout=...)`.  Neither the server nor the network is
fair: they may stop for ever.  The other modules state no fairness and claim no
liveness: their requests may fail at any statement, and nobody waits for them.
`delivery`, `account` and `wrappers` run without the deadlock check: everything
may have been emitted, the horizon reached, or every call made.

*Disagreements found.*  The four violation runs, and the findings without a
run, are in `PROJECT.json`, each with the sentence of the repository it
contradicts.  The findings without a run follow from the models too, which
could not state the property without the exception: a batch in `raised` or
`undone` is lost (`Accounted` needs both), `FullVerdict` holds only with
"prefix" in place of "equal", `Record` comes before `Budget`, the logger calls
raise at the levels that `WarningRaises` and `InfoRaises` name (a subscription
is never updated at INFO, a delivery that fails once is not repeated, a Redis
failure is a 500), two acceptances of one invite end one of them in a 500
(`InsertRow`), two invitations of one email and two uses of one link need
`raced`, `QuotaBounded` holds for every finite plan although the paid ones are
said to run over their quota, and `AnswerSession` is a 500.

## 4. Proofs

`LedgerProofs` proves about `Ledger`, for any tenants, handlers, batches and
payloads:

| Theorem | Assumption beside the constants' | Statement |
|---|---|---|
| `TypeCorrect` | none | `Spec => []TypeOK` |
| `ContiguousTheorem` | `BatchesDisjoint` | `Spec => []SequenceContiguous` |
| `UniqueKeysTheorem` | `BatchesDisjoint` | `Spec => []UniqueKeys` |
| `BatchWholeTheorem` | `BatchesDisjoint` | `Spec => []BatchWhole` |
| `ChainIntactTheorem` | `BatchesDisjoint`, `PayloadsRoundTrip` | `Spec => []ChainIntact` |
| `Refinement` | `BatchesDisjoint` | `Spec => ImplementsAppendLog` |

`BatchesDisjoint` says that two deliveries are the same batch or share no
event.  `ledger_retry` shows that it cannot be dropped, and the theorem
`BatchesAreDisjoint` of `DeliveryProofs` that the SDK's clients keep it.  `PayloadsRoundTrip` cannot be
dropped either: `ledger_jsonb`.

*The argument.*  None of the invariants is inductive.  The invariant that is,
`IInv`, adds three parts.  `TypeInv`: types, and that sequence numbers are
bounded, so that a tenant with rows has a latest one.  `TableInv`: a row's
sequence number is the length of its hash, which ties the order of the rows to
the hashes.  `HandlerInv`: who is in a phase of `Holding` holds the lock of its
tenant, and then the head it read is still the head and its pending rows are
those of its batch on that head.  So a commit appends to the head it read.
With `BatchesDisjoint` the pending rows are either the whole batch or nothing,
which is what makes the step one `Accept` of AppendLog or a stutter.

TLC checked `IInv` as an invariant of the `ledger` instance before the proof.

`GuardsProofs` proves about `Guards`, for any finite set of threads, any chain
with a budget, any limits and any clock:

| Theorem | Assumption beside the constants' | Statement |
|---|---|---|
| `TypeCorrect` | none | `Spec => []TypeOK` |
| `CallsBoundedTheorem` | none | `Spec => []CallsBounded` |
| `TokensBoundedTheorem` | none | `Spec => []TokensBounded` |
| `ShortestLimitsHold` | none | `Spec => []` of `LimitHolds(i)` for the limits with the shortest window |
| `VelocityIsBounded` | `SameWindow` | `Spec => []VelocityBounded` |

`SameWindow` says that all limits have one window.  It cannot be dropped:
`guards_velocity`.  `ShortestLimitsHold` says what is left without it.

*The argument.*  `CallsBounded` says nothing of a call that is charged and
whose grant is not emitted yet, and `TokensBounded` nothing of a call that has
still to consume.  The inductive invariant `BudgetInv` counts both: `Pending`
are the threads between charge and grant, `UnderWay` those between charge and
consumption.  Its two parts add, for each conversation, the size of the first
set to the grants (`CallsInv`), and `MaxPerCall` for every member of the second
to the tokens (`TokensInv`).  A charge adds one thread to both sets and, since
the budget was not exhausted, leaves room for all of them; an emission moves a
thread from `Pending` to the grants; a call that ends moves its share from
`UnderWay` to the tokens; a reset starts from zero with every thread possibly
under way, which is where the term for the threads comes from.  All other
actions are `Quiet`.

`VelocityBounded` speaks of what has passed, and neither of the deque that the
limiter reads nor of the calls that have compared and not recorded.
`VelocityInv` has, for each shortest limit `i` and each instant `t`, one of two
facts about the window that ends at `t`.  `Counted`: all that passed in it is
still in the deque, and with what the calls beyond the comparison of `i` may add
(`Shares`) it is over the limit by no more than one call of every other thread.
Whoever passes that comparison next has counted all that has passed, so only the
others' shares are uncounted.  `Closed`: a call that was timed after `t` has
trimmed the deque; then the clock is past `t`, no call enters the window any
more, and those in it add at most one call of every other thread.  The first
such trim turns `Counted` into `Closed`, which is where the factor two comes
from.  A trim by a call timed no later than `t` drops nothing of the window
(`KeptTrimmed`), and this is where the shortest window is needed.  All other
steps are `Calm`: no share grows.  The sums are over sets (`SumFunctionOnSet`);
their laws (`SumLaws`, `SumMonotone`, `SumChange`, `SumRenamed`) are proved by
induction over subsets, as described for the gate below.  TLC checked
`VelocityInv` on the `guards` instance before the proof.

`DeliveryProofs` proves about `Delivery`, for any finite set of threads, any
programs that emit no event twice, any batch size, number of retries and
network, with no other assumption:

| Theorem | Statement |
|---|---|
| `DeliveryTypeCorrect` | `Spec => []TypeOK` |
| `BatchesAreDisjoint` | `Spec => []DrainedDisjoint` |
| `EventsAreAccounted` | `Spec => []Accounted` |
| `BufferIsBounded` | `Spec => []BufferBound` |
| `DeliveryImplementsAppendLog` | `Spec => ImplementsAppendLog` |
| `OrderIsKept` | `Spec => []DrainOrderKept` |

*The argument.*  `ClientInv` says that the buffer holds emitted events that are
in no drained batch, that drained batches are pairwise disjoint, and that every
request, and every batch a thread posts, is one of that thread's drained
batches.  Emission and drain move an event on; all other actions are one lemma
(`KeepStep`), since what they send is what the thread was posting.  `Moves` then
reduces every step to one of six effects, and the other invariants are checked
against these: `AllHeld` (an emitted event is somewhere), `LogInv` (a drained
batch is stored whole or not at all, so that what a commit adds is the batch or
nothing: `FreshIs`), and for the order `Settled` (a batch that its thread has left
behind is stored, answered or given up) with `OneServing`: the advisory lock lets
one answered transaction be open, so when a later batch commits, the earlier one
is no longer in between.  `BufferFits` counts the threads between their append
and their drain, where `BufferBound` counts all.

`LedgerAuditProofs` proves about `LedgerAudit`, for any rows, payloads, times,
limits and number of changes:

| Theorem | Statement |
|---|---|
| `VerdictIsExact` | `Spec => [](Reported => (report.ok <=> the rows read are the first as written))` |
| `UntouchedVerdictIsPrefix` | `Spec => []UntouchedVerdict` |
| `FullVerdictIsPrefix` | `Spec => []FullVerdict` |
| `BrokenIndexIsExact` | `Spec => []BrokenIndexExact` |
| `PacksAreEvidence` | `Spec => []PackIsEvidence` |

*The argument.*  The table invariant is weak on purpose, since the table is
changed behind the ledger: sequence numbers are distinct, and each row still
carries the two hashes it was written with (`RowOf`), its payload being perhaps
another one.  `HashChain` sees a reading as a set of rows and their ranks; the
lemmas about `InChainOrder` count the rows before a row and give the same reading
as a sequence, which is what `Contents` compares.  That every row up to the
`n`-th links to its predecessor and hashes to what it carries then means that
these are the first `n` rows as written (`UpTo`).  That is an induction over `n`,
made by taking the least `n` at which it fails (`LeastElement`), since the
library's induction theorems take an operator and cannot be used.

`IngestGateProofs` proves about `IngestGate`, for any finite set of handlers,
limits, plans and log levels: `GateTypeCorrect` (`TypeOK`), `RateIsBounded`
(`RateBounded`), `QuotaIsBounded` (`QuotaBounded`), `BilledUsageCovers`
(`BilledCovers`) and `WarningIsSent` (`WarningSent`).  For the rate, the
counter has counted what it let pass (`RateInv`).  For the quota and the bill,
`UsageInv` adds, over all handlers under way, what each may still store and
what each has counted before it stores it: a handler that has passed the check
brings at most one batch, and what is stored or counted in advance is in the
counter or in `forgotten`, and `forgotten` is never more than what is stored,
whenever Redis loses its keys.  The sum is the value at the whole set of a
function on subsets (`IsSum`, `Total`) that grows by one summand at a time; the
lemmas about it use induction over subsets, made with the least element again.
For the warning, as long as nothing has disturbed, one handler at most is
between its comparison and its increment, the quota it read is the one in
force, and if its batch will bring the usage to the threshold, the warning has
been dispatched (`WarnInv`).

`TeamsProofs` proves about `Teams`, for any people, roles, invites and
requests: `TeamsTypeCorrect` (`TypeOK`), `FounderIsKept` (`OwnerKept`),
`MembersAreInvited` (`InvitedMembers`), `OpenInvitesBounded` (`OpenInvites`)
and, as an action property, `RevocationIsFinal` (`RevokedIsFinal`).  None of
them mentions the requests under way, and none is inductive without them:
`Fits(w, g)` says for each statement what its request has found and what can no
longer change, e.g. that a removal that is about to delete is not about the
founder, and that an invite that is being created exists for nobody else.  For
the open invites, `OpenInv` adds the requests that have found none and will
create one (`Inviting`): together with the open invites of the email they are
no more than the requests that run at the same time, and no more than one as
long as the email has not raced.  A request finds none only if there is none,
and then all others that are about to create one are in `Inviting` with it.

`AccountProofs` proves about `MCAccount`, the composition of `Sessions` and
`Tenancy` that the run checks, for any pairs, links, requests, lives, keys,
endpoints, plans and subscriptions.  `AccountParts` splits a behaviour of the
composition into one of each part.

| Theorem | Statement |
|---|---|
| `SessionsTypeCorrect` | `Spec => []SessionsTypeOK` (listed by no run, to spend the run on the others) |
| `RevokedTokensStayBlocked` | `[]BlockedUntilExpiry` |
| `LinksWorkOnce` | `[]LinkWorksOnce` |
| `TenancyTypeCorrect` | types, and that no request works on a row that does not exist |
| `WhatIsGoneStaysGone` | `AccountSpec => GoneForGood` |
| `PlansAgree` | `AccountSpec => []PlanAndQuotaAgree` |

`RevokedTokensStayBlocked` rests on `SessionsAssumption`: the grace that logout
adds is at least a second, which is what rounding down can cost, and a token
lives for at least a second.  `LinksWorkOnce` counts, for each link, its
effects and the requests that may still give it one (`LinkInv`).  That an
account that signed up is verified if and only if its link has been used
(`VerifiedInv`) needs that nothing was mailed before there was an account
(`NewInv`): an account that an invite created gets no link that verifies.
`WhatIsGoneStaysGone` follows from what an UPDATE writes: a delivery changes
the status and leaves `active` as it finds it (`UpdatedEndpoint`), so what it
had read does not matter. `PlansAgree` assumes `TenancyAssumption`, that no two
plans of `PLAN_QUOTAS` share a quota, which `MCAccount` has TLC evaluate.
`PlanInv` then has two halves. Without an overlap, the one Stripe request under
way has read the row as it is. With one, but with listed plans only, plan and
quota of what a request writes differ from what it read both or neither, so
each UPDATE writes both or neither.

`WrappersProofs` proves about `MCWrappers`, for any threads, nesting, cancellers,
runs, events and policies: `CallsAreAccounted` (`CallsAccounted`),
`ReasonsAreGiven` (`CancelReason`), `TurnsAreBracketed` (`TurnsBracketed`) and
`ProjectionIsExact` (`ProjectionExact`).  It assumes `WrappersAssumption`,
`RunsAssumption` and `PolicyAssumption`: a bound is a natural number, the values
that stand for "no reason", "no run" and "no tool" are none of those, there are
finitely many tools, and caps are natural numbers.  Amounts may be negative, as
the code reads any number.

*The argument.*  `Kept` says what each wrapper may add to a call when its body
ends, for every way in which an emission may break off (`AfterKept`, one lemma per
wrapper); `CallInv` adds to `Accounted` what a call that has begun holds.  That the
body of a call ends once is not a property of the call but of the stacks:
`NestInv` says that a call that is open is on one stack and there once.
`TokenInv` adds to `CancelReason` that the reason that is set is one that was
given, which is why `cancel` must write it before it sets the event.
`TurnsBracketed` speaks of the events; `CallbackInv` adds what the callback
keeps: as long as no two threads have raced, the turn that is open is the last
one and that of the root chain kept (`TurnInv`), one chain at most is about to
begin a turn and only if there is none (`RunsInv`), and in JavaScript nothing
comes between the test and the assignment (`ScriptInv`).

For the projection, `ProjectorInv` ties the running counters to the events they
have seen: a count is the number of earlier events of the tool and the day that
were not refused, an amount the sum over those within the count's cap
(`CountersInv`).  So each decision, once made, is the one of the reference, which
looks only at what came before it (`DecisionsInv`).  `AllowedInv` says that the
amounts that were let through are within the cap and no more than what was
counted.  That holds for negative amounts too, since a denied amount stays in the
counter and has brought it above the cap: what was let through before was below.
That no flip is counted twice in the summary is `SumOfGroups`: events that are
sorted by tool are counted tool by tool.

*Only model-checked.*  The two liveness properties, `RequestEnds` of `Ledger` and
`FlushEnds` of `Delivery`, since the prover can reason neither about `ENABLED` nor
under fairness.  Every other property of a passing run is stated by a theorem.
Proofs about sums and about sets of any size use no induction theorem of the
library, which take an operator as an argument; the induction is over the
subsets of the set that is summed, stated with a set of subsets in place of a
predicate (`InductionOverSubsets`).

## 5. Not modelled, and the plan

Abstracted everywhere: the content of payloads, hashing and JSON as bytes,
cryptography, logging (except where a call of the logger raises).  Not modelled:

- `RedisVelocityCounter` (sdk `guards/velocity.py`): the guards are modelled
  with the counter in memory.
- The controls that the evidence packs render and the ZIP file: presentation of
  what `GeneratePack` selects.
- `ledger/upcast.py`: a registry that no route calls; each upcaster is a function
  of one payload.
- `contracts/`: a check of one call's fields, stateless; no guard runs it.
- `billing/service.py`: calls to Stripe that leave a customer id.
- `packages/sdk-ts/src/client.ts`: drains and posts as `Delivery` does, in one
  thread; its wrappers are in `Wrappers`, its callback in `Callback`.
- The dashboard, deployment, configuration, e-mail, seed data, the `slowapi`
  limits and the read-only lists.

What could follow: the Redis counter of the velocity limiter, whose trim, count
and record are commands that other processes may come between; a refinement of
`Guards` to a limiter with exact windows for one thread; the contracts, once a
guard runs them.
