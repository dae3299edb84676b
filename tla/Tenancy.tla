------------------------------- MODULE Tenancy -------------------------------
(***************************************************************************)
(* The rows of one tenant that several requests write: its plan (Stripe    *)
(* webhooks), its API keys and its webhook endpoints, with the deliveries  *)
(* to them (goderash_core/api/billing.py, auth.py, orgs.py, webhooks.py,   *)
(* webhooks/dispatcher.py, models/tenant.py).                              *)
(*                                                                         *)
(* A request reads a row and writes it in a later step, with the commit.   *)
(* SQLAlchemy's UPDATE sets the columns whose value differs from the one   *)
(* that was read, so two requests that overlap may each leave their part.  *)
(* Which member may do what is the matter of module Teams.                 *)
(***************************************************************************)
EXTENDS Integers

CONSTANTS Workers,        \* requests and delivery tasks that may run at the same time
          Keys,           \* API keys that may be issued
          Endpoints,      \* webhook endpoints that may be created
          PLAN_QUOTAS,    \* the quota of each plan
          EventPlans,     \* plans that the metadata of a subscription may name
          Subscriptions,  \* subscription ids
          NoSubscription, \* stripe_subscription_id is null
          MaxRetries,     \* webhook_max_retries
          Levels          \* log levels the server may run with

\* The table PLAN_QUOTAS lists "hobby" and gives no two plans the same quota.
TenancyAssumption ==
    /\ "hobby" \in DOMAIN PLAN_QUOTAS
    /\ \A p, q \in DOMAIN PLAN_QUOTAS : PLAN_QUOTAS[p] = PLAN_QUOTAS[q] => p = q
    /\ NoSubscription \notin Subscriptions

VARIABLES level,      \* goderash_log_level
          tenant,     \* plan, monthly_event_quota, stripe_subscription_id
          keys,       \* rows of api_keys
          endpoints,  \* rows of webhook_endpoints
          req,        \* req[w]: what worker w does, or Idle
          torn        \* history: what may set plan, quota and subscription apart

vars == <<level, tenant, keys, endpoints, req, torn>>

Idle   == [op |-> "idle"]
NoRow  == [exists |-> FALSE]
NewKey == [exists |-> TRUE, revoked |-> FALSE, touched |-> FALSE]
NewEndpoint == [exists |-> TRUE, active |-> TRUE, status |-> "none"]
Hobby  == [plan |-> "hobby", quota |-> PLAN_QUOTAS["hobby"], sub |-> NoSubscription]

Init ==
    /\ level \in Levels
    /\ tenant = Hobby
    /\ keys = [k \in Keys |-> NoRow]
    /\ endpoints = [e \in Endpoints |-> NoRow]
    /\ req = [w \in Workers |-> Idle]
    /\ torn = {}

\* A stdlib logger that is called with keyword arguments raises TypeError
\* where its level is enabled.
InfoRaises    == level = "INFO"
WarningRaises == level \in {"INFO", "WARNING"}

Begin(w, frame) == req[w] = Idle /\ req' = [req EXCEPT ![w] = frame]
End(w) == req' = [req EXCEPT ![w] = Idle]

\* Mutation: every column is written.
Updated_WholeRow(row, seen, new) == new

\* The columns of `new' that differ from the row as it was read.
Updated(row, seen, new) == [c \in DOMAIN row |-> IF new[c] # seen[c] THEN new[c] ELSE row[c]]

-----------------------------------------------------------------------------
\* Stripe webhooks, in any order and any number of times.

QuotaOf(plan) == PLAN_QUOTAS[IF plan \in DOMAIN PLAN_QUOTAS THEN plan ELSE "hobby"]

StripeWebhook(w) ==
    /\ \E new \in {Hobby} \cup [plan : EventPlans, quota : {0}, sub : Subscriptions] :
           /\ Begin(w, [op |-> "stripe", seen |-> tenant,
                        new |-> [new EXCEPT !.quota = QuotaOf(new.plan)]])
           /\ torn' = torn \cup {"unlisted" : p \in {new.plan} \ DOMAIN PLAN_QUOTAS}
                           \cup {"overlap" : v \in {v \in Workers : req[v].op = "stripe"}}
    /\ UNCHANGED <<level, tenant, keys, endpoints>>

\* Mutation: a cancelled subscription keeps its quota.
UpdateTenant_KeepsQuota(w) ==
    /\ req[w].op = "stripe" /\ ~InfoRaises
    /\ tenant' = [Updated(tenant, req[w].seen, req[w].new) EXCEPT
                     !.quota = IF req[w].new.sub = NoSubscription THEN @ ELSE tenant.quota]
    /\ End(w)
    /\ UNCHANGED <<level, keys, endpoints, torn>>

\* _handle_subscription_updated and _deleted, if their log.info returns.
UpdateTenant(w) ==
    /\ req[w].op = "stripe" /\ ~InfoRaises
    /\ tenant' = Updated(tenant, req[w].seen, req[w].new)
    /\ End(w)
    /\ UNCHANGED <<level, keys, endpoints, torn>>

-----------------------------------------------------------------------------
\* API keys.

\* issue_key, create_api_key, signup.
IssueKey(k) ==
    /\ ~keys[k].exists
    /\ keys' = [keys EXCEPT ![k] = NewKey]
    /\ UNCHANGED <<level, tenant, endpoints, req, torn>>

\* revoke_key: the UPDATE is by id.
RevokeKey(k) ==
    /\ keys[k].exists
    /\ keys' = [keys EXCEPT ![k].revoked = TRUE]
    /\ UNCHANGED <<level, tenant, endpoints, req, torn>>

\* require_api_key reads the row (401 when it is revoked) ...
UseKey(w) ==
    /\ \E k \in Keys : /\ keys[k].exists /\ ~keys[k].revoked
                       /\ Begin(w, [op |-> "key", key |-> k, seen |-> keys[k]])
    /\ UNCHANGED <<level, tenant, keys, endpoints, torn>>

\* ... and sets last_used_at.
TouchKey(w) ==
    /\ req[w].op = "key"
    /\ keys' = [keys EXCEPT ![req[w].key].touched = TRUE]
    /\ End(w)
    /\ UNCHANGED <<level, tenant, endpoints, torn>>

-----------------------------------------------------------------------------
\* Webhook endpoints.

\* create_webhook asks for the plan once; a later downgrade changes nothing.
CreateWebhook(e) ==
    /\ ~endpoints[e].exists /\ tenant.plan # "hobby"
    /\ endpoints' = [endpoints EXCEPT ![e] = NewEndpoint]
    /\ UNCHANGED <<level, tenant, keys, req, torn>>

DeleteWebhook(e) ==
    /\ endpoints[e].exists
    /\ endpoints' = [endpoints EXCEPT ![e].active = FALSE]
    /\ UNCHANGED <<level, tenant, keys, req, torn>>

\* dispatch: a task for each endpoint that is active now (and subscribed).
Dispatch(w) ==
    /\ \E e \in Endpoints : /\ endpoints[e].exists /\ endpoints[e].active
                            /\ Begin(w, [op |-> "post", endpoint |-> e, attempt |-> 0, last |-> "none"])
    /\ UNCHANGED <<level, tenant, keys, endpoints, torn>>

\* One attempt of _deliver: an answer below 500 ends the loop; anything else is
\* logged, which raises, or tried again.  An exception leaves last_status alone.
Post(w) ==
    /\ req[w].op = "post" /\ req[w].attempt <= MaxRetries
    /\ \E r \in {"ok", "error", "exception"} :
           LET last == IF r = "exception" THEN req[w].last ELSE r
           IN  IF r = "ok" THEN req' = [req EXCEPT ![w].op = "posted", ![w].last = last, ![w].attempt = 0]
               ELSE IF WarningRaises THEN End(w)
               ELSE req' = [req EXCEPT ![w].attempt = @ + 1, ![w].last = last]
    /\ UNCHANGED <<level, tenant, keys, endpoints, torn>>

PostsEnd(w) ==
    /\ req[w].op = "post" /\ req[w].attempt > MaxRetries
    /\ req' = [req EXCEPT ![w].op = "posted", ![w].attempt = 0]
    /\ UNCHANGED <<level, tenant, keys, endpoints, torn>>

\* The status is written in a session of its own, which reads the row first.
ReadEndpoint(w) ==
    /\ req[w].op = "posted"
    /\ req' = [req EXCEPT ![w] = [op |-> "status", endpoint |-> req[w].endpoint, last |-> req[w].last,
                                  seen |-> endpoints[req[w].endpoint]]]
    /\ UNCHANGED <<level, tenant, keys, endpoints, torn>>

WriteStatus(w) ==
    /\ req[w].op = "status"
    /\ endpoints' = [endpoints EXCEPT ![req[w].endpoint] =
                        Updated(@, req[w].seen, [req[w].seen EXCEPT !.status = req[w].last])]
    /\ End(w)
    /\ UNCHANGED <<level, tenant, keys, torn>>

\* A statement, a log call or the commit fails, or the task dies.
Fail(w) ==
    /\ req[w] # Idle
    /\ End(w)
    /\ UNCHANGED <<level, tenant, keys, endpoints, torn>>

Next ==
    \/ \E w \in Workers : \/ StripeWebhook(w) \/ UpdateTenant(w) \/ UseKey(w) \/ TouchKey(w)
                          \/ Dispatch(w) \/ Post(w) \/ PostsEnd(w)
                          \/ ReadEndpoint(w) \/ WriteStatus(w) \/ Fail(w)
    \/ \E k \in Keys : IssueKey(k) \/ RevokeKey(k)
    \/ \E e \in Endpoints : CreateWebhook(e) \/ DeleteWebhook(e)

Spec == Init /\ [][Next]_vars

-----------------------------------------------------------------------------
\* Safety.

\* Webhooks that overlap write the columns they have each found different.  A
\* tenant has the quota of its plan all the same, as long as no plan shares its
\* quota with another one, as a plan that is not listed does; and only without
\* an overlap does a plan that is paid for have a subscription.
PlanAndQuotaAgree ==
    /\ {"overlap", "unlisted"} \subseteq torn \/ tenant.quota = QuotaOf(tenant.plan)
    /\ "overlap" \in torn \/ tenant.sub # NoSubscription \/ tenant.plan = "hobby"

\* A key that is revoked and an endpoint that is deleted stay so, whatever
\* requests and deliveries had read them before.
GoneForGood ==
    [][/\ \A k \in Keys : keys[k].exists /\ keys[k].revoked => keys'[k].revoked
       /\ \A e \in Endpoints : endpoints[e].exists /\ ~endpoints[e].active => ~endpoints'[e].active]_vars

=============================================================================
