------------------------------ MODULE MCAccount ------------------------------
(***************************************************************************)
(* The sessions and links of one account (Sessions) and the rows of one    *)
(* tenant (Tenancy).  A request on the tenant's rows is authorized by a    *)
(* session or not at all (Stripe, deliveries), and Tenancy lets it begin   *)
(* at any time; so nothing of the one part restricts the other, and a      *)
(* behaviour takes the steps of one of them (and of the other one initial  *)
(* state).                                                                 *)
(***************************************************************************)
EXTENDS Sessions, TLC

CONSTANTS w1, w2, p1, p2, l1, l2, pa, k1, e1, s1,
          Keys, Endpoints, PLAN_QUOTAS, EventPlans, Subscriptions,
          NoSubscription, MaxRetries, Levels

VARIABLES part, level, tenant, keys, endpoints, treq, torn

Tenant == INSTANCE Tenancy WITH req <- treq

ASSUME AccountAssumption == Tenant!TenancyAssumption

tenantVars == <<level, tenant, keys, endpoints, treq, torn>>

AccountInit ==
    /\ part \in {"session", "tenant"} /\ Init /\ Tenant!Init
    /\ part # "tenant" => level = "ERROR"

SessionStep == part = "session" /\ Next /\ UNCHANGED <<part, tenantVars>>
TenantStep  == part = "tenant" /\ Tenant!Next /\ UNCHANGED <<part, vars>>

AccountNext == SessionStep \/ TenantStep

AccountSpec == AccountInit /\ [][AccountNext]_<<part, vars, tenantVars>>

\* The properties of Tenancy, by name.
PlanAndQuotaAgree == Tenant!PlanAndQuotaAgree
GoneForGood == Tenant!GoneForGood

PlanQuotas == [hobby |-> 10, startup |-> 1000, enterprise |-> -1]

Symmetry == Permutations(Workers) \cup Permutations(Pairs) \cup Permutations(Links)
=============================================================================
