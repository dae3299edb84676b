\* Two token pairs and two links of an account, two requests at a time, one
\* password as nothing depends on which one it is; one key and one webhook
\* endpoint of a tenant.
CONSTANTS
    w1 = w1  w2 = w2  p1 = p1  p2 = p2  l1 = l1  l2 = l2  pa = pa  k1 = k1  e1 = e1  s1 = s1
    Pairs = {p1, p2}
    Links = {l1, l2}
    Workers = {w1, w2}
    Passwords = {pa}
    Second = 2
    AccessTTL = 2
    RefreshTTL = 4
    LinkTTL = 2
    Grace = 2
    Verification = TRUE
    Horizon = 4
    Keys = {k1}
    Endpoints = {e1}
    PLAN_QUOTAS <- PlanQuotas
    EventPlans = {"hobby", "startup", "custom"}
    Subscriptions = {s1}
    NoSubscription = NoSubscription
    MaxRetries = 1
    Levels = {"INFO", "ERROR"}
SPECIFICATION AccountSpec
SYMMETRY Symmetry
INVARIANTS BlockedUntilExpiry LinkWorksOnce PlanAndQuotaAgree
PROPERTIES GoneForGood
CHECK_DEADLOCK FALSE
