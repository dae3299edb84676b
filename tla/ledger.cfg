\* The SDK's deliveries: disjoint batches, retried and concurrent.
CONSTANTS
    t1 = t1  t2 = t2
    w1 = w1  w2 = w2  w3 = w3
    e1 = e1  e2 = e2  e3 = e3  f1 = f1
    p1 = p1  p2 = p2  p3 = p3
    Payloads = {p1, p2, p3}
    Jsonb <- MCJsonb
    NoWorker = NoWorker
    Tenants = {t1, t2}
    Workers = {w1, w2, w3}
    Batches <- MCBatches
    TenantOf <- MCTenantOf
    PayloadOf <- MCPayloadOf
SPECIFICATION FairSpec
INVARIANTS TypeOK ChainIntact SequenceContiguous UniqueKeys BatchWhole
PROPERTIES ImplementsAppendLog RequestEnds
