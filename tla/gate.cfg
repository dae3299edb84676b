\* Two requests of one tenant at a time, at the log levels that differ.
CONSTANTS
    h1 = h1  h2 = h2
    Handlers = {h1, h2}
    MaxBatch = 2
    RateLimit = 2
    Quotas <- GateQuotas
    Levels = {"INFO", "ERROR"}
    MaxUsage = 4
SPECIFICATION Spec
SYMMETRY Symmetry
INVARIANTS TypeOK RateBounded QuotaBounded BilledCovers WarningSent
