\* A window that does not start with the first event of the tenant.
CONSTANTS
    p1 = p1  p2 = p2
    Payloads = {p1, p2}
    Times = {1, 2}
    Unbounded = Unbounded
    NoReport = NoReport
    MaxRows = 2
    MaxChanges = 0
SPECIFICATION Spec
INVARIANTS WindowVerifies
