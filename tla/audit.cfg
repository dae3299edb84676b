\* A ledger of up to three rows, changed up to twice, read in every window.
CONSTANTS
    p1 = p1  p2 = p2
    Payloads = {p1, p2}
    Times = {1, 2}
    Unbounded = Unbounded
    NoReport = NoReport
    MaxRows = 3
    MaxChanges = 2
SPECIFICATION Spec
INVARIANTS UntouchedVerdict FullVerdict BrokenIndexExact PackIsEvidence
