\* Two threads, two calls, one in the other or side by side, and two who cancel;
\* three runs of LangChain; three events of two tools on two days.
CONSTANTS
    t1 = t1  t2 = t2  op = op  ws = ws  r1 = r1  r2 = r2  r3 = r3  x = x  y = y  d1 = d1  d2 = d2
    NoReason = NoReason
    Threads = {t1, t2}
    MaxCalls = 2
    MaxDepth = 2
    MaxBlocks = 1
    Cancellers = {op, ws}
    RunIds = {r1, r2, r3}
    NoRun = NoRun
    ToolNames = {x, y}
    Days = {d1, d2}
    Amounts = {1}
    NoCap = NoCap
    NoTool = NoTool
    Epoch = Epoch
    Policies <- SomePolicies
    MaxEvents = 3
SPECIFICATION WrappersSpec
SYMMETRY Symmetry
INVARIANTS CallsAccounted CancelReason TurnsBracketed ProjectionExact
CHECK_DEADLOCK FALSE
