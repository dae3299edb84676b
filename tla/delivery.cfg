\* Two threads of one SDK client, two handlers, one retry.
CONSTANTS
    ta = ta  tb = tb
    e1 = e1  e2 = e2  e3 = e3
    Events = {e1, e2, e3}
    Batches <- MCBatches
    Threads = {ta, tb}
    Program <- MCProgram
    BatchSize = 1
    RetryMax = 1
    InFlight = 2
SPECIFICATION FairSpec
INVARIANTS TypeOK DrainedDisjoint Accounted DrainOrderKept BufferBound
PROPERTIES ImplementsAppendLog FlushEnds
\* The threads may have emitted everything and nothing is left to do.
CHECK_DEADLOCK FALSE
