\* Two threads, one conversation, the chain of the README, one velocity window.
CONSTANTS
    ta = ta  tb = tb  c1 = c1  c2 = c2
    Threads = {ta, tb}
    Conversations = {c1}
    Chain <- ReadmeChain
    Mode = "default"
    Limits <- OneWindow
    Amounts = {1, 2}
    MaxToolCalls = 1
    MaxTokens = 1
    MaxPerCall = 1
    Horizon = 2
SPECIFICATION Spec
SYMMETRY Symmetry
INVARIANTS TypeOK CallsBounded TokensBounded VelocityBounded
