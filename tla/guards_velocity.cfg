\* One thread, an hourly and a daily limit: the README's example, scaled down.
CONSTANTS
    ta = ta  tb = tb  c1 = c1  c2 = c2
    Threads = {ta}
    Conversations = {c1}
    Chain <- ReadmeChain
    Mode = "auto"
    Limits <- TwoWindows
    Amounts = {1, 2}
    MaxToolCalls = 5
    MaxTokens = 5
    MaxPerCall = 0
    Horizon = 4
SPECIFICATION Spec
INVARIANTS VelocityBounded
