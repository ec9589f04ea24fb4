SPECIFICATION Spec
CONSTANTS
    m1 = m1
    m2 = m2
    m3 = m3
    x1 = x1
    x2 = x2
    Markets = {m1, m2, m3}
    Events = {e1}
    NoEvent = NoEvent
    Users = {u1}
    Agents = {a1}
    Extractors = {x1, x2}
    Liquidities = {3}
    LlmLiquidity = 3
    Amounts = {3}
    MaxTrades <- MCMaxTrades
INVARIANTS Backed SettledOnce OneMarketPerExtraction
SYMMETRY MCSymmetry
CHECK_DEADLOCK FALSE
