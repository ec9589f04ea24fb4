SPECIFICATION Spec
CONSTANTS
    a1 = a1
    a2 = a2
    m1 = m1
    m2 = m2
    Articles = {a1, a2}
    NoArticle = NoArticle
    Parts <- MCParts
    Plan <- MCPlan
    Mailers = {m1, m2}
    MaxPerDay = 2
    ArticlesPerCycle = 2
    DigestArticles = 1
    Day = 1
    MaxAge = 1
    MaxClock = 2
    MaxLost = 1
INVARIANTS EveryRepeatIsALoss MarkedWentOut RowCapHeld MailsAccountedFor
PROPERTY NothingAfterTheMark
SYMMETRY MCSymmetry
CHECK_DEADLOCK FALSE
