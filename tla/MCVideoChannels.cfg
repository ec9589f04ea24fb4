SPECIFICATION Spec
CONSTANTS
    Articles = {a1, a2}
    NoArticle = NoArticle
    Chain <- MCChain
    ColumnOf <- MCColumnOf
    ByUrl <- MCByUrl
    Probing <- MCProbing
    Silent <- MCSilent
    MaxPerDay = 1
    Day = 2
    Ceiling = 2
    Lock = 5
    Safety = 1
    RenderTimes = {1, 3}
    MaxClock = 5
    WorkerDies = TRUE
INVARIANTS TypeOK ChainFitsTheLock CapHeldInTime TheRowSaysWhatHappened
PROPERTIES EveryChannelGetsItsShare EveryChannelIsReached
SYMMETRY MCSymmetry
CHECK_DEADLOCK FALSE
