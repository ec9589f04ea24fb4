SPECIFICATION FairSpec
CONSTANTS
    Dispatches = {d1, d2}
    Abandoned = Abandoned
    MaxCommands = 3
INVARIANT TypeOK
PROPERTIES NoDispatchHangs CycleKeepsRunning
