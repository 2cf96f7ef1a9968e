SPECIFICATION FairSpec
CONSTANTS
    f1 = f1
    f2 = f2
    c1 = c1
    c2 = c2
    Flusher <- MCFlusher
    Commander <- MCCommander
    Trigger <- MCTrigger
    MaxQueue = 2
INVARIANT NoMutualWait
PROPERTIES FlagLeftByGiveUp FlushReturns
CHECK_DEADLOCK FALSE
