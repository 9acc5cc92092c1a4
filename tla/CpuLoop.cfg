CONSTANTS
    NCpus = 2
    MaxWork = 1
    MaxOps = 2
SPECIFICATION FairSpec
INVARIANTS TypeOK WakeupOwed PendingExact AskedToLeave PausedQuiet ReplyOwed
PROPERTIES ImplementsSections IoReturns ExclusiveEnters
