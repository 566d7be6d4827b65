\* Data may be erased at any time and performSynchronization may throw.
CONSTANTS
    MaxSyncs = 4
    MaxErases = 2
    MaxThrows = 1
SPECIFICATION FairSpec
INVARIANTS TypeOK CompletedOnce NotifierThere OwnNotifier OneBusPerJob OneJobAtATime
PROPERTIES BusKeptUntilOutcome OutcomePosted CanSynchronizeAgain
CHECK_DEADLOCK FALSE
