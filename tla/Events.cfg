\* A receiver that listens behind one relay and to a synchronization's bus.
CONSTANTS
    Receivers = {r}
    Relays = {"wallet"}
    Listened = {"wallet", "sync"}
    Operations = {o}
    Threads = 2
    MaxRows = 2
    MaxChanges = 2
    MaxCalls = 2
SPECIFICATION FairSpec
INVARIANTS TypeOK HeardOnce OutcomeIsLast RowsTold
PROPERTIES OutcomeHeard
CHECK_DEADLOCK FALSE
