\* Two threads that complete and register, three callbacks, of which the first two
\* may throw each time it is run inline.
CONSTANTS
    Threads = {t1, t2}
    Callbacks = {c1, c2, c3}
    Results = {ok, ko}
    NoResult = NoResult
    NoThread = NoThread
    Immediate = Immediate
    Queues = {q}
    Throwing = {c1, c2}
SPECIFICATION FairSpec
INVARIANTS TypeOK Agreement NoneStranded RunOnce InOrder
PROPERTIES AllRun PromisedSpec
CHECK_DEADLOCK FALSE
