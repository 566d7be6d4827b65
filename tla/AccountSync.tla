----------------------------- MODULE AccountSync -----------------------------
(***************************************************************************)
(* One account and its synchronizer: EthereumLikeAccount::synchronize and  *)
(* eraseDataSince over AbstractBlockchainExplorerAccountSynchronizer, the  *)
(* shape BitcoinLikeAccount repeats.  Two locks are involved: the          *)
(* account's _synchronizationLock guards the event bus of the current      *)
(* synchronization, the synchronizer's _lock guards _currentAccount and    *)
(* _notifier.  A job is one performSynchronization, run by continuations   *)
(* on the account's thread pool; what it does is in BatchSync.  Its last   *)
(* continuation clears _currentAccount without any lock, and the callback  *)
(* that completes the notifier runs later, on the synchronizers' pool.     *)
(*                                                                         *)
(* The n-th bus created is n, the n-th job is n and so is the notifier     *)
(* created with it; 0 stands for a null pointer.                           *)
(***************************************************************************)
EXTENDS Naturals

CONSTANTS MaxSyncs,          \* bound: how many buses are created
          MaxErases,         \* bound: how often eraseDataSince is called
          MaxThrows          \* bound: how often performSynchronization throws

ASSUME BoundsAssumption ==
    MaxSyncs \in Nat /\ MaxErases \in Nat /\ MaxThrows \in Nat

VARIABLES bus,         \* the account's _currentSyncEventBus
          buses,       \* how many buses were created
          listens,     \* the notifier whose future feeds each bus
          heard,       \* how far the callback that feeds each bus has come
          returned,    \* the buses that synchronize() gave to a caller
          inUse,       \* the synchronizer's _currentAccount is not null
          notifier,    \* the synchronizer's _notifier
          jobs,        \* how many jobs were created
          job,         \* the progress of each job
          completers,  \* the jobs that completed each notifier
          crashed,     \* a null _notifier was dereferenced
          disturbed,   \* history: data was erased while a bus was there, or
                       \* performSynchronization threw
          erases, throws

accountVars == <<bus, buses, listens, heard, returned>>
synchronizerVars == <<inUse, notifier, jobs, job, completers, crashed>>
historyVars == <<disturbed, erases, throws>>
vars == <<accountVars, synchronizerVars, historyVars>>

Ids == 1..MaxSyncs
Refs == 0..MaxSyncs

Init ==
    /\ bus = 0
    /\ buses = 0
    /\ listens = [b \in Ids |-> 0]
    /\ heard = [b \in Ids |-> "waiting"]
    /\ returned = {}
    /\ inUse = FALSE
    /\ notifier = 0
    /\ jobs = 0
    /\ job = [j \in Ids |-> "none"]
    /\ completers = [n \in Ids |-> {}]
    /\ crashed = FALSE
    /\ disturbed = FALSE
    /\ erases = 0
    /\ throws = 0

\* _lock is held by a callback that completed the notifier and goes on.
SynchronizerLocked == \E j \in Ids : job[j] = "completing"

SetJob(j, stage) == job' = [job EXCEPT ![j] = stage]

-----------------------------------------------------------------------------
\* Mutant: whatever the bus is, it is returned.
SynchronizeAgainUnchecked ==
    /\ ~crashed
    /\ returned' = returned \cup {bus}
    /\ UNCHANGED <<bus, buses, listens, heard, synchronizerVars, historyVars>>

\* synchronize() while a bus is there: it is returned as it is.
SynchronizeAgain ==
    /\ ~crashed
    /\ bus # 0
    /\ returned' = returned \cup {bus}
    /\ UNCHANGED <<bus, buses, listens, heard, synchronizerVars, historyVars>>

\* synchronizeAccount: a new job, or the notifier of the one under way.
SynchronizeAccount(b) ==
    \/ /\ ~inUse
       /\ inUse' = TRUE
       /\ jobs' = jobs + 1
       /\ notifier' = jobs'
       /\ SetJob(jobs', "running")
       /\ listens' = [listens EXCEPT ![b] = jobs']
    \/ /\ inUse
       /\ listens' = [listens EXCEPT ![b] = notifier]
       /\ UNCHANGED <<inUse, jobs, notifier, job>>

\* Mutant: the account does not look for the bus of a running synchronization.
SynchronizeUnguarded ==
    /\ ~crashed
    /\ buses < MaxSyncs
    /\ ~SynchronizerLocked
    /\ SynchronizeAccount(buses + 1)
    /\ bus' = buses + 1
    /\ buses' = buses + 1
    /\ returned' = returned \cup {bus'}
    /\ UNCHANGED <<heard, completers, crashed, historyVars>>

\* synchronize() without a bus, under both locks.
Synchronize ==
    /\ ~crashed
    /\ bus = 0
    /\ buses < MaxSyncs
    /\ ~SynchronizerLocked
    /\ SynchronizeAccount(buses + 1)
    /\ bus' = buses + 1
    /\ buses' = buses + 1
    /\ returned' = returned \cup {bus'}
    /\ UNCHANGED <<heard, completers, crashed, historyVars>>

\* performSynchronization throws before it returns a future: the exception
\* leaves synchronize() after the bus and _currentAccount were set.
SynchronizeThrows ==
    /\ ~crashed
    /\ bus = 0
    /\ buses < MaxSyncs
    /\ ~SynchronizerLocked
    /\ ~inUse
    /\ throws < MaxThrows
    /\ throws' = throws + 1
    /\ disturbed' = TRUE
    /\ inUse' = TRUE
    /\ jobs' = jobs + 1
    /\ notifier' = jobs'
    /\ SetJob(jobs', "thrown")
    /\ bus' = buses + 1
    /\ buses' = buses + 1
    /\ UNCHANGED <<listens, heard, returned, completers, crashed, erases>>

\* The last continuation of a job that succeeds: _currentAccount is cleared,
\* then the callback of synchronizeAccount is posted.
JobSucceeds(j) ==
    /\ ~crashed
    /\ job[j] = "running"
    /\ inUse' = FALSE
    /\ SetJob(j, "ended")
    /\ UNCHANGED <<accountVars, notifier, jobs, completers, crashed, historyVars>>

\* Mutant: a job that fails tells nobody.
JobFailsSilently(j) ==
    /\ ~crashed
    /\ job[j] = "running"
    /\ SetJob(j, "thrown")
    /\ UNCHANGED <<accountVars, inUse, notifier, jobs, completers, crashed,
                   historyVars>>

\* A failure skips that continuation; recover turns it into a result.
JobFails(j) ==
    /\ ~crashed
    /\ job[j] = "running"
    /\ SetJob(j, "ended")
    /\ UNCHANGED <<accountVars, inUse, notifier, jobs, completers, crashed,
                   historyVars>>

\* The callback of synchronizeAccount, under _lock: it completes whatever
\* notifier the synchronizer has now.
CompleteNotifier(j) ==
    /\ ~crashed
    /\ job[j] = "ended"
    /\ ~SynchronizerLocked
    /\ \/ /\ notifier = 0
          /\ crashed' = TRUE
          /\ SetJob(j, "thrown")
          /\ UNCHANGED completers
       \/ /\ notifier # 0
          /\ completers' = [completers EXCEPT ![notifier] = @ \cup {j}]
          /\ SetJob(j, "completing")
          /\ UNCHANGED crashed
    /\ UNCHANGED <<accountVars, inUse, notifier, jobs, historyVars>>

\* Mutant: the callback frees the synchronizer but keeps the notifier.
KeepNotifier(j) ==
    /\ ~crashed
    /\ job[j] = "completing"
    /\ inUse' = FALSE
    /\ SetJob(j, "done")
    /\ UNCHANGED <<accountVars, notifier, jobs, completers, crashed, historyVars>>

\* The same callback, at its end.
ReleaseSynchronizer(j) ==
    /\ ~crashed
    /\ job[j] = "completing"
    /\ notifier' = 0
    /\ inUse' = FALSE
    /\ SetJob(j, "done")
    /\ UNCHANGED <<accountVars, jobs, completers, crashed, historyVars>>

\* The account's callback on the notifier's future posts the outcome ...
PostOutcome(b) ==
    /\ ~crashed
    /\ heard[b] = "waiting"
    /\ listens[b] # 0
    /\ completers[listens[b]] # {}
    /\ heard' = [heard EXCEPT ![b] = "posted"]
    /\ UNCHANGED <<bus, buses, listens, returned, synchronizerVars, historyVars>>

\* Mutant: the bus is not reset when the outcome is known.
KeepBus(b) ==
    /\ ~crashed
    /\ heard[b] = "posted"
    /\ heard' = [heard EXCEPT ![b] = "done"]
    /\ UNCHANGED <<bus, buses, listens, returned, synchronizerVars, historyVars>>

\* ... and then takes _synchronizationLock to forget the bus, whichever it is.
ClearBus(b) ==
    /\ ~crashed
    /\ heard[b] = "posted"
    /\ heard' = [heard EXCEPT ![b] = "done"]
    /\ bus' = 0
    /\ UNCHANGED <<buses, listens, returned, synchronizerVars, historyVars>>

\* eraseDataSince forgets the bus; what it erases is in BatchSync.
EraseDataSince ==
    /\ ~crashed
    /\ erases < MaxErases
    /\ erases' = erases + 1
    /\ disturbed' = (disturbed \/ bus # 0)
    /\ bus' = 0
    /\ UNCHANGED <<buses, listens, heard, returned, synchronizerVars, throws>>

Progress(j) ==
    \/ JobSucceeds(j) \/ JobFails(j)
    \/ CompleteNotifier(j) \/ ReleaseSynchronizer(j)

Report(b) == PostOutcome(b) \/ ClearBus(b)

Next ==
    \/ SynchronizeAgain \/ Synchronize \/ SynchronizeThrows
    \/ EraseDataSince
    \/ \E j \in Ids : Progress(j)
    \/ \E b \in Ids : Report(b)

Spec == Init /\ [][Next]_vars

\* Continuations and callbacks posted to the thread pools are run.
FairSpec ==
    /\ Spec
    /\ \A j \in Ids : WF_vars(Progress(j))
    /\ \A b \in Ids : WF_vars(Report(b))

-----------------------------------------------------------------------------
JobStages == {"none", "running", "ended", "completing", "done", "thrown"}

\* Every variable has its type.
TypeOK ==
    /\ bus \in Refs /\ buses \in Refs
    /\ listens \in [Ids -> Refs]
    /\ heard \in [Ids -> {"waiting", "posted", "done"}]
    /\ returned \subseteq Ids
    /\ inUse \in BOOLEAN
    /\ notifier \in Refs /\ jobs \in Refs
    /\ job \in [Ids -> JobStages]
    /\ completers \in [Ids -> SUBSET Ids]
    /\ crashed \in BOOLEAN /\ disturbed \in BOOLEAN
    /\ erases \in 0..MaxErases /\ throws \in 0..MaxThrows

\* No notifier is completed twice, also when data is erased in the middle of a
\* synchronization: the second completion would throw ALREADY_COMPLETED out of
\* the callback and leave the synchronizer in use.
CompletedOnce ==
    \A n \in Ids : \A i, j \in completers[n] : i = j

\* The callback of a job finds a notifier to complete: between the unlocked
\* clearing of _currentAccount and that callback no other one resets it.
NotifierThere == ~disturbed => ~crashed

\* A notifier is completed by the job it was made for and by no other, so no
\* caller is told the result of a synchronization that is not its own.
OwnNotifier == ~disturbed => \A n \in Ids : completers[n] \subseteq {n}

\* While a job runs synchronize() gives out that job's bus.
OneBusPerJob ==
    ~disturbed =>
        \A j \in Ids : job[j] = "running" => bus # 0 /\ listens[bus] = j

\* A bus is forgotten only after its own outcome was posted: the late callback
\* of one synchronization does not end the next.
BusKeptUntilOutcome ==
    [][bus # 0 /\ bus' # bus => disturbed' \/ heard[bus] = "posted"]_vars

\* Every caller of synchronize() is told an outcome on the bus it got.
OutcomePosted ==
    \A b \in Ids : b \in returned ~> heard[b] # "waiting" \/ disturbed

\* The account always becomes free for another synchronization.
CanSynchronizeAgain == \A b \in Ids : bus = b ~> bus # b \/ disturbed

\* Two synchronizations of one account never run together: they would
\* interleave on the same saved state and the same rows.  Data erased under a
\* synchronization frees the account for a second one: the last continuation
\* of a job clears _currentAccount before the notifier is completed.
OneJobAtATime ==
    ~disturbed =>
        \A i, j \in Ids : job[i] = "running" /\ job[j] = "running" => i = j
=============================================================================
