-------------------------- MODULE AccountSyncProofs --------------------------
(***************************************************************************)
(* Proofs about AccountSync, for any number of synchronizations, erasures  *)
(* and exceptions.  Three invariants build on each other: the types, that  *)
(* a notifier is completed at most once, and, as long as nothing disturbed *)
(* a synchronization, the order in which one follows the other.            *)
(***************************************************************************)
EXTENDS AccountSync, TLAPS

-----------------------------------------------------------------------------
(* Types.                                                                  *)

\* Every job has a bus of its own, so jobs stay within the bound of buses.
TypeInv == TypeOK /\ jobs <= buses

LEMMA TypeInvInit == Init => TypeInv
<1> SUFFICES ASSUME Init
             PROVE  TypeInv
    OBVIOUS
<1>1. 0 \in Refs /\ 0 \in 0..MaxErases /\ 0 \in 0..MaxThrows
    BY BoundsAssumption DEF Refs
<1>2. listens \in [Ids -> Refs] /\ heard \in [Ids -> {"waiting", "posted", "done"}]
    BY <1>1 DEF Init
<1>3. job \in [Ids -> JobStages] /\ completers \in [Ids -> SUBSET Ids]
    BY DEF Init, JobStages
<1>4. returned \subseteq Ids /\ jobs <= buses
    BY DEF Init
<1> QED BY <1>1, <1>2, <1>3, <1>4 DEF Init, TypeInv, TypeOK

LEMMA TypeInvNext == TypeInv /\ [Next]_vars => TypeInv'
<1> SUFFICES ASSUME TypeInv, [Next]_vars
             PROVE  TypeInv'
    OBVIOUS
<1> USE BoundsAssumption DEF TypeInv, TypeOK, Ids, Refs, JobStages
<1>1. CASE SynchronizeAgain
    BY <1>1 DEF SynchronizeAgain, synchronizerVars, historyVars
<1>2. CASE Synchronize
    <2>1. buses + 1 \in Ids /\ jobs + 1 \in Ids
        BY <1>2 DEF Synchronize
    <2>2. /\ bus' = buses + 1 /\ buses' = buses + 1
          /\ returned' = returned \cup {bus'}
          /\ UNCHANGED <<heard, completers, crashed, disturbed, erases, throws>>
        BY <1>2 DEF Synchronize, historyVars
    <2>3. CASE ~inUse
        <3>1. /\ inUse' = TRUE /\ jobs' = jobs + 1 /\ notifier' = jobs + 1
              /\ job' = [job EXCEPT ![jobs + 1] = "running"]
              /\ listens' = [listens EXCEPT ![buses + 1] = jobs + 1]
            BY <1>2, <2>3 DEF Synchronize, SynchronizeAccount, SetJob
        <3> QED BY <2>1, <2>2, <3>1
    <2>4. CASE inUse
        <3>1. /\ listens' = [listens EXCEPT ![buses + 1] = notifier]
              /\ UNCHANGED <<inUse, jobs, notifier, job>>
            BY <1>2, <2>4 DEF Synchronize, SynchronizeAccount
        <3> QED BY <2>1, <2>2, <3>1
    <2> QED BY <2>3, <2>4
<1>3. CASE SynchronizeThrows
    <2>1. buses + 1 \in Ids /\ jobs + 1 \in Ids
        BY <1>3 DEF SynchronizeThrows
    <2> QED BY <1>3, <2>1 DEF SynchronizeThrows, SetJob
<1>4. CASE EraseDataSince
    BY <1>4 DEF EraseDataSince, synchronizerVars
<1>5. ASSUME NEW j \in Ids, Progress(j)
      PROVE  TypeInv'
    <2>1. CASE JobSucceeds(j)
        BY <2>1 DEF JobSucceeds, SetJob, accountVars, historyVars
    <2>2. CASE JobFails(j)
        BY <2>2 DEF JobFails, SetJob, accountVars, historyVars
    <2>3. CASE CompleteNotifier(j)
        <3>1. UNCHANGED <<accountVars, inUse, notifier, jobs, historyVars>>
            BY <2>3 DEF CompleteNotifier
        <3>2. job' \in [Ids -> JobStages] /\ crashed' \in BOOLEAN
            BY <2>3 DEF CompleteNotifier, SetJob
        <3>3. completers' \in [Ids -> SUBSET Ids]
            BY <2>3 DEF CompleteNotifier
        <3> QED BY <3>1, <3>2, <3>3 DEF accountVars, historyVars
    <2>4. CASE ReleaseSynchronizer(j)
        <3>1. UNCHANGED <<accountVars, jobs, completers, crashed, historyVars>>
            BY <2>4 DEF ReleaseSynchronizer
        <3>2. job' \in [Ids -> JobStages]
            BY <2>4 DEF ReleaseSynchronizer, SetJob
        <3>3. notifier' \in Refs
            BY <2>4 DEF ReleaseSynchronizer
        <3>4. inUse' \in BOOLEAN
            BY <2>4 DEF ReleaseSynchronizer
        <3> QED BY <3>1, <3>2, <3>3, <3>4 DEF accountVars, historyVars
    <2> QED BY <1>5, <2>1, <2>2, <2>3, <2>4 DEF Progress
<1>6. ASSUME NEW b \in Ids, Report(b)
      PROVE  TypeInv'
    <2>1. CASE PostOutcome(b)
        BY <2>1 DEF PostOutcome, synchronizerVars, historyVars
    <2>2. CASE ClearBus(b)
        BY <2>2 DEF ClearBus, synchronizerVars, historyVars
    <2> QED BY <1>6, <2>1, <2>2 DEF Report
<1>7. CASE UNCHANGED vars
    BY <1>7 DEF vars, accountVars, synchronizerVars, historyVars
<1> QED BY <1>1, <1>2, <1>3, <1>4, <1>5, <1>6, <1>7 DEF Next

LEMMA TypeInvHolds == Spec => []TypeInv
BY TypeInvInit, TypeInvNext, PTL DEF Spec

\* Types are kept by every operation: in particular the bus a caller gets is
\* never null, and the callbacks only ever name notifiers that were made.
THEOREM TypeCorrect == Spec => []TypeOK
<1>1. TypeInv => TypeOK
    BY DEF TypeInv
<1> QED BY <1>1, TypeInvHolds, PTL

-----------------------------------------------------------------------------
(* No notifier is completed twice.                                         *)

\* A notifier that was not made yet is not completed, and neither is the
\* current one while no callback holds the lock: the callback that completes it
\* forgets it before it lets the lock go.
Single ==
    /\ notifier <= jobs
    /\ \A n \in Ids : n > jobs => completers[n] = {}
    /\ ~SynchronizerLocked /\ notifier # 0 => completers[notifier] = {}
    /\ CompletedOnce

LEMMA SingleInit == Init => Single
BY BoundsAssumption DEF Init, Single, CompletedOnce, Ids

LEMMA SingleNext == TypeInv /\ Single /\ [Next]_vars => Single'
<1> SUFFICES ASSUME TypeInv, Single, [Next]_vars
             PROVE  Single'
    OBVIOUS
<1> USE BoundsAssumption DEF TypeInv, TypeOK, Ids, Refs
<1>1. ASSUME UNCHANGED <<notifier, jobs, completers, job>>
      PROVE  Single'
    BY <1>1 DEF Single, CompletedOnce, SynchronizerLocked
<1>2. CASE SynchronizeAgain
    BY <1>1, <1>2 DEF SynchronizeAgain, synchronizerVars
<1>3. ASSUME jobs' = jobs + 1, notifier' = jobs + 1, UNCHANGED completers,
             jobs + 1 \in Ids
      PROVE  Single'
    BY <1>3 DEF Single, CompletedOnce
<1>4. CASE Synchronize
    <2>1. CASE ~inUse
        <3>1. jobs + 1 \in Ids
            BY <1>4 DEF Synchronize
        <3> QED BY <1>3, <1>4, <2>1, <3>1 DEF Synchronize, SynchronizeAccount
    <2>2. CASE inUse
        BY <1>1, <1>4, <2>2 DEF Synchronize, SynchronizeAccount
    <2> QED BY <2>1, <2>2
<1>5. CASE SynchronizeThrows
    <2>1. jobs + 1 \in Ids
        BY <1>5 DEF SynchronizeThrows
    <2> QED BY <1>3, <1>5, <2>1 DEF SynchronizeThrows
<1>6. CASE EraseDataSince
    BY <1>1, <1>6 DEF EraseDataSince, synchronizerVars
<1>7. ASSUME NEW j \in Ids, Progress(j)
      PROVE  Single'
    <2>1. ASSUME job[j] = "running", SetJob(j, "ended"),
                 UNCHANGED <<notifier, jobs, completers>>
          PROVE  Single'
        <3>1. SynchronizerLocked' <=> SynchronizerLocked
            BY <2>1 DEF SynchronizerLocked, SetJob
        <3> QED BY <2>1, <3>1 DEF Single, CompletedOnce
    <2>2. CASE JobSucceeds(j)
        BY <2>1, <2>2 DEF JobSucceeds
    <2>3. CASE JobFails(j)
        BY <2>1, <2>3 DEF JobFails
    <2>4. CASE CompleteNotifier(j)
        <3>1. CASE notifier = 0
            BY <2>4, <3>1 DEF CompleteNotifier, Single, CompletedOnce
        <3>2. CASE notifier # 0
            <4>1. completers[notifier] = {}
                BY <2>4, <3>2 DEF CompleteNotifier, Single
            <4>2. /\ completers' = [completers EXCEPT ![notifier] = {j}]
                  /\ job' = [job EXCEPT ![j] = "completing"]
                  /\ UNCHANGED <<notifier, jobs>>
                BY <2>4, <3>2, <4>1 DEF CompleteNotifier, SetJob
            <4>3. SynchronizerLocked'
                BY <4>2 DEF SynchronizerLocked
            <4>4. CompletedOnce'
                BY <4>2 DEF Single, CompletedOnce
            <4> QED BY <3>2, <4>2, <4>3, <4>4 DEF Single
        <3> QED BY <3>1, <3>2
    <2>5. CASE ReleaseSynchronizer(j)
        BY <2>5 DEF ReleaseSynchronizer, Single, CompletedOnce
    <2> QED BY <1>7, <2>2, <2>3, <2>4, <2>5 DEF Progress
<1>8. ASSUME NEW b \in Ids, Report(b)
      PROVE  Single'
    BY <1>1, <1>8 DEF Report, PostOutcome, ClearBus, synchronizerVars
<1>9. CASE UNCHANGED vars
    BY <1>1, <1>9 DEF vars, synchronizerVars
<1> QED BY <1>2, <1>4, <1>5, <1>6, <1>7, <1>8, <1>9 DEF Next

\* A notifier is completed at most once, whatever is erased or thrown meanwhile.
THEOREM CompletedOnceHolds == Spec => []CompletedOnce
<1>1. Single => CompletedOnce
    BY DEF Single
<1> QED BY <1>1, TypeInvHolds, SingleInit, SingleNext, PTL DEF Spec

-----------------------------------------------------------------------------
(* One synchronization follows the other.                                  *)

\* A synchronization that is over, and heard of.
Past(n) == job[n] = "done" /\ heard[n] = "done" /\ completers[n] = {n}

\* A synchronization whose outcome nobody knows yet.
Waiting(n) ==
    /\ job[n] \in {"running", "ended"}
    /\ job[n] = "running" => inUse
    /\ notifier = n /\ completers[n] = {}
    /\ bus = n /\ heard[n] = "waiting"

\* Its notifier is completed; the bus is there until the account heard of it.
Told(n) ==
    /\ completers[n] = {n}
    /\ \/ bus = n /\ heard[n] \in {"waiting", "posted"}
       \/ bus = 0 /\ heard[n] = "done"

Completing(n) == job[n] = "completing" /\ notifier = n /\ Told(n)
Done(n) == job[n] = "done" /\ notifier = 0 /\ ~inUse /\ Told(n)

\* What was not made yet is as it was in the beginning.
Untouched(n) ==
    listens[n] = 0 /\ heard[n] = "waiting" /\ job[n] = "none" /\ completers[n] = {}

\* All synchronizations but the last are over, and each has a bus, a job and a
\* notifier of its own.
Orderly ==
    ~disturbed =>
        /\ ~crashed
        /\ buses = jobs
        /\ \A n \in Ids : n <= jobs => listens[n] = n
        /\ \A n \in Ids : n > jobs => Untouched(n)
        /\ \A n \in Ids : n < jobs => Past(n)
        /\ jobs # 0 => Waiting(jobs) \/ Completing(jobs) \/ Done(jobs)
        /\ jobs = 0 => bus = 0 /\ ~inUse /\ notifier = 0

LEMMA OrderlyInit == Init => Orderly
BY BoundsAssumption DEF Init, Orderly, Untouched, Ids

\* A job that runs, has ended or completes a notifier is the last one.
LEMMA OnlyLast ==
    ASSUME TypeInv, Orderly, ~disturbed, NEW j \in Ids,
           job[j] \in {"running", "ended", "completing"}
    PROVE  j = jobs /\ jobs \in Ids
<1>1. ~(j > jobs) /\ ~(j < jobs)
    BY DEF Orderly, Untouched, Past
<1> QED BY <1>1 DEF TypeInv, TypeOK, Ids, Refs

\* A bus whose outcome is still to be heard of is the last one.
LEMMA LastBus ==
    ASSUME TypeInv, Orderly, ~disturbed, NEW b \in Ids, listens[b] # 0,
           heard[b] # "done"
    PROVE  b = jobs /\ jobs \in Ids
<1>1. ~(b > jobs) /\ ~(b < jobs)
    BY DEF Orderly, Untouched, Past
<1> QED BY <1>1 DEF TypeInv, TypeOK, Ids, Refs

\* Without a bus, and while no callback holds the lock, the last job is over.
LEMMA FreeWithoutBus ==
    ASSUME TypeInv, Orderly, ~disturbed, bus = 0, ~SynchronizerLocked
    PROVE  ~inUse /\ (jobs # 0 => Past(jobs))
<1>1. CASE jobs = 0
    BY <1>1 DEF Orderly
<1>2. CASE jobs # 0
    <2>1. jobs \in Ids
        BY <1>2 DEF TypeInv, TypeOK, Ids, Refs
    <2>2. ~Waiting(jobs)
        BY <1>2 DEF Waiting
    <2>3. ~Completing(jobs)
        BY <2>1 DEF Completing, SynchronizerLocked
    <2>4. Done(jobs)
        BY <1>2, <2>2, <2>3 DEF Orderly
    <2> QED BY <1>2, <2>4 DEF Done, Told, Past
<1> QED BY <1>1, <1>2

LEMMA OrderlyNext == TypeInv /\ Orderly /\ [Next]_vars => Orderly'
<1> SUFFICES ASSUME TypeInv, Orderly, [Next]_vars, ~disturbed'
             PROVE  Orderly'
    BY DEF Orderly
<1>1. ~disturbed
    BY DEF Next, SynchronizeAgain, Synchronize, SynchronizeThrows,
           EraseDataSince, Progress, JobSucceeds, JobFails, CompleteNotifier,
           ReleaseSynchronizer, Report, PostOutcome, ClearBus, vars,
           synchronizerVars, historyVars
<1>2. ASSUME UNCHANGED <<bus, buses, listens, heard, synchronizerVars>>
      PROVE  Orderly'
    BY <1>1, <1>2 DEF Orderly, Untouched, Past, Waiting, Completing, Done, Told,
                      synchronizerVars
<1>3. CASE SynchronizeAgain
    BY <1>2, <1>3 DEF SynchronizeAgain
<1>4. CASE Synchronize
    <2>1. ~inUse /\ (jobs # 0 => Past(jobs))
        BY <1>1, <1>4, FreeWithoutBus DEF Synchronize
    <2>2. buses = jobs /\ ~crashed
        BY <1>1 DEF Orderly
    <2>3. PICK n \in Ids : n = jobs + 1
        <3>1. jobs \in Refs /\ jobs < MaxSyncs
            BY <1>4, <2>2 DEF Synchronize, TypeInv, TypeOK
        <3>2. jobs + 1 \in Ids
            BY <3>1, BoundsAssumption DEF Ids, Refs
        <3> QED BY <3>2
    <2>4. /\ bus' = n /\ buses' = n /\ jobs' = n /\ inUse' /\ notifier' = n
          /\ job' = [job EXCEPT ![n] = "running"]
          /\ listens' = [listens EXCEPT ![n] = n]
          /\ UNCHANGED <<heard, completers, crashed>>
        BY <1>4, <2>1, <2>2, <2>3 DEF Synchronize, SynchronizeAccount, SetJob
    <2>5. Untouched(n)
        BY <1>1, <2>3 DEF Orderly, TypeInv, TypeOK, Refs
    <2>6. Waiting(n)'
        BY <2>4, <2>5 DEF Untouched, Waiting, TypeInv, TypeOK
    <2>7. \A m \in Ids : m <= n => listens'[m] = m
        BY <1>1, <2>3, <2>4 DEF Orderly, TypeInv, TypeOK, Ids, Refs
    <2>8. \A m \in Ids : m > n => Untouched(m)'
        BY <1>1, <2>3, <2>4 DEF Orderly, Untouched, TypeInv, TypeOK, Ids, Refs
    <2>9. \A m \in Ids : m < n => Past(m)
        BY <1>1, <2>1, <2>3 DEF Orderly, TypeInv, TypeOK, Ids, Refs
    <2>10. \A m \in Ids : m < n => Past(m)'
        BY <2>4, <2>9 DEF Past, TypeInv, TypeOK, Ids
    <2>11. n # 0
        BY DEF Ids
    <2> QED BY <2>2, <2>4, <2>6, <2>7, <2>8, <2>10, <2>11 DEF Orderly
<1>5. CASE SynchronizeThrows
    BY <1>5 DEF SynchronizeThrows
<1>6. CASE EraseDataSince
    <2>1. bus = 0
        BY <1>6 DEF EraseDataSince
    <2> QED BY <1>2, <1>6, <2>1 DEF EraseDataSince
<1>7. ASSUME NEW j \in Ids, Progress(j)
      PROVE  Orderly'
    <2>1. ASSUME job[j] = "running", SetJob(j, "ended"),
                 UNCHANGED <<accountVars, notifier, jobs, completers, crashed>>
          PROVE  Orderly'
        <3>1. j = jobs /\ jobs \in Ids
            BY <1>1, <2>1, OnlyLast
        <3>2. Waiting(jobs)
            BY <1>1, <2>1, <3>1 DEF Orderly, Completing, Done, Ids
        <3>3. Waiting(jobs)'
            BY <2>1, <3>1, <3>2 DEF Waiting, SetJob, accountVars, TypeInv, TypeOK
        <3>4. \A n \in Ids : n # jobs => job'[n] = job[n]
            BY <2>1, <3>1 DEF SetJob, TypeInv, TypeOK
        <3> QED BY <1>1, <2>1, <3>1, <3>3, <3>4
                DEF Orderly, Untouched, Past, accountVars, Ids
    <2>2. CASE JobSucceeds(j)
        BY <2>1, <2>2 DEF JobSucceeds
    <2>3. CASE JobFails(j)
        BY <2>1, <2>3 DEF JobFails
    <2>4. CASE CompleteNotifier(j)
        <3>1. j = jobs /\ jobs \in Ids
            BY <1>1, <2>4, OnlyLast DEF CompleteNotifier
        <3>2. Waiting(jobs)
            BY <1>1, <2>4, <3>1 DEF CompleteNotifier, Orderly, Completing, Done, Ids
        <3>3. /\ completers' = [completers EXCEPT ![jobs] = {jobs}]
              /\ job' = [job EXCEPT ![jobs] = "completing"]
              /\ UNCHANGED <<bus, buses, listens, heard, inUse, notifier, jobs,
                             crashed>>
            BY <2>4, <3>1, <3>2
            DEF CompleteNotifier, Waiting, SetJob, accountVars, Ids
        <3>4. Completing(jobs)'
            BY <3>1, <3>2, <3>3 DEF Waiting, Completing, Told, TypeInv, TypeOK
        <3>5. \A n \in Ids : n # jobs =>
                job'[n] = job[n] /\ completers'[n] = completers[n]
            BY <3>1, <3>3 DEF TypeInv, TypeOK
        <3> QED BY <1>1, <3>1, <3>3, <3>4, <3>5 DEF Orderly, Untouched, Past, Ids
    <2>5. CASE ReleaseSynchronizer(j)
        <3>1. j = jobs /\ jobs \in Ids
            BY <1>1, <2>5, OnlyLast DEF ReleaseSynchronizer
        <3>2. Completing(jobs)
            BY <1>1, <2>5, <3>1 DEF ReleaseSynchronizer, Orderly, Waiting, Done, Ids
        <3>3. /\ notifier' = 0 /\ ~inUse'
              /\ job' = [job EXCEPT ![jobs] = "done"]
              /\ UNCHANGED <<bus, buses, listens, heard, jobs, completers, crashed>>
            BY <2>5, <3>1 DEF ReleaseSynchronizer, SetJob, accountVars
        <3>4. Done(jobs)'
            BY <3>1, <3>2, <3>3 DEF Completing, Done, Told, TypeInv, TypeOK
        <3>5. \A n \in Ids : n # jobs => job'[n] = job[n]
            BY <3>1, <3>3 DEF TypeInv, TypeOK
        <3> QED BY <1>1, <3>1, <3>3, <3>4, <3>5 DEF Orderly, Untouched, Past, Ids
    <2> QED BY <1>7, <2>2, <2>3, <2>4, <2>5 DEF Progress
<1>8. ASSUME NEW b \in Ids, Report(b)
      PROVE  Orderly'
    <2>1. CASE PostOutcome(b)
        <3>1. b = jobs /\ jobs \in Ids
            BY <1>1, <2>1, LastBus DEF PostOutcome
        <3>2. listens[jobs] = jobs
            BY <1>1, <3>1 DEF Orderly, Ids
        <3>3. ~Waiting(jobs) /\ (Completing(jobs) \/ Done(jobs))
            BY <1>1, <2>1, <3>1, <3>2 DEF PostOutcome, Orderly, Waiting, Ids
        <3>4. /\ heard' = [heard EXCEPT ![jobs] = "posted"]
              /\ UNCHANGED <<bus, buses, listens, synchronizerVars>>
            BY <2>1, <3>1 DEF PostOutcome
        <3>5. heard[jobs] = "waiting"
            BY <2>1, <3>1 DEF PostOutcome
        <3>6. Told(jobs) => Told(jobs)'
            BY <3>1, <3>4, <3>5 DEF Told, synchronizerVars, TypeInv, TypeOK
        <3>7. Completing(jobs)' \/ Done(jobs)'
            BY <3>3, <3>4, <3>6 DEF Completing, Done, synchronizerVars
        <3>8. \A n \in Ids : n # jobs => heard'[n] = heard[n]
            BY <3>1, <3>4 DEF TypeInv, TypeOK
        <3> QED BY <1>1, <3>1, <3>4, <3>7, <3>8
                DEF Orderly, Untouched, Past, synchronizerVars, Ids
    <2>2. CASE ClearBus(b)
        <3>1. ~(b > jobs)
            BY <1>1, <2>2 DEF ClearBus, Orderly, Untouched
        <3>2. listens[b] # 0
            BY <1>1, <3>1 DEF Orderly, TypeInv, TypeOK, Ids, Refs
        <3>3. b = jobs /\ jobs \in Ids
            BY <1>1, <2>2, <3>2, LastBus DEF ClearBus
        <3>4. /\ heard' = [heard EXCEPT ![jobs] = "done"] /\ bus' = 0
              /\ UNCHANGED <<buses, listens, synchronizerVars>>
            BY <2>2, <3>3 DEF ClearBus
        <3>5. heard[jobs] = "posted"
            BY <2>2, <3>3 DEF ClearBus
        <3>6. Completing(jobs) \/ Done(jobs)
            BY <1>1, <3>3, <3>5 DEF Orderly, Waiting, Ids
        <3>7. Told(jobs) => Told(jobs)'
            BY <3>3, <3>4 DEF Told, synchronizerVars, TypeInv, TypeOK
        <3>8. Completing(jobs)' \/ Done(jobs)'
            BY <3>4, <3>6, <3>7 DEF Completing, Done, synchronizerVars
        <3>9. \A n \in Ids : n # jobs => heard'[n] = heard[n]
            BY <3>3, <3>4 DEF TypeInv, TypeOK
        <3> QED BY <1>1, <3>3, <3>4, <3>8, <3>9
                DEF Orderly, Untouched, Past, synchronizerVars, Ids
    <2> QED BY <1>8, <2>1, <2>2 DEF Report
<1>9. CASE UNCHANGED vars
    BY <1>2, <1>9 DEF vars, accountVars
<1> QED BY <1>3, <1>4, <1>5, <1>6, <1>7, <1>8, <1>9 DEF Next

LEMMA OrderlyHolds == Spec => []Orderly
BY TypeInvHolds, OrderlyInit, OrderlyNext, PTL DEF Spec

\* The callback of a job never finds the notifier gone, unless data was erased
\* under a running synchronization or performSynchronization threw.
THEOREM NotifierIsThere == Spec => []NotifierThere
<1>1. Orderly => NotifierThere
    BY DEF Orderly, NotifierThere
<1> QED BY <1>1, OrderlyHolds, PTL

\* A caller is told the outcome of the job its notifier was made for.
THEOREM OwnNotifierHolds == Spec => []OwnNotifier
<1>1. ASSUME TypeInv, Orderly, ~disturbed, NEW n \in Ids
      PROVE  completers[n] \subseteq {n}
    <2>1. CASE n > jobs
        BY <1>1, <2>1 DEF Orderly, Untouched
    <2>2. CASE n < jobs
        BY <1>1, <2>2 DEF Orderly, Past
    <2>3. CASE n = jobs
        BY <1>1, <2>3 DEF Orderly, Waiting, Completing, Done, Told, Ids
    <2> QED BY <1>1, <2>1, <2>2, <2>3 DEF TypeInv, TypeOK, Ids, Refs
<1>2. TypeInv /\ Orderly => OwnNotifier
    BY <1>1 DEF OwnNotifier
<1> QED BY <1>2, TypeInvHolds, OrderlyHolds, PTL

\* synchronize() during a job gives out the bus of that job.
THEOREM OneBusPerJobHolds == Spec => []OneBusPerJob
<1>1. ASSUME TypeInv, Orderly, ~disturbed, NEW j \in Ids, job[j] = "running"
      PROVE  bus # 0 /\ listens[bus] = j
    <2>1. j = jobs /\ jobs \in Ids
        BY <1>1, OnlyLast
    <2>2. Waiting(jobs)
        BY <1>1, <2>1 DEF Orderly, Completing, Done, Ids
    <2> QED BY <1>1, <2>1, <2>2 DEF Orderly, Waiting, Ids
<1>2. TypeInv /\ Orderly => OneBusPerJob
    BY <1>1 DEF OneBusPerJob
<1> QED BY <1>2, TypeInvHolds, OrderlyHolds, PTL

\* Two synchronizations of the account never run together.
THEOREM OneJobAtATimeHolds == Spec => []OneJobAtATime
<1>1. ASSUME TypeInv, Orderly, ~disturbed, NEW i \in Ids, NEW j \in Ids,
             job[i] = "running", job[j] = "running"
      PROVE  i = j
    <2>1. i = jobs
        BY <1>1, OnlyLast
    <2>2. j = jobs
        BY <1>1, OnlyLast
    <2> QED BY <2>1, <2>2
<1>2. TypeInv /\ Orderly => OneJobAtATime
    BY <1>1 DEF OneJobAtATime
<1> QED BY <1>2, TypeInvHolds, OrderlyHolds, PTL

\* The late callback of one synchronization never forgets the bus of the next.
THEOREM BusIsKept == Spec => BusKeptUntilOutcome
<1>1. ASSUME TypeInv, Orderly, [Next]_vars, bus # 0, bus' # bus, ~disturbed'
      PROVE  heard[bus] = "posted"
    <2>1. ~disturbed
        BY <1>1 DEF Next, SynchronizeAgain, Synchronize, SynchronizeThrows,
               EraseDataSince, Progress, JobSucceeds, JobFails, CompleteNotifier,
               ReleaseSynchronizer, Report, PostOutcome, ClearBus, vars,
               synchronizerVars, historyVars
    <2>2. PICK b \in Ids : ClearBus(b)
        BY <1>1 DEF Next, SynchronizeAgain, Synchronize, SynchronizeThrows,
               EraseDataSince, Progress, JobSucceeds, JobFails, CompleteNotifier,
               ReleaseSynchronizer, Report, PostOutcome, vars, accountVars
    <2>3. ~(b > jobs)
        BY <1>1, <2>1, <2>2 DEF ClearBus, Orderly, Untouched
    <2>4. listens[b] # 0
        BY <1>1, <2>1, <2>3 DEF Orderly, TypeInv, TypeOK, Ids, Refs
    <2>5. b = jobs /\ jobs \in Ids
        BY <1>1, <2>1, <2>2, <2>4, LastBus DEF ClearBus
    <2>6. bus = jobs
        BY <1>1, <2>1, <2>5 DEF Orderly, Waiting, Completing, Done, Told, Ids
    <2> QED BY <2>2, <2>5, <2>6 DEF ClearBus
<1>2. TypeInv /\ Orderly /\ [Next]_vars =>
        [bus # 0 /\ bus' # bus => disturbed' \/ heard[bus] = "posted"]_vars
    BY <1>1
<1> QED BY <1>2, TypeInvHolds, OrderlyHolds, PTL DEF Spec, BusKeptUntilOutcome
=============================================================================
