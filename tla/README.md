# Verification of lib-ledger-core

TLA+ specifications of the parts of `core/src` that decide what an account
contains after a synchronization, the TLC configurations that check them on
small instances, and theorems that TLAPS proves for every value of the
constants. Paths below are relative to `src/core/src` unless they begin with
`src/`. Modelled are the one-shot state behind every promise, the start and end
of a synchronization, the synchronization job in the two forms it has (that of
the Ethereum-like accounts, and Bitcoin's with its batches of addresses and its
keychain), the events an application is told, and the choice of the outputs a
Bitcoin transaction spends. The accounts of the other coins repeat the bus and
the two locks, and Ripple, Tezos and Cosmos repeat the job.

## 1. The system

| part | state | operations | talks to |
|---|---|---|---|
| **async** `async/Deffered.hpp`, `Promise.hpp`, `Future.hpp` | a result, a queue of callbacks, a recursive lock | `setResult`, `setValue`, `setError`, `addCallback`, `trigger`; `map`, `flatMap`, `recover`, `executeAll` | execution contexts the application supplies |
| **account** `wallet/ethereum/EthereumLikeAccount.cpp`, `wallet/bitcoin/BitcoinLikeAccount.cpp`, `wallet/common/AbstractAccount.cpp` | the event bus of the current synchronization, operations in the database, an event publisher | `synchronize`, `eraseDataSince`, `broadcastRawTransaction`, `bulkInsert`, queries | synchronizer, explorer, database, wallet caches |
| **synchronizer** `wallet/common/synchronizers/AbstractBlockchainExplorerAccountSynchronizer.h` and the coins' own | the account in use, a notifier; per job a copy of the saved state, the transactions to drop | `synchronizeAccount`, `performSynchronization`, `synchronizeBatches`, `synchronizeBatch`, `synchronizeMempool` | explorer (futures), database (two commits per page), preferences (saved state) |
| **explorers, HTTP** `wallet/common/explorers`, `net` | none | `getTransactions`, `getCurrentBlock`, `pushTransaction` | a remote service |
| **database** `wallet/common/database`, `database` | tables `blocks` (shared by all accounts of a pool) and `operations`; sessions; migrations | upserts, deletions with cascades | soci |
| **preferences** `preferences` | key/value store with an encryption key | transactions of puts and removes | a key-value backend |
| **events** `events` | listeners, the sticky event of a publisher, an account's pending events | `subscribe`, `post`, `postSticky`, `emitEventsNow` | execution contexts |
| **wallets** `wallet/pool`, `wallet/common/AbstractWallet.cpp`, `utils/TTLCache.h` | maps of wallets and accounts, caches of balances and blocks | create, get, update, invalidate | all of the above |
| **keychains** `wallet/bitcoin/keychains` | highest used and non-observable indices | `markPathAsUsed`, `getFreshAddress`, observable range | preferences |
| **coin selection** `wallet/bitcoin/transaction_builders` | none | `filterInputs` and its strategies | an account's outputs |
| formats, cryptography, bindings, vendored code | none | | |

### What is hard, and what makes each part correct

*async.* Any thread completes, any thread registers, and `setResult` drops the
lock between the two. Correct means: one result for ever, each callback given
that result once and in order, none left behind.

*account and synchronizer.* Two mutexes in two objects, four asynchronous
callbacks on several pools, one of which (`performSynchronization`'s last
continuation) writes `_currentAccount` without the lock. Correct means: each
`synchronize()` is answered by the job it started or joined, no notifier is
missing or completed twice, at most one job runs, and the account becomes free
again.

*events.* Whatever a bus or a publisher does is a closure given to a context,
the account's and the wallet's contexts have several threads, and two threads of
the process insert operations and emit. Correct means: nothing is told twice or
lost, and the outcome of a synchronization reaches whoever asks, however late.

*a synchronization job.* It reads pages of transactions from an explorer whose
chain moves, and commits each page and the state it resumes from separately. A
later job never looks below the saved block, so anything missing there is
missing for ever. Correct means: nothing below a saved block that is in the
chain is missing, nothing there is from an orphaned block, a job ends, and
repeated jobs catch up with the chain after failures and crashes. Hard are
reorganizations between any two requests, crashes between two commits, other
users of the `blocks` table, sent transactions, and erasures. Bitcoin's job also
asks for all batches ahead and uses the answers later, derives addresses until
it finds none used, and has saved batches of a size that may be reconfigured;
there, what is within the gap limit must be found, and an address in use must
not be given out as fresh.

*coin selection.* No concurrency, but three algorithms that hand over to each
other, with sums kept through backtracking, several estimates of the same sizes
and three notions of dust. Correct means: the fees suffice for the transaction
as it is made and are not wasted, and who has enough is served.

*the rest.* The freshness of caches, migrations that stop half way.

`PROJECT.json` lists every hazard at its line with the property that would
catch it, or the reason why none does.

## 2. Modules

```
OneShot  <-- Deffered    <-- DefferedProofs
             AccountSync <-- AccountSyncProofs
             BatchSync   <-- MCBatchSync, MCBatchSyncLive
                         <-- BatchSyncProofs <-- BatchSyncStateProofs
Keychain <-- BitcoinSync <-- MCBitcoinSync, BitcoinSyncProofs
             Events      <-- EventsProofs <-- EventsOnceProofs
             UtxoPicker  <-- UtxoPickerProofs
```

The modules meet where the components do. A job is one interval in
`AccountSync`, from `PerformSynchronization` to `SynchronizeMempool` in
`BatchSync` and `BitcoinSync`, which show what happens inside it; that one job
of an account runs at a time, which these two build in, is `OneJobAtATime` of
`AccountSync`, proved for behaviours without an erasure under a bus or an
exception. `Events` has the same job as the actions `Synchronize`, `InsertPage`
and `PostOutcome`, with what each makes the contexts do. `BitcoinSync` composes
the synchronizer with `Keychain`, which two threads use without a lock.

### Deffered (async/Deffered.hpp), OneShot

`value`, `callbacks` and `lock` are the members of the class, `pc` where each
thread is, `tasks` what each serial execution context has been given.
`SetResult` and `Trigger` are the two halves of `setResult`; `SetValue` stands
for `setValue` and `setError`, which keep the lock throughout. The loop of
`_trigger` is `Post` or `RunInline` (hand the head of the queue to its context),
`Pop`, and `Release` at its end. A callback for `ImmediateExecutionContext` runs
inside the loop; if it throws, as those of `Throwing` may each time, the lock guard
is unwound and the callback is still the head of the queue. The history variables
`registered` and `log` exist for the properties; `log` also tells which runs ended
with an exception, so `RunOnce` covers the callbacks that throw: only those are run
again.

`OneShot` is the promise: a value set once, callbacks waiting, callbacks called.
`Deffered` implements it with `waiting` mapped to the registered callbacks that
have not run and `called` to those that have.

Not in the model: an inline callback that registers on the same deffered (the
lock is recursive, the inner loop would deliver the outer callback again; no
caller in the repository does it), and reads of `_value` without the lock.

### AccountSync (EthereumLikeAccount::synchronize, synchronizeAccount)

`bus` is `_currentSyncEventBus`, `inUse` and `notifier` are `_currentAccount`
and `_notifier`. Buses, jobs and notifiers are numbered in the order they are
made; `listens[b]` is the notifier whose future feeds bus b, `heard[b]` how far
that callback has come. One action per critical section:

| action | code |
|---|---|
| `SynchronizeAgain`, `Synchronize`, `SynchronizeThrows` | `synchronize()` with a bus; without one; when `performSynchronization` throws |
| `JobSucceeds` | the last continuation: `_currentAccount = nullptr` without the lock, then the callback is posted |
| `JobFails` | `recover` turns the error into a result; that continuation is skipped |
| `CompleteNotifier`, `ReleaseSynchronizer` | the callback of `synchronizeAccount`, under `_lock`; two steps, since completing the notifier runs or posts the account's callback before the lock is released |
| `PostOutcome`, `ClearBus` | the account's callback: posts the outcome, then locks and forgets the bus |
| `EraseDataSince` | `eraseDataSince` forgets the bus whatever runs |

`disturbed` is a history variable: data was erased while a bus was there, or
`performSynchronization` threw. Most properties are about undisturbed
behaviours, since the code does not keep them otherwise (section 5).

### BatchSync (AbstractBlockchainExplorerAccountSynchronizer)

The explorer is external: a chain of blocks `<<height, fork>>`, the block of
each mined transaction, the mempool. `Mine`, `Reorganize`, `Appear` and `Evict`
move it at any moment. A listing (`Listed`, `IsPage`) starts at a block, that
block included, in the order of the chain and with the transactions that wait at its
end. A page that is cut off spans at least two blocks, as `getLedgerApiTransactions`
ensures by asking for a longer page; but one whose last transaction waits is
returned before that is looked at (AbstractLedgerApiBlockchainExplorer.h:114), so it
may hold one block, or none, beside the waiting ones. `CutsWaiting` says whether an
account ever has as many waiting transactions as fill a page.

The tables are `blocks`, shared by all accounts, and `rows`, from a transaction
to its block or `NoBlock`. `saved` is the persistent state of each account (the
last block, and the transactions already seen twice while pending), `state`
the job's copy. `pc` is the continuation that runs next:

    idle --PerformSynchronization--> fetch --AnswerTransactions--> page
    page --InsertPage--> fetch (more pages) or stored --SaveState--> mempool
    fetch --RefuseBlock--> reorganized --RecoverFromReorganization--> fetch
    fetch, page --RequestFails, InsertFails, RefuseBlock--> failed --SwallowError--> mempool
    mempool --SynchronizeMempool--> idle

`AnswerCurrentBlock` and `UpdateCurrentBlock` are the side request that stores
the explorer's current block. `PushTransaction` and `OptimisticUpdate` are a
broadcast and the insertion after its answer; `unmined` collects the transactions
whose operation that insertion took out of its block again. `Crash` may happen in any state;
`CrashInInsert` and `CrashInRecovery` are deaths between the two commits of
those steps.

What is abstracted:

* An account has one address, so the saved state has one batch. This is so for
  Ethereum; Bitcoin's several batches are `BitcoinSync`'s.
* A date is a height: `eraseDataSince` erases from the block mined at that date
  on, and the operations without a block, which are the youngest. The date of an
  operation is that of its block.
* A transaction concerns one account and is one row.
  (A transfer to oneself is two operations with the same fate.)
* A soci transaction is atomic, a commit of preferences is atomic and durable,
  and the foreign keys' cascades are enforced.
* `synchronize()` itself also asks for the current block
  (EthereumLikeAccount.cpp:461-467); that request is the synchronizer's,
  because both end in the same upsert.
* `removeBlockOperation` binds a list of blocks next to one uid; soci refuses
  lists of different lengths (src/core/lib/soci/core/statement.cpp:459), so the
  deletion succeeds for exactly one block (`CanDelete`). For no block at all
  `fetchFromBlocks`, just before it, fails on the empty list.
* `ClientReportsBlock` chooses how a refused block reaches the synchronizer.
  With TRUE the HTTP client itself reports `BLOCK_NOT_FOUND`, which is what the
  recovery waits for; with FALSE the answer has status 404, as the real service
  sends it, and arrives as `API_ERROR`. The runs about the recovery use TRUE,
  or there would be nothing to check.

### BitcoinSync (BlockchainExplorerAccountSynchronizer.cpp), Keychain

The explorer and the tables are as in `BatchSync`, pages that end among waiting
transactions included (`Answers`). `job` is a record of what a
job keeps: the saved state it works on, how many indices it has derived
(`reach`), the batch it probes or is in, the pages asked ahead (`cache`,
`asked`), and the transactions held back until the end.

    idle --PerformSynchronization--> head --AnswerCurrentBlock--> probe
    probe --AnswerProbe--> probe (more addresses) or ask --AnswerBatch--> batch
    batch --ReadPage--> batch (more pages) or stored --EndBatch--> batch, mempool
    batch --RefusePage--> reorganized --RecoverFromReorganization--> batch
    head, probe, ask --JobFails, RefuseBatch--> idle

A failed request or insertion inside `batch` goes on with the mempool, as in
`BatchSync`; one before it ends the job. `Configure` changes the half batch size
between two jobs; `spoiled` records that this followed a job that was cut short
before it came to a batch without transactions, `strayed` that a batch was taken
back to a block that is of a newer fork, or higher, than the one it was at
(section 5). A broadcast is three steps:
`PushTransaction`, `ReadKeychain` and `OptimisticUpdate`, which saves what was
read in the second; `raced` records that it undid something.

`Keychain` has the persistent state of one purpose, `maxConsecutiveIndex` and
`nonConsecutiveIndexes`, and `MarkAsUsed` with the normalisation of `saveState`.
Receive and change addresses share each index in a batch and one stands for
both; a transaction pays one index; an address is its index, the derivation
being cryptography. `resolveMempool`, which drops transactions replaced by
others that spend the same outputs, is left out, and so are erasures.

### Events (events, AbstractAccount, AbstractWallet)

`tasks` holds the closures each execution context was given, in order; a context
of n threads runs any of its first n next, which is all the order a pool keeps.
A closure is one step (`RunSubscribe`, `RunPost`, `RunPush`, `RunEmit`,
`RunRelay`, ...), as the code runs each under the lock of its object or on its
own. `subscribers` and `sticky` are the members of the buses, `batched` and
`events` those of the account. `InsertPage`, `OptimisticUpdate`, `EmitEventsNow`
and `DeleteOperation` are the two threads that make events. An operation has
rows, numbered, so that the insertion of an operation that was deleted before is
another event: `HeardOnce` is about one insertion or deletion, and the uid of an
operation that is inserted again is told again. Events are told apart by what they are about and nothing else;
block events, the pool's filter on them and the ERC20 batch are left out.

### UtxoPicker (BitcoinLikeStrategyUtxoPicker, BitcoinLikeUtxoPicker)

A behaviour is one selection: `Init` chooses the coins of the account and the
request, `pc` is the part that runs.

    filter --StartSorting--> deep, merge --PickNext ...--> outputs, failed
    filter --StartSearch--> search --Backtrack, Forward ...--> EndSearch
    search --EndSearch--> outputs (found) or knapsack
    knapsack --Solve, SolveExactly--> outputs; --FallBack--> deep
    outputs --FillOutputs--> done

`PickNext` is an iteration of `filterWithSort` with `hasEnough`, `Backtrack` and
`Forward` one of the loop of `filterWithOptimizeSize`. The solver's random bits
and shuffles are choices: `Approximations` is the set of what any repetitions may
end with, each of which some sequence of bits gives. Its 1000 repetitions are
not counted, for the best of them is what one of them found. Sizes and dust are
computed as the code does, from a fixed part, a part per input and the outputs;
the three estimates of an output (34 bytes; 32 or 34 by the keychain; its script)
are kept apart, since the properties depend on them. All amounts are far below
2^63, as are the code's.

A request has one recipient (the builder cannot add another, nor inputs of the
user's); the data for signing, lock time and the addresses are left out.

## 3. Runs

Every constant named `Max...` is a bound; it limits how often the environment
acts and never what the code does.

| run | instance | shows |
|---|---|---|
| `deffered` | 2 threads, 3 callbacks, of which 2 may throw, 2 results, one queue | safety, delivery of every callback that is not behind one that threw, implements `OneShot` |
| `accountsync` | 4 buses, 2 erasures, 1 exception | no double completion at all; undisturbed, one job at a time, each caller gets its outcome and the account is free again |
| `batchsync` | 1 account, 2 transactions, height 3, 1 reorganization | nothing skipped, orphaned or wrongly pending; success means synchronized |
| `batchsync_crash` | 3 transactions, height 2, 1 reorganization, 1 crash, 1 erasure between jobs | nothing skipped, with listings in two pages; rows refer to stored blocks |
| `batchsync_live` | 3 transactions, height 2, 1 reorganization, or 1 failure, 1 crash, 1 erasure, 1 broadcast | every job ends, repeated jobs catch up |
| `bitcoinsync` | 2 transactions on indices 0 and 2, half batches of 1 and 2, 1 change of size, 1 trouble, 1 reorganization | nothing skipped, used addresses are not fresh, what is within the gap limit is found |
| `bitcoinsync_pages` | 3 transactions on one index, 1 trouble, 1 reorganization | nothing skipped, with pages asked for and refused inside `synchronizeBatches`, the recovery, and deaths within it |
| `events` | 1 receiver behind the wallet's relay and on a synchronization's bus, 1 operation with 2 rows, pools of 2 threads | nothing told twice or lost, the outcome reaches whoever asks and is not followed by the start |
| `utxopicker` | up to 3 coins of 8 values, 3 amounts, 2 fee rates, 2 sizes of the recipient's output, 9 tries | fees suffice and are not wasted, who has enough is served, a complete search finds the best |
| `batchsync_status404`, `batchsync_twoblocks`, `bitcoinsync_reorg` | one property each | what the code does not keep (section 5) |

The bounds are the least at which the interesting cases occur. Two threads are
enough for the window in `setResult`, three callbacks for two that may throw and
one behind them. Four synchronizations allow a late callback of the first to meet
the third. Height 3 with a reorganization gives a saved block that is orphaned
with blocks below and above it; three transactions in two blocks give a listing
of two pages that a crash or a reorganization can cut. `batchsync_live` is checked
without symmetry, which liveness does not allow; to keep it small, the behaviours of
`MCBatchSyncLive` begin when one of three transactions is mined and one waits, and
either the chain may still be reorganized or the other troubles may still happen. A
page is cut off between two blocks or among transactions that wait, and a recovery
deletes one block (two end in the loop that `batchsync_twoblocks` shows), so a job
goes through both of its loops: with a page of one block that is not asked for
longer, or a recovery that falls back to the block it deletes, `JobEnds` fails.
Indices 0 and 2 leave a
gap that is a whole half batch of one address and not one of two, so the same
transactions are within the gap limit for one size and outside for the other.
Two threads in the account's pool are enough for any two neighbouring events to
be exchanged. The values of the coins are chosen around the thresholds at the
two fee rates: below and above the cost of an input, exact targets, within the
cost of change of a target, and larger than any target with change; nine tries
are fewer than the largest search needs, so it is also cut short. The sizes are
those of P2PKH; segwit sizes and the other dust policies pass as well.
`TellsCurrentBlock` and `MayEvict` are off in `batchsync_crash` and
`batchsync_live` for their size; both are on in `batchsync`, where `CutsWaiting` is
off for `PendingIsPending`; it is on elsewhere. `EraseDuringSync` is off in all runs: data that is
erased under a running job is a failure of its own (section 5).

`CHECK_DEADLOCK FALSE`: the bounded environments come to rest. Symmetry in
transaction hashes and accounts is used in safety runs only.

Each property has a mutant: a named variant of an action or operator, with the
bug a hurried change could introduce, under which TLC finds the property
violated. They stand above the definition they replace.

### Fairness

`Deffered!FairSpec`: a thread inside the code goes on and a serial context runs
what it was given; nobody has to call. `AccountSync!FairSpec`: continuations
and callbacks posted to the pools run; nobody has to synchronize.
`BatchSync!FairSpec` and `BitcoinSync!FairSpec`: a job's continuation runs once it
is posted (an HTTP request is answered or fails), and the application
synchronizes again and again, which `CatchesUp` needs. `Events!FairSpec`: the
contexts run what they are given, an insertion is followed by `emitEventsNow`,
as in the code, and a synchronization that runs ends, which is what `JobEnds`
says of it; nobody has to subscribe. All of it is weak: a continuation that is
posted stays posted. Nothing is assumed of the chain, of pushes, erasures or
failures, which are bounded.

## 4. Proofs

`DefferedProofs`, for any threads, callbacks, results and queues. `LoopInv`: who
is in the loop holds the lock, and between execute and pop the head is still
queued. On top of it, `TypeCorrect`; `AgreementHolds` (strengthened by what is
in the tasks of the queues); `NoneIsStranded`; `RunsOnce`, whose invariant says
that a callback is at most once in the queue, the tasks and the runs that returned
together, except that the head is twice between execute and pop; and
`ImplementsOneShot`, which maps `RunInline` and `RunTask` to `Call` and needs
`RunsOnce` to see that what is called was still waiting, or had thrown before.

`AccountSyncProofs`, for any number of synchronizations, erasures and
exceptions. `TypeInv` adds `jobs <= buses` to the types. `Single` gives
`CompletedOnceHolds` without any condition: while no callback holds `_lock` the
current notifier is not completed, so the callback that completes it finds it
fresh and forgets it before the lock is free. `Orderly` describes undisturbed
behaviours: all synchronizations but the last are over and heard of, and the
last is waiting, completing or done, with bus, job and notifier of the same
number. The three named cases are the whole argument why the unlocked write is
harmless there: it happens while the bus is still set, and nothing asks the
synchronizer before the bus is forgotten, which is after the callback has taken
the lock. From it follow `NotifierIsThere`, `OwnNotifierHolds`,
`OneBusPerJobHolds`, `BusIsKept` and `OneJobAtATimeHolds`.

`BatchSyncProofs`, for any accounts, hashes and bounds: `TypeCorrect`, and
`BlocksArePresent`, that rows refer to stored blocks. Only three steps touch
`blocks` or give a row a block (`BulkInsert`, `DeleteBlocks`, the current block),
and each keeps it.

`NothingIsSkipped` is the theorem the project is about: with one account, whose
data is erased only between its jobs, `NothingSkipped` holds for any
transactions, heights, reorganizations, failures, crashes, erasures and
broadcasts. It is far from inductive: the saved block may be replaced by that of
a page, by the last block with operations when it is gone, or by the last block
of the table in a recovery, and each of these may have been orphaned and have
come back in between. The invariant is `SkipsNothing`, with `TypeOK` and
`BlocksPresent`. Its core is `Covers`: the rows are complete below every block a
synchronization may ever start from (`Starts`: those of the saved state, of the
job and of the rows), and below every block in the table, or on its way there,
that lies under one of these, because that is where a recovery falls back to.
`RowsCover` says so of the rows as they are, `PageCovers` of the rows as they
will be when the page in flight is inserted; a page that is cut off is complete
below its last block, because it is in order. `Seen` and `ExplorerSound` say
that a block that was seen is not of a fork still to come, so a reorganization
only ever takes blocks out of the chain (`CoversChain`), and `JobSound` that a
recovery starts at a block that is in the table and not in the chain, and that
what the mempool step drops is in no block. There is a lemma for each of the
changes `Covers` may see: fewer starts, more known blocks, other rows, another
chain. The assumption of one account is needed (section 5).

`BatchSyncStateProofs` goes on from there. `PendingStaysPending`, for any accounts
of a pool: what a saved state holds as pending is stored without a block, as long
as no page ends among waiting transactions, nothing was erased and the process did
not die (each leaves the entry behind). The invariant `PendingSound` says it of the saved state, of the job's
copy and of what the next save will add. `NothingIsOrphaned`, with one account:
below a saved block of the chain no operation is left from an orphaned one. Its
invariant `LeavesNoOrphan` compares whatever a job may leave off at, or fall back
to, with the blocks the rows hold: if the former is of the chain, the latter are
as far as they lie below it (`Clean`), and `SkipsNothing` supplies what is seen
and stored. A death between two commits breaks it. `SuccessIsTrue` is an action
property: a job that reports success has stored what was mined when it began and
still is in that block. `DueSound` follows each such transaction through the job:
it is stored, or on the page, or still to be listed. It needs that no failure was
swallowed and no broadcast took an operation out of its block (`Quiet`).

`DefferedProofs` has `RunsInOrder` too: the sequence of everything registered is
what ran, then what was handed to a queue, then what is queued, and a head that
is twice there between execute and pop is counted once.

`EventsProofs`, for any receivers, relays, operations, numbers of threads and
rows. Nearly every step takes one closure from a context and gives some to
others; `Moves` states that once, with where each closure comes from, and the
invariants are proved about such a change and then of each step. `TypeCorrect`
has the types and `Wired`, that closures name the buses and publishers that
exist. `OutcomeComesLast` rests on `Ordered`: unless two threads of a pool
exchanged them, the start of a synchronization goes before its outcome through
each stage, the context, the sticky event and the receiver. `RowsAreTold` rests on
`Delivered`: what a receiver is owed is still batched, kept, posted, relayed or on
its way to it, or it has been told (`InGoodHands`). `EventsOnceProofs` proves
`NothingHeardTwice` along `Once`: for each receiver, bus and row, of all places
an event can be (batched, kept, posted, on its way, heard) at most one has it, and
it only moves downstream. Bus events of a synchronization have an invariant of
their own, since a sticky event may be told when it is posted or to whom
subscribes later.

`BitcoinSyncProofs`, for any transactions on any indices, any batch sizes and
bounds. `Typed` are the types, with what the arithmetic of batches needs: a job
has derived whole batches. `UsedStaysUsed` rests on `Known`, that every index of a
stored transaction is used in the keychain, and that what a broadcast has read of
the keychain holds nothing for used that the keychain does not, as long as no
older state was saved (`raced`). Marking never forgets an index: `SaveStateKeeps`
says so of the normalisation, whose first unused index exists because only
finitely many are kept apart, and `MarkAllAdds` of marking a set, which is a fold.
The induction over it is made by hand: `LeastNumber`, that a set of naturals has a
least element, comes from the well-foundedness of the naturals, and gives
`Induction` over sets of numbers. `TxsAssumption`, that there are finitely many
transactions, is needed for this.

`NothingIsSkipped` of Bitcoin is the counterpart of that of `BatchSync`, and
harder: pages are read from a cache that was filled before the chain changed, and
a recovery of one batch takes others back. Its invariant `ReadOn` says, for every
block a batch was left at, that what was `Below` it when it was of the chain and
has stayed where it was is stored (`Sound`, of the saved state and the job's):
"below" compares height and fork, so the statement does not depend on whether the
block still is of the chain, and reorganizations cannot break it (`GrownBelow`:
what is mined anew is never below a block that was made before). `PageSound` says
of a cached page that it is complete between the block it was asked from and each
block on it, as far as transactions have stayed where they were; so reading it,
however late, keeps `Sound`, also when its block is orphaned. `SavedOrOld`, that
what is saved of a batch is what the job has or is older than the job, is needed
when the process dies after the rows of a stale page were inserted: they may take
stored transactions back only above what is saved. `Working` and `Gone` say that a
recovery deletes exactly one block, which has left the chain. `Resized` is what a
change of size needs, `GoesBack` what taking a batch back must satisfy; that the
code does not ensure it (`strayed`) was found by this proof: no invariant could be
found for it, and TLC then confirmed a counterexample with six transactions and
two reorganizations.

`GapIsSearched` needs an invariant that follows a job from its first request to
its last step, `Finds`. Due is what was mined when the job began and is still in
the same block. Derivation ends at a batch that was asked from no block and
answered with nothing: none of what is due is on it (`Derived`), and what no gap
leads to is on a batch before it. Each batch the job has left behind has its due transactions
stored (`Read`): what is below the block it was taken to is, by `ReadOn`, and the
page that ended it had all the rest (`PageSeen`, also of cached pages). The batch
at which the job ends had no transactions, hence nothing due (`Ends`); but an
empty page does not show that by itself, for the batch may have been asked from
a high block on. It does because a batch that has a block is `Active`: some
transaction of it is not below that block and still known to the explorer, be it
in the mempool, so its page is not empty. This fails for the block a strayed
recovery puts a batch at, which is why `DiscoversWithinGap` has the condition
`~strayed` as `NothingSkipped` has; the proof showed that it was missing.

`UtxoPickerProofs`, for any coins, values, sizes, fees, dust policy and number of
tries: the sums that are kept are those of the coins (`TypeCorrect`), nobody with
enough for all coins and a change is refused (`NobodyWithEnoughIsRefused`), and a
transaction pays its fee and not much more (`FeesAreFair`); and a search that came
to its end missed no better selection (`BestSelectionIsFound`). All rest on what
the folds of the model compute, which has to be proved by hand, since no induction
theorem of the library can be used: `LeastNumber` gives `Induction` over sets of
numbers and `SetInduction` over the subsets of a finite set; `SumExists` and
`SumIsUnique` say that there is one sum of a function over the subsets of its
domain, and that a recursion that takes the elements in any order computes it; so
`EffectiveTotalAdds`, `TotalAndFees` and `EffectiveCoinsAreWorthMost` follow from
the definitions of the totals. `SearchIs` is the invariant of the search: value,
waste and what is available are those of the coins before and behind the place it
is at (`OmitDeepestKeeps`, `TakeNextKeeps`), each coin is in the order once, and a
best selection needs no change (`BestOfKeeps`). A repetition of the knapsack
solver is a fold over places with a record that changes; `RecursionHasSolution`
gives the function that it computes, and `Sound` is what a pass keeps: what is
counted is the sum of what is included, and the best is all coins or reaches the
target. Hence `ApproximationsAre` and `ChoiceIs`, whatever bits are drawn. `Fair`
states of coins and a change what `FeeIsFair` says of the transaction made of them;
`hasEnough`, the search and the solver each leave it (`EnoughIsFair`,
`InRangeIsFair`, `ChangeIs`), and `InvIsFair` carries it through `fillOutputs`,
which decides by another estimate of dust: this is where `DustIsMonotone`,
`SizeGrows` and the assumption that a change output is not longer than the estimate
(`SizesAssumption`; estimateOutputSize gives 32 or 34 bytes,
BitcoinLikeTransactionApi.cpp:228) are needed. `CoinsAssumption` says that an
account has finitely many.

That the search is complete needs an invariant about sets it has not looked at. A
set is `Passed` when it has a coin that was left out at the first place where it
differs from the selection; `Sees` says that what is passed is `Covered`: if it
needs no change there is a best selection, and it wastes no more if every coin of
the set is needed. Where the search turns back (`BestOfSees`), the sets that agree
with the selection so far are covered too: they cannot come into range or only
waste more (`HopelessIsCovered`), or they are the selection with coins that are not
needed (`InRangeIsCovered`). A coin that is left out at once since it is worth what
the one before it is passes only sets in which the two can be exchanged
(`ExchangeIs`, in `TakeSees`). So going back (`OmitSees`) keeps `Sees`, and when
nothing is selected any more each set is passed or agrees (`AgreesOrPassed`). The
proof does not use that the order is by descending value, nor `Orders` but for
having each coin once: the order makes the search fast, not correct.

The bound that `FeeAccepted` states was corrected by this proof. It used to take the
dust of a transaction of the picked coins and one more; the proof of `ChangeIs`
could not be finished, for the solver computes the least change from the number of
coins it has approximated and then may pick a single larger one
(BitcoinLikeStrategyUtxoPicker.cpp:587-613). TLC found the counterexample on an
instance with six coins, five of 1198 and one of 8048, with 4956 to send and a fee
of 1: the large coin is picked and a change of 2900 is given up, since it would not
have been worth it beside six inputs. The bound now has the dust of a transaction of
all coins, and one more.

The assumptions are the named `ASSUME`s of the modules: the bounds are natural
numbers, `NoResult`, `NoThread` and `Immediate` are not results, threads or
queues, the throwing callbacks are callbacks, transactions are finitely many and
batch sizes positive. TLC evaluates them in every run. A theorem whose statement
has conditions (one account, no erasure under a job, nothing fails) has those
under which the property holds at all; section 5 says what happens without them.

Only model-checked: liveness (`AllRun`, `OutcomePosted`, `CanSynchronizeAgain`,
`JobEnds`, `CatchesUp`, `OutcomeHeard`), which the prover does not reach. Every
other property of a passing run, the invariants and the action properties, is
stated by a theorem.

## 5. What the code does not keep

Three disagreements have a run of their own and are described in `PROJECT.json`,
with the sentence of the repository they contradict: a 404 for an orphaned block
never starts the recovery; a recovery with two blocks to delete repeats for ever;
an orphaned block of a Bitcoin account ends each job before the recovery is
reached.

Others were met while looking for the conditions under which the checked
properties hold. Each can be reproduced by lifting the condition:

* Erasing while a job runs (`EraseDuringSync = TRUE`): the job writes its copy of
  the saved state back over the one that was reset
  (AbstractBlockchainExplorerAccountSynchronizer.h:319), and `NothingSkipped`
  fails.
* Two accounts and a reorganization (`Accounts = {a, b}`): a recovery restarts at
  the highest block left in the shared table (line 367), which may be a block of
  the new fork that the other account stored; `NothingSkipped` fails.
* A crash between a page and its state, then a reorganization of a block above
  the saved one (`MaxCrashes = 1`): no recovery starts, the orphaned operations
  stay and `NothingOrphaned` fails.
* A failed request (`MaxFailures = 1`): line 423 swallows it and the job reports
  success; `SuccessMeansSynchronized` fails.
* A broadcast whose transaction is mined and synchronized before its answer is
  handled (`MaxPushes = 1`): the upsert of EthereumLikeAccount.cpp:566 takes the
  block away again and the operation is pending once more.
* An exception out of `performSynchronization`: `synchronize()` leaves the bus
  set, so every later call returns a bus that never carries an outcome. With
  `disturbed` left unset by `SynchronizeThrows`, `OutcomePosted` fails.
* A transaction that two synchronizations saw while pending keeps its entry in
  `pendingTxsHash` after the network dropped it (line 491): line 538 never finds
  it missing, and its operation stays, though line 533 says "Delete dropped txs
  from DB". A liveness property over `BatchSync!FairSpec` without reorganizations
  shows it with a single transaction.
* An account with as many waiting transactions as fill a page: such a page is
  returned as it is (AbstractLedgerApiBlockchainExplorer.h:114), and if all its
  mined transactions are of the block the batch is at, or none is mined, the next
  request is the same. The job reads the same page until one of them is mined:
  `JobEnds` without `SamePageAgain` fails with two transactions. And a transaction
  stored as pending that a job is listed twice, waiting on such a page and mined on
  the next, is entered in `pendingTxsHash` by the first
  (AbstractBlockchainExplorerAccountSynchronizer.h:491) and not taken out by the
  second, which no longer finds it among `transactionsToDrop`: `PendingIsPending`
  fails with `CutsWaiting = TRUE`.
* An erasure under a running job forgets its bus, and the next `synchronize()`
  starts a second job beside it: `OneJobAtATime` without `disturbed` fails.
* After a reorganization, emitting posts the insertion of an operation before its
  deletion (AbstractAccount.cpp:250): who listens is told last that an operation
  is gone that is there. `SYNCHRONIZATION_STARTED` and the outcome may be
  exchanged by the threads of the pool (`overtaken`).
* The callback of a broadcast and the synchronizer mark addresses without a lock
  (CommonBitcoinLikeKeychains.cpp:96): one undoes the other and `UsedIsNotFresh`
  fails without `raced`. `getFreshAddresses` (line 218) returns indices that are
  in use in any case, if some beyond the first unused one are.
* A change of the half batch size after a job that was cut short puts batches at
  the lowest block of the former ones, which says nothing of the batches that were
  not reached: `NothingSkipped` of `BitcoinSync` fails without `spoiled`.
* Two reorganizations during one Bitcoin job (`MaxReorgs = 2`, six transactions on
  two batches, height 6): batch 0 has read up to a block of the new fork, batch 1
  reads its page that was cached from the old one, asks for the next and is
  refused; the recovery deletes that orphaned block and takes every batch above
  the highest block left to that one
  (BlockchainExplorerAccountSynchronizer.cpp:637-656), which for batch 1 is a
  block of the new fork, above transactions of its own it never read. They are
  skipped for ever: `NothingSkipped` and `DiscoversWithinGap` fail without
  `strayed`.
* A page asked ahead is used again after a recovery moved its batch back to the
  same block: `JobEnds` for `BitcoinSync` fails with three transactions and height
  3, the job refusing, recovering and reading the stale page for ever.
* Bitcoin addresses are derived until a whole batch has no transactions; what lies
  behind it in the observable range is not searched, although batches are entered
  for it. `synchronizeMempool` there never deletes what the network dropped;
  `updateTransactionsToDrop` fills a map that nothing reads.
* The knapsack solver, with nothing to combine, starts `filterWithDeepFirst` with
  the amount to send as if it had been collected
  (BitcoinLikeStrategyUtxoPicker.cpp:542): with coins of 30, 30 and 1892, 1500 to
  send and a fee of 1, the first coin "suffices" and the transaction's outputs
  exceed its inputs. `FeeIsFair` without `~fellBack` fails; the tests of the
  picker (src/core/test/bitcoin/bitcoin_utxo_picket_tests.cpp:140) expect enough
  fees.
* A change between the two estimates of dust is made without fees for its output
  when the recipient's output is shorter than 34 bytes (`FeeIsFair`, without its
  condition on sizes). A wipe of less than the fees sends zero. The sorting
  strategies may refuse although dropping the change would do. The second try of
  the solver takes dust off each input and gives it to the fees; one coin picked
  instead of many gives up a change that only many inputs would have made
  worthless (section 4). Below a fee of
  20 per byte the search may stop at the first selection in range, since each
  further coin counts as a gain: `BestIsFound` compares only with sets of which
  every coin is needed.
* Read, not modelled: `_lastEmittedBlocks` of the pool never gets its first entry,
  so the filter at WalletPool.cpp:386 drops every block event;
  `EthereumLikeAccount::emitEventsNow` tests its ERC20 batch outside of the lock;
  `TTLCache::put` does not replace an entry that is there; `getValue` of a
  deffered copies the value without the lock.

## 6. Plan

Modelled since the first version of this plan: the types and the inductive
invariant of `BatchSync`, the events, the Bitcoin synchronizer with its keychain,
and coin selection; proved since: the events, what a synchronization job saves,
the Bitcoin synchronizer, and coin selection. What is left, in order:

1. Stellar's synchronizer, shared by the accounts of a wallet: `AccountSync` with
   several accounts; Algorand's page tokens.
2. Future combinators over `OneShot`: `map`, `flatMap`, `recover`, and
   `executeAll` with its counter.
3. Replaced transactions (`resolveMempool`) and erasures in `BitcoinSync`.
4. The wallets' maps and caches (`TTLCache`), preferences and the version steps of
   the migrations.
5. A refinement: `BatchSync` implements an abstract account that holds the chain's
   transactions up to a block.

Not planned: formats and cryptography (byte-level, covered by test vectors),
generated bindings, vendored libraries, `async::wait` (no caller), the HTTP
transport.
