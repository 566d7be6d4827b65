----------------------------- MODULE BitcoinSync -----------------------------
(***************************************************************************)
(* What a synchronization of a Bitcoin-like account does: its own          *)
(* BlockchainExplorerAccountSynchronizer.  Unlike BatchSync's account it   *)
(* has many addresses: it derives them as long as the explorer knows of    *)
(* transactions on the last it has, asks for all batches of them at once   *)
(* and caches the answers, and only then works through the batches.  The   *)
(* saved state has the last block of each batch and the size they were     *)
(* made with, which the configuration may change.                          *)
(*                                                                         *)
(* A receive and a change address share each index and one stands for      *)
(* both.  A transaction pays one index of the account.  A block is         *)
(* <<height, fork>>.  The continuations of a job run one after the other;  *)
(* an answer and the continuation that handles it are one step.            *)
(***************************************************************************)
EXTENDS Integers, FiniteSets, FiniteSetsExt, Sequences, SequencesExt, TLC, Keychain

CONSTANTS Txs,
          Indexings,     \* the indices transactions may pay, as functions
          Halves,        \* the half batch sizes that may be configured
          ObservableRange,  \* the configured observable range
          MaxHeight,     \* bound: the length of the chain
          MaxReorgs,     \* bound: how often the chain is reorganized
          MaxTroubles,   \* bound: failed requests and insertions, deaths of the
                         \* process and broadcasts, in all
          MaxResizes     \* bound: how often the half batch size is changed

ASSUME TxsAssumption == IsFiniteSet(Txs)
ASSUME IndexingsAssumption ==
    Indexings \subseteq [Txs -> Nat] /\ ObservableRange \in Nat
ASSUME HalvesAssumption == Halves \subseteq Nat \ {0} /\ Halves # {}
ASSUME BoundsAssumption ==
    /\ MaxHeight \in Nat \ {0} /\ MaxReorgs \in Nat
    /\ MaxTroubles \in Nat /\ MaxResizes \in Nat

VARIABLES index,      \* the index each transaction pays
          chain,      \* explorer: the fork of the block at each height
          mined,      \* explorer: the block of a transaction, or NoBlock
          mempool,    \* explorer: the transactions waiting for a block
          reorgs,     \* explorer: how often the chain was reorganized
          blocks,     \* table blocks
          rows,       \* table operations: transaction -> block, or NoBlock
          saved,      \* preferences: the saved state of the synchronizer
          keychain,   \* preferences: the state of the keychain
          half,       \* configuration: half of a batch's addresses
          job,        \* the buddy and the synchronizer's members
          sent,       \* sent transactions: the state of the keychain that the
                      \* callback of the broadcast has read, or NotRead
          raced,      \* history: an older state of the keychain was saved
          spoiled,    \* history: the size was changed after a job that did not
                      \* come to a batch without transactions
          strayed,    \* history: a batch was taken back to a block that is of a
                      \* newer fork, or higher, than the one it was at
          troubles, resizes

explorerVars == <<index, chain, mined, mempool, reorgs>>
databaseVars == <<blocks, rows>>
historyVars == <<raced, spoiled, strayed>>
boundVars == <<troubles, resizes>>
vars == <<explorerVars, databaseVars, saved, keychain, half, job, sent,
          historyVars, boundVars>>

NoBlock == <<0, 0>>
NoRows == [t \in {} |-> NoBlock]
NoState == [half |-> 0, batches |-> <<>>]
NotRead == [next |-> -1, apart |-> {}]

\* A job that has not begun.  "reach" is how many indices it has derived,
\* "probe" the batch it probes, "cache" what _cachedTransactionBulks holds for
\* a batch and its starting block, "asked" the batches it has asked for at
\* once, "at" the batch it is in, "done" and "had" the locals of
\* synchronizeBatches, "held" the mempoolTransaction of the buddy, "began" the
\* height and the fork of the chain when it began and "broken" that a request or
\* an insertion failed.
NoJob ==
    [pc |-> "idle", state |-> NoState, reach |-> 0, probe |-> 0,
     cache |-> [k \in {} |-> NoRows], asked |-> {}, at |-> 0, done |-> FALSE,
     had |-> FALSE, held |-> {}, began |-> NoBlock, broken |-> FALSE]

ChainBlocks == {<<h, chain[h]>> : h \in 1..Len(chain)}
Top(S) == {b \in S : \A c \in S : c[1] <= b[1]}
LastBlock(S) == IF S = {} THEN {NoBlock} ELSE Top(S)
Without(f, S) == [t \in DOMAIN f \ S |-> f[t]]
Over(f, g) ==
    [t \in DOMAIN f \cup DOMAIN g |-> IF t \in DOMAIN f THEN f[t] ELSE g[t]]
With(f, k, v) == Over([x \in {k} |-> v], f)

Init ==
    /\ index \in Indexings
    /\ chain = <<0>>  \* what others sent may be in its only block
    /\ mined \in [Txs -> {NoBlock, <<1, 0>>}]
    /\ mempool = {}
    /\ reorgs = 0
    /\ blocks = {}
    /\ rows = NoRows
    /\ saved = NoState
    /\ keychain = NewKeychain
    /\ half \in Halves
    /\ job = NoJob
    /\ sent = [t \in {} |-> NotRead]
    /\ raced = FALSE /\ spoiled = FALSE /\ strayed = FALSE
    /\ troubles = 0 /\ resizes = 0

-----------------------------------------------------------------------------
(* The explorer and the network.                                           *)

\* Somebody sends a transaction to an address of the account.
Appear(t) ==
    /\ mined[t] = NoBlock /\ t \notin mempool
    /\ mempool' = mempool \cup {t}
    /\ UNCHANGED <<index, chain, mined, reorgs, databaseVars, saved, keychain,
                   half, job, sent, historyVars, boundVars>>

\* A block is added, with some of the transactions that wait.
Mine ==
    /\ Len(chain) < MaxHeight
    /\ chain' = Append(chain, reorgs)
    /\ \E S \in SUBSET mempool :
        /\ mempool' = mempool \ S
        /\ mined' = Over([t \in S |-> <<Len(chain'), reorgs>>], mined)
    /\ UNCHANGED <<index, reorgs, databaseVars, saved, keychain, half, job, sent,
                   historyVars, boundVars>>

\* The blocks above height k are replaced by as many of a new fork; what they
\* held waits again or is in a new block.
Reorganize ==
    /\ reorgs < MaxReorgs
    /\ reorgs' = reorgs + 1
    /\ \E k \in 1..(Len(chain) - 1) :
        LET orphans == {t \in Txs : mined[t][1] > k} IN
        /\ chain' = [h \in 1..Len(chain) |-> IF h <= k THEN chain[h] ELSE reorgs']
        /\ \E S \in SUBSET orphans, h \in (k + 1)..Len(chain) :
            /\ mined' = Over([t \in orphans |->
                                IF t \in S THEN <<h, reorgs'>> ELSE NoBlock], mined)
            /\ mempool' = mempool \cup (orphans \ S)
    /\ UNCHANGED <<index, databaseVars, saved, keychain, half, job, sent,
                   historyVars, boundVars>>

\* The transactions of a batch from a block on, that block included; those that
\* wait come last.
Listed(j, from) ==
    [t \in {u \in Txs : index[u] \div half = j /\
                        (u \in mempool \/
                         (mined[u] # NoBlock /\ mined[u][1] >= from[1]))}
        |-> mined[t]]

Position(b) == IF b = NoBlock THEN MaxHeight + 1 ELSE b[1]

\* The answers getTransactions may give.  A page that is cut off and ends in the
\* block it begins with is asked for again, longer; but not when its last
\* transaction waits.
Answers(j, from) ==
    LET list == Listed(j, from)
        IsCut(S) ==
            /\ \A t \in S, u \in DOMAIN list \ S :
                Position(list[t]) <= Position(list[u])
            /\ \E t, u \in S : list[t] = NoBlock \/ list[t] # list[u]
    IN {[rows |-> list, more |-> FALSE]} \cup
       {[rows |-> [t \in S |-> list[t]], more |-> TRUE] :
            S \in {U \in SUBSET DOMAIN list : U # DOMAIN list /\ IsCut(U)}}

Trouble == troubles < MaxTroubles /\ troubles' = troubles + 1

Knows(from) == from \in ChainBlocks \cup {NoBlock}

-----------------------------------------------------------------------------
(* performSynchronization, before its first request.                       *)

LastBlockWithOperations ==
    LastBlock({rows[t] : t \in DOMAIN rows} \ {NoBlock})

\* The batches are looked at from the lowest block up until one is found that
\* is in the table; the last that was not is the "deepest failed".  Blocks of
\* one height come in any order.
DeepestFailed(batches) ==
    LET gone == {b[1] : b \in ToSet(batches) \ blocks}
        found == {b[1] : b \in ToSet(batches) \cap blocks}
    IN {Max({0} \cup {h \in gone : \A g \in found : h < g}),
        Max({0} \cup {h \in gone : \A g \in found : h <= g})}

\* From that height on, a batch starts again at a block that is in the table.
Rewind(batches, height, block) ==
    [i \in DOMAIN batches |->
        IF height > 0 /\ batches[i][1] >= height THEN block ELSE batches[i]]

\* A batch that leaves off at block b has no more left behind it when it goes
\* on from block c, whatever the chain was when it read up to b.
GoesBack(c, b) == c[1] <= b[1] /\ c[2] <= b[2]
Strays(new, old) == \E i \in DOMAIN old : ~GoesBack(new[i], old[i])

\* Mutant: batches of another size start at the highest block.
InitializeAtHighest(s) ==
    LET Highest == CHOOSE i \in DOMAIN s.batches :
                    \A k \in DOMAIN s.batches : s.batches[k][1] <= s.batches[i][1]
        count == (Len(s.batches) * s.half) \div half
    IN IF s.half = half THEN s
       ELSE [half |-> half, batches |->
                IF s.batches = <<>> THEN <<>>
                ELSE [i \in 1..(IF count = 0 THEN 1 ELSE count + 2) |->
                        s.batches[Highest]]]

\* initializeSavedState: batches of another size all start at the lowest block
\* of the former ones; two more are made than those covered.
InitializeSavedState(s) ==
    LET Lowest == CHOOSE i \in DOMAIN s.batches :
                    \A k \in DOMAIN s.batches :
                        /\ s.batches[i][1] <= s.batches[k][1]
                        /\ k < i => s.batches[i][1] < s.batches[k][1]
        count == (Len(s.batches) * s.half) \div half
    IN IF s.half = half THEN s
       ELSE [half |-> half, batches |->
                IF s.batches = <<>> THEN <<>>
                ELSE [i \in 1..(IF count = 0 THEN 1 ELSE count + 2) |->
                        s.batches[Lowest]]]

PerformSynchronization ==
    /\ job.pc = "idle"
    /\ \E height \in DeepestFailed(saved.batches), block \in LastBlockWithOperations :
        /\ job' = [NoJob EXCEPT
                     !.pc = "head",
                     !.state = InitializeSavedState(
                       [saved EXCEPT !.batches = Rewind(@, height, block)]),
                     !.began = <<Len(chain), reorgs>>]
        /\ strayed' = (strayed \/
                Strays(Rewind(saved.batches, height, block), saved.batches))
    /\ UNCHANGED <<explorerVars, databaseVars, saved, keychain, half, sent, raced,
                   spoiled, boundVars>>

-----------------------------------------------------------------------------
(* Its continuations.                                                      *)

\* What a batch has seen, and the key of its next page in the cache.
BlockOf(s, j) == IF j < Len(s.batches) THEN s.batches[j + 1] ELSE NoBlock
Key(s, j) == <<j, BlockOf(s, j)>>

\* The explorer tells its current block, which is stored; the first batch of
\* addresses is derived.
AnswerCurrentBlock ==
    /\ job.pc = "head"
    /\ blocks' = blocks \cup {<<Len(chain), chain[Len(chain)]>>}
    /\ job' = [job EXCEPT !.pc = "probe", !.probe = 0, !.reach = half]
    /\ UNCHANGED <<explorerVars, rows, saved, keychain, half, sent, historyVars,
                   boundVars>>

\* synchronizeBatches: it is the last one if the saved state has none behind it;
\* when there is none at all, size() - 1 is the largest integer.
EnterBatch(b, j) ==
    [b EXCEPT !.pc = "batch", !.at = j, !.had = FALSE,
              !.done = b.state.batches # <<>> /\ j >= Len(b.state.batches) - 1,
              !.state.batches = IF j >= Len(@) THEN Append(@, NoBlock) ELSE @]

\* Once the last of some requests is answered the batches are worked through.
AwaitAnswers(b) == IF b.asked = {} THEN EnterBatch(b, 0) ELSE [b EXCEPT !.pc = "ask"]

\* Mutant: the next addresses are derived when the last have no transactions.
AnswerProbeShort ==
    /\ job.pc = "probe"
    /\ \E page \in Answers(job.probe, NoBlock) :
        LET cached == [job EXCEPT !.cache = With(@, <<job.probe, NoBlock>>, page)] IN
        job' = AwaitAnswers([cached EXCEPT !.asked =
                    {j \in 0..(job.reach \div half - 1) :
                        Key(job.state, j) \notin DOMAIN cached.cache}])
    /\ UNCHANGED <<explorerVars, databaseVars, saved, keychain, half, sent,
                   historyVars, boundVars>>

\* extendKeychain: the explorer tells what it has on the last batch of the
\* addresses, from the beginning.  If there is something more of them are
\* derived; else requestTransactionsFromExplorer asks for all batches whose
\* first page is not in the cache.
AnswerProbe ==
    /\ job.pc = "probe"
    /\ \E page \in Answers(job.probe, NoBlock) :
        LET cached == [job EXCEPT !.cache = With(@, <<job.probe, NoBlock>>, page)] IN
        \/ /\ DOMAIN page.rows # {}
           /\ job' = [cached EXCEPT !.probe = (@ + 1) * 2,
                                    !.reach = (job.probe * 2 + 3) * half]
        \/ /\ DOMAIN page.rows = {}
           /\ job' = AwaitAnswers([cached EXCEPT !.asked =
                        {j \in 0..(job.reach \div half - 1) :
                            Key(job.state, j) \notin DOMAIN cached.cache}])
    /\ UNCHANGED <<explorerVars, databaseVars, saved, keychain, half, sent,
                   historyVars, boundVars>>

\* One of these requests is answered ...
AnswerBatch(j) ==
    /\ job.pc = "ask" /\ j \in job.asked
    /\ Knows(BlockOf(job.state, j))
    /\ \E page \in Answers(j, BlockOf(job.state, j)) :
        job' = AwaitAnswers([job EXCEPT
                 !.cache = With(@, Key(job.state, j), page),
                 !.asked = @ \ {j}])
    /\ UNCHANGED <<explorerVars, databaseVars, saved, keychain, half, sent,
                   historyVars, boundVars>>

\* ... or refused: the job ends here, it does not come to the recovery.
RefuseBatch(j) ==
    /\ job.pc = "ask" /\ j \in job.asked
    /\ ~Knows(BlockOf(job.state, j))
    /\ job' = NoJob
    /\ UNCHANGED <<explorerVars, databaseVars, saved, keychain, half, sent,
                   historyVars, boundVars>>

\* A request outside of synchronizeBatches fails: the job ends.
JobFails ==
    /\ job.pc \in {"head", "probe", "ask", "mempool"}
    /\ Trouble
    /\ job' = NoJob
    /\ UNCHANGED <<explorerVars, databaseVars, saved, keychain, half, sent,
                   historyVars, resizes>>

InRange == job.pc = "batch" /\ job.at * half < job.reach
IsCached == Key(job.state, job.at) \in DOMAIN job.cache

\* getTransactionBulk: the cached page, or an answer of the explorer.
Pages ==
    IF IsCached THEN {job.cache[Key(job.state, job.at)]}
    ELSE IF Knows(BlockOf(job.state, job.at))
         THEN Answers(job.at, BlockOf(job.state, job.at)) ELSE {}

InBlock(page) == {t \in DOMAIN page.rows : page.rows[t] # NoBlock}

\* interpretTransaction, for a page: the addresses are marked; what is in no
\* block is held back until the end.
Interpret(page) ==
    keychain' = MarkAllAsUsed(keychain, {index[t] : t \in DOMAIN page.rows})
Held(page) == job.held \cup (DOMAIN page.rows \ InBlock(page))

BulkInsert(ops) ==
    /\ rows' = Over(ops, rows)
    /\ blocks' = blocks \cup ({ops[t] : t \in DOMAIN ops} \ {NoBlock})

\* The batch moves to the last block of the page.
BlocksAfter(page) ==
    IF InBlock(page) = {} THEN {BlockOf(job.state, job.at)}
    ELSE Top({page.rows[t] : t \in InBlock(page)})

\* synchronizeBatch: a page is stored; the batch moves and the state is saved if
\* it holds a block.
ReadPage(page) ==
    /\ InRange
    /\ Interpret(page)
    /\ BulkInsert([t \in InBlock(page) |-> page.rows[t]])
    /\ \E block \in BlocksAfter(page) :
        job' = [job EXCEPT !.state.batches[job.at + 1] = block,
                           !.had = @ \/ DOMAIN page.rows # {},
                           !.held = Held(page),
                           !.pc = IF page.more THEN "batch" ELSE "stored"]
    /\ saved' = IF InBlock(page) = {} THEN saved ELSE job'.state
    /\ UNCHANGED <<explorerVars, half, sent, historyVars, boundVars>>

\* bulkInsert fails, or the request; both are swallowed by recoverWith.
InsertFails(page) ==
    /\ InRange
    /\ Trouble
    /\ Interpret(page)
    /\ job' = [job EXCEPT !.pc = "mempool", !.held = Held(page), !.broken = TRUE]
    /\ UNCHANGED <<explorerVars, databaseVars, saved, half, sent, historyVars, resizes>>
RequestFails ==
    /\ InRange /\ ~IsCached
    /\ Trouble
    /\ job' = [job EXCEPT !.pc = "mempool", !.broken = TRUE]
    /\ UNCHANGED <<explorerVars, databaseVars, saved, keychain, half, sent,
                   historyVars, resizes>>

\* There are no addresses for the batch.
SkipBatch ==
    /\ job.pc = "batch" /\ ~InRange
    /\ job' = [job EXCEPT !.pc = "stored"]
    /\ UNCHANGED <<explorerVars, databaseVars, saved, keychain, half, sent,
                   historyVars, boundVars>>

\* The state is saved and the next batch is synchronized, if there may be more.
EndBatch ==
    /\ job.pc = "stored"
    /\ saved' = job.state
    /\ job' = IF ~job.done \/ job.had \/ ObservableRange > job.at * half
              THEN EnterBatch(job, job.at + 1)
              ELSE [job EXCEPT !.pc = "mempool"]
    /\ UNCHANGED <<explorerVars, databaseVars, keychain, half, sent, historyVars,
                   boundVars>>

\* The explorer does not know the block of a page that was not asked for ahead;
\* its answer is taken to arrive as BLOCK_NOT_FOUND.
RefusePage ==
    /\ InRange /\ ~IsCached /\ Pages = {}
    /\ job' = [job EXCEPT !.pc = "reorganized"]
    /\ UNCHANGED <<explorerVars, databaseVars, saved, keychain, half, sent,
                   historyVars, boundVars>>

Doomed == {b \in blocks : b[1] >= BlockOf(job.state, job.at)[1]}

\* As in BatchSync: the statements bind the list of blocks beside one uid, and
\* throw unless it has one member.
CanDelete(S) == Cardinality(S) = 1

DeleteBlocks(S) ==
    /\ blocks' = blocks \ S
    /\ rows' = Without(rows, {t \in DOMAIN rows : rows[t] \in S})

\* Every batch that is above the last block left goes back to it.
RewindAll(batches, block) ==
    [i \in DOMAIN batches |->
        IF batches[i][1] > block[1] THEN block ELSE batches[i]]

\* recoverWith, BLOCK_NOT_FOUND: the failed block and what is above it is
\* deleted, and the batch synchronized again.
RecoverFromReorganization ==
    /\ job.pc = "reorganized"
    /\ \/ /\ CanDelete(Doomed)
          /\ DeleteBlocks(Doomed)
          /\ \E block \in LastBlock(blocks') :
                /\ job' = EnterBatch([job EXCEPT !.state.batches =
                                        RewindAll(@, block)], job.at)
                /\ strayed' = (strayed \/
                        Strays(RewindAll(job.state.batches, block), job.state.batches))
       \/ /\ ~CanDelete(Doomed)
          /\ job' = EnterBatch(job, job.at)
          /\ UNCHANGED <<databaseVars, strayed>>
    /\ saved' = job'.state
    /\ UNCHANGED <<explorerVars, keychain, half, sent, raced, spoiled, boundVars>>

\* synchronizeMempool: what was held back is stored, in no block; nothing that
\* the network dropped is deleted.  No two transactions spend the same output
\* here, so resolveMempool keeps them all.
SynchronizeMempool ==
    /\ job.pc = "mempool"
    /\ keychain' = MarkAllAsUsed(keychain, {index[t] : t \in job.held})
    /\ BulkInsert([t \in job.held |-> NoBlock])
    /\ job' = NoJob
    /\ UNCHANGED <<explorerVars, saved, half, sent, historyVars, boundVars>>

Continue ==
    \/ AnswerCurrentBlock \/ AnswerProbe
    \/ \E j \in job.asked : AnswerBatch(j) \/ RefuseBatch(j)
    \/ \E page \in Pages : ReadPage(page)
    \/ SkipBatch \/ EndBatch
    \/ RefusePage \/ RecoverFromReorganization
    \/ SynchronizeMempool

-----------------------------------------------------------------------------
(* What the application does meanwhile.                                    *)

\* broadcastRawTransaction: the explorer takes the transaction ...
PushTransaction(t) ==
    /\ Trouble
    /\ mined[t] = NoBlock /\ t \notin mempool
    /\ mempool' = mempool \cup {t}
    /\ sent' = With(sent, t, NotRead)
    /\ UNCHANGED <<index, chain, mined, reorgs, databaseVars, saved, keychain,
                   half, job, historyVars, resizes>>

\* ... its callback reads the state of the keychain, to mark the addresses ...
ReadKeychain(t) ==
    /\ t \in DOMAIN sent /\ sent[t] = NotRead
    /\ sent' = [sent EXCEPT ![t] = keychain]
    /\ UNCHANGED <<explorerVars, databaseVars, saved, keychain, half, job,
                   historyVars, boundVars>>

\* ... and saves it, without a lock; then the operation is stored.
OptimisticUpdate(t) ==
    /\ t \in DOMAIN sent /\ sent[t] # NotRead
    /\ LET after == MarkAsUsed(sent[t], index[t]) IN
        /\ keychain' = IF after = sent[t] THEN keychain ELSE after
        /\ raced' = (raced \/ (after # sent[t] /\ sent[t] # keychain))
    /\ BulkInsert([u \in {t} |-> NoBlock])
    /\ sent' = Without(sent, {t})
    /\ UNCHANGED <<explorerVars, saved, half, job, spoiled, strayed, boundVars>>

\* The half batch size is configured anew between two synchronizations.
Configure(size) ==
    /\ job.pc = "idle"
    /\ size # half
    /\ resizes < MaxResizes
    /\ resizes' = resizes + 1
    /\ half' = size
    /\ spoiled' = (spoiled \/ (saved.batches # <<>> /\
                               NoBlock \notin ToSet(saved.batches)))
    /\ UNCHANGED <<explorerVars, databaseVars, saved, keychain, job, sent, raced,
                   strayed, troubles>>

\* The process dies; it starts again with what is in the database.
Die ==
    /\ Trouble
    /\ job' = NoJob
    /\ sent' = Without(sent, DOMAIN sent)
    /\ UNCHANGED <<explorerVars, half, historyVars, resizes>>

Crash == Die /\ UNCHANGED <<databaseVars, saved, keychain>>

\* Mutant: the state is saved before the rows.
CrashInSave(page) ==
    /\ InRange
    /\ Interpret(page)
    /\ \E block \in BlocksAfter(page) :
        saved' = [job.state EXCEPT !.batches[job.at + 1] = block]
    /\ UNCHANGED databaseVars
    /\ Die

\* It dies between the commits of a step: the keychain's, that of the rows, and
\* that of the state.
CrashInInsert(page) ==
    /\ InRange
    /\ Interpret(page)
    /\ BulkInsert([t \in InBlock(page) |-> page.rows[t]])
    /\ UNCHANGED saved
    /\ Die

CrashInRecovery ==
    /\ job.pc = "reorganized"
    /\ CanDelete(Doomed)
    /\ DeleteBlocks(Doomed)
    /\ UNCHANGED <<saved, keychain>>
    /\ Die

-----------------------------------------------------------------------------
Next ==
    \/ Mine \/ Reorganize
    \/ \E t \in Txs : \/ Appear(t) \/ PushTransaction(t)
                      \/ ReadKeychain(t) \/ OptimisticUpdate(t)
    \/ PerformSynchronization \/ Continue
    \/ JobFails \/ RequestFails \/ \E page \in Pages : InsertFails(page)
    \/ Crash \/ CrashInRecovery \/ \E page \in Pages : CrashInInsert(page)
    \/ \E size \in Halves : Configure(size)

Spec == Init /\ [][Next]_vars

\* The thread pool runs every continuation, and the application synchronizes
\* again and again.  Nothing is assumed of the chain.
FairSpec == Spec /\ WF_vars(PerformSynchronization) /\ WF_vars(Continue)

-----------------------------------------------------------------------------
Stages == {"idle", "head", "probe", "ask", "batch", "stored", "reorganized", "mempool"}
BlockRefs == ((1..MaxHeight) \X (0..MaxReorgs)) \cup {NoBlock}
IsRows(f) == DOMAIN f \subseteq Txs /\ \A t \in DOMAIN f : f[t] \in BlockRefs
IsState(s) == s.half \in Halves \cup {0} /\ \A b \in ToSet(s.batches) : b \in BlockRefs
IsKeychain(k) == k.next \in Nat /\ \A i \in k.apart : i > k.next

\* Every variable has its type.  In particular a job has derived whole batches,
\* and the indices a keychain keeps apart are above the one it gives out next.
TypeOK ==
    /\ index \in Indexings
    /\ Len(chain) \in 1..MaxHeight /\ \A h \in DOMAIN chain : chain[h] \in 0..MaxReorgs
    /\ mined \in [Txs -> BlockRefs] /\ mempool \subseteq Txs
    /\ reorgs \in 0..MaxReorgs
    /\ blocks \subseteq BlockRefs \ {NoBlock} /\ IsRows(rows)
    /\ IsState(saved) /\ IsState(job.state) /\ half \in Halves
    /\ job.pc \in Stages /\ job.reach % half = 0
    /\ job.pc # "idle" => job.state.half = half
    /\ \A k \in DOMAIN job.cache : k[2] \in BlockRefs /\ IsRows(job.cache[k].rows)
    /\ job.asked \subseteq Nat /\ job.held \subseteq Txs /\ job.began \in BlockRefs
    /\ IsKeychain(keychain)
    /\ DOMAIN sent \subseteq Txs
    /\ \A t \in DOMAIN sent : sent[t] = NotRead \/ IsKeychain(sent[t])
    /\ raced \in BOOLEAN /\ spoiled \in BOOLEAN /\ strayed \in BOOLEAN

Stored(t) == t \in DOMAIN rows /\ rows[t] \in {mined[t], NoBlock}

\* Once the saved block of a batch is a block of the chain, every transaction on
\* its addresses that was mined below it is stored: the next synchronization
\* starts the batch at that block.  So it is with a cached page, with a batch
\* that was moved by the recovery of another, and with batches made for another
\* size, unless a job that was cut short had only come to batches with blocks,
\* or a recovery took a batch back to a block of a newer fork than it has read.
NothingSkipped ==
    ~spoiled /\ ~strayed =>
        \A i \in DOMAIN saved.batches : saved.batches[i] \in ChainBlocks =>
            \A t \in Txs :
                index[t] \div saved.half = i - 1 /\ mined[t] # NoBlock
                    /\ mined[t][1] < saved.batches[i][1] => Stored(t)

\* An address of a stored transaction is not given out as a fresh one, unless a
\* broadcast has saved a state of the keychain that was older.
UsedIsNotFresh ==
    ~raced => \A t \in DOMAIN rows : index[t] \in UsedIndices(keychain)

\* Transactions mined when the job began that are still in the same block.
Due ==
    {t \in Txs : mined[t] # NoBlock /\ mined[t][1] <= job.began[1]
                                   /\ mined[t][2] <= job.began[2]}

\* No gap as long as half a batch comes before the index of a transaction.
IsNear(t) == \A i \in 0..index[t] : \E u \in Due : index[u] \in i..(i + half - 1)

\* A job that no request failed stores every transaction that was mined when it
\* began, as far as the gap limit reaches: derivation does not stop before a
\* batch without transactions, nor do the batches end before it. It is not so
\* once a job that was cut short has left batches of another size, or a recovery
\* has taken a batch to a block of a newer fork than the batch had read.
DiscoversWithinGap ==
    [][SynchronizeMempool /\ ~job.broken /\ ~spoiled /\ ~strayed =>
        \A t \in Due : IsNear(t) => Stored(t)']_vars

\* Transactions may be exchanged.
Symmetry == Permutations(Txs)

\* An operation does not stay in a block that is no longer of the chain.
OrphansLeave ==
    \A t \in Txs : ~<>[](t \in DOMAIN rows /\ rows[t] \notin ChainBlocks \cup {NoBlock})
=============================================================================
