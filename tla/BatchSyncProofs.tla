--------------------------- MODULE BatchSyncProofs ---------------------------
(***************************************************************************)
(* Proofs about BatchSync, for any accounts, transactions and bounds.      *)
(***************************************************************************)
EXTENDS BatchSync, FiniteSetTheorems, SequenceTheorems, TLAPS

-----------------------------------------------------------------------------
(* The rows refer to blocks of their table.                                *)

\* What a row is after an upsert: as upserted, or as it was.
LEMMA OverValues ==
    ASSUME NEW f, NEW g, NEW t \in DOMAIN Over(f, g)
    PROVE  \/ t \in DOMAIN f /\ Over(f, g)[t] = f[t]
           \/ t \in DOMAIN g /\ Over(f, g)[t] = g[t]
BY DEF Over

LEMMA WithoutValues ==
    ASSUME NEW f, NEW S, NEW t \in DOMAIN Without(f, S)
    PROVE  t \in DOMAIN f /\ t \notin S /\ Without(f, S)[t] = f[t]
BY DEF Without

\* Operations are inserted together with their blocks ...
LEMMA BulkInsertKeeps ==
    ASSUME BlocksPresent, NEW ops, BulkInsert(ops)
    PROVE  BlocksPresent'
<1> SUFFICES ASSUME NEW t \in DOMAIN rows'
             PROVE  rows'[t] \in blocks' \cup {NoBlock}
    BY DEF BlocksPresent
<1>1. rows' = Over(ops, rows)
    BY DEF BulkInsert
<1>2. blocks' = blocks \cup ({ops[u] : u \in DOMAIN ops} \ {NoBlock})
    BY DEF BulkInsert
<1>3. CASE t \in DOMAIN ops /\ rows'[t] = ops[t]
    BY <1>2, <1>3
<1>4. CASE t \in DOMAIN rows /\ rows'[t] = rows[t]
    BY <1>2, <1>4 DEF BlocksPresent
<1> QED BY <1>1, <1>3, <1>4, OverValues

\* ... and deleted with them.
LEMMA DeleteBlocksKeeps ==
    ASSUME BlocksPresent, NEW S, DeleteBlocks(S)
    PROVE  BlocksPresent'
<1> SUFFICES ASSUME NEW t \in DOMAIN rows'
             PROVE  rows'[t] \in blocks' \cup {NoBlock}
    BY DEF BlocksPresent
<1>1. /\ t \in DOMAIN rows /\ t \notin {u \in DOMAIN rows : rows[u] \in S}
      /\ rows'[t] = rows[t]
    BY WithoutValues DEF DeleteBlocks
<1> QED BY <1>1 DEF DeleteBlocks, BlocksPresent

\* Deleting operations, or adding blocks, disturbs nothing.
LEMMA DeleteRowsKeeps ==
    ASSUME BlocksPresent, NEW S, rows' = Without(rows, S), blocks' = blocks
    PROVE  BlocksPresent'
<1> SUFFICES ASSUME NEW t \in DOMAIN rows'
             PROVE  rows'[t] \in blocks' \cup {NoBlock}
    BY DEF BlocksPresent
<1>1. t \in DOMAIN rows /\ rows'[t] = rows[t]
    BY WithoutValues
<1> QED BY <1>1 DEF BlocksPresent

LEMMA MoreBlocksKeep ==
    ASSUME BlocksPresent, rows' = rows, blocks \subseteq blocks'
    PROVE  BlocksPresent'
BY DEF BlocksPresent

LEMMA ContinueKeeps ==
    ASSUME BlocksPresent, NEW a \in Accounts, Continue(a)
    PROVE  BlocksPresent'
<1>1. CASE AnswerTransactions(a)
    BY <1>1, MoreBlocksKeep DEF AnswerTransactions, databaseVars
<1>2. CASE RefuseBlock(a)
    BY <1>2, MoreBlocksKeep DEF RefuseBlock, databaseVars
<1>3. CASE InsertPage(a)
    BY <1>3, BulkInsertKeeps DEF InsertPage
<1>4. CASE SaveState(a)
    BY <1>4, MoreBlocksKeep DEF SaveState, databaseVars
<1>5. CASE RecoverFromReorganization(a)
    <2>1. CASE DeleteBlocks(Doomed(a))
        BY <2>1, DeleteBlocksKeeps
    <2>2. CASE UNCHANGED databaseVars
        BY <2>2, MoreBlocksKeep DEF databaseVars
    <2> QED BY <1>5, <2>1, <2>2 DEF RecoverFromReorganization
<1>6. CASE SwallowError(a)
    BY <1>6, MoreBlocksKeep DEF SwallowError, databaseVars
<1>7. CASE SynchronizeMempool(a)
    BY <1>7, DeleteRowsKeeps DEF SynchronizeMempool
<1> QED BY <1>1, <1>2, <1>3, <1>4, <1>5, <1>6, <1>7 DEF Continue

LEMMA BlocksPresentNext == BlocksPresent /\ [Next]_vars => BlocksPresent'
<1> SUFFICES ASSUME BlocksPresent, [Next]_vars
             PROVE  BlocksPresent'
    OBVIOUS
<1>1. CASE Mine \/ Reorganize
    BY <1>1, MoreBlocksKeep DEF Mine, Reorganize, databaseVars
<1>2. ASSUME NEW t \in Txs, Appear(t) \/ Evict(t) \/ PushTransaction(t)
      PROVE  BlocksPresent'
    BY <1>2, MoreBlocksKeep DEF Appear, Evict, PushTransaction, databaseVars
<1>3. ASSUME NEW t \in Txs, OptimisticUpdate(t)
      PROVE  BlocksPresent'
    BY <1>3, BulkInsertKeeps DEF OptimisticUpdate
<1>4. ASSUME NEW a \in Accounts,
             PerformSynchronization(a) \/ AnswerCurrentBlock(a)
                \/ RequestFails(a) \/ InsertFails(a)
      PROVE  BlocksPresent'
    BY <1>4, MoreBlocksKeep
    DEF PerformSynchronization, AnswerCurrentBlock, RequestFails, InsertFails,
        databaseVars
<1>5. ASSUME NEW a \in Accounts, Continue(a)
      PROVE  BlocksPresent'
    BY <1>5, ContinueKeeps
<1>6. ASSUME NEW a \in Accounts, UpdateCurrentBlock(a)
      PROVE  BlocksPresent'
    BY <1>6, MoreBlocksKeep DEF UpdateCurrentBlock
<1>7. ASSUME NEW a \in Accounts, CrashInInsert(a)
      PROVE  BlocksPresent'
    BY <1>7, BulkInsertKeeps DEF CrashInInsert
<1>8. ASSUME NEW a \in Accounts, CrashInRecovery(a)
      PROVE  BlocksPresent'
    BY <1>8, DeleteBlocksKeeps DEF CrashInRecovery
<1>9. ASSUME NEW a \in Accounts, NEW h \in 1..MaxHeight, EraseDataSince(a, h)
      PROVE  BlocksPresent'
    BY <1>9, DeleteRowsKeeps DEF EraseDataSince
<1>10. CASE Crash
    BY <1>10, MoreBlocksKeep DEF Crash, databaseVars
<1>11. CASE UNCHANGED vars
    BY <1>11, MoreBlocksKeep DEF vars, databaseVars
<1> QED BY <1>1, <1>2, <1>3, <1>4, <1>5, <1>6, <1>7, <1>8, <1>9, <1>10, <1>11
        DEF Next

\* An operation is never left with a block that is not in the table, whatever
\* is inserted, recovered, erased or lost in a crash.
THEOREM BlocksArePresent == Spec => []BlocksPresent
<1>1. Init => BlocksPresent
    BY DEF Init, NoRows, BlocksPresent
<1> QED BY <1>1, BlocksPresentNext, PTL DEF Spec
-----------------------------------------------------------------------------
(* Types.                                                                  *)

LEMMA OverRows ==
    ASSUME NEW f, NEW g, IsRows(f), IsRows(g)
    PROVE  IsRows(Over(f, g))
BY DEF Over, IsRows

LEMMA WithoutRows ==
    ASSUME NEW f, NEW S, IsRows(f)
    PROVE  IsRows(Without(f, S))
BY DEF Without, IsRows

LEMMA NoRowsAreRows == IsRows(NoRows)
BY DEF NoRows, IsRows

\* What the explorer has, what the database has, and what a job has.
ExplorerOK ==
    /\ chain \in Seq(0..MaxReorgs) /\ Len(chain) <= MaxHeight
    /\ mined \in [Txs -> BlockRefs]
    /\ mempool \subseteq Txs
    /\ reorgs \in 0..MaxReorgs

DatabaseOK ==
    /\ blocks \subseteq Blocks
    /\ IsRows(rows)
    /\ saved \in [Accounts -> States]

JobOK ==
    /\ pc \in [Accounts -> Stages]
    /\ state \in [Accounts -> States]
    /\ toDrop \in [Accounts -> SUBSET Txs]
    /\ DOMAIN page = Accounts /\ \A a \in Accounts : IsRows(page[a])
    /\ more \in [Accounts -> BOOLEAN]
    /\ DOMAIN due = Accounts /\ \A a \in Accounts : IsRows(due[a])

RestOK ==
    /\ head \in [Accounts -> Blocks \cup {Asked, NotAsked}]
    /\ pushed \subseteq Txs /\ unmined \subseteq Txs
    /\ failures \in 0..MaxFailures /\ crashes \in 0..MaxCrashes
    /\ erases \in 0..MaxErases /\ pushes \in 0..MaxPushes

LEMMA TypeParts == TypeOK <=> ExplorerOK /\ DatabaseOK /\ JobOK /\ RestOK
BY DEF TypeOK, ExplorerOK, DatabaseOK, JobOK, RestOK

LEMMA TypePartsNext ==
    ASSUME ExplorerOK', DatabaseOK', JobOK', RestOK'
    PROVE  TypeOK'
BY DEF TypeOK, ExplorerOK, DatabaseOK, JobOK, RestOK

LEMMA ChainType ==
    ASSUME ExplorerOK, NEW h \in 1..Len(chain)
    PROVE  <<h, chain[h]>> \in Blocks /\ Len(chain) \in Nat
<1>1. chain[h] \in 0..MaxReorgs /\ Len(chain) \in Nat
    BY ElementOfSeq, LenProperties DEF ExplorerOK
<1> QED BY <1>1, BoundsAssumption DEF ExplorerOK, Blocks

LEMMA ChainBlocksType == ASSUME ExplorerOK PROVE ChainBlocks \subseteq Blocks
BY ChainType DEF ChainBlocks

LEMMA TypeInit == Init => TypeOK
<1> SUFFICES ASSUME Init PROVE TypeOK
    OBVIOUS
<1> USE BoundsAssumption DEF Init
<1>1. ExplorerOK
    BY DEF ExplorerOK, BlockRefs
<1>2. DatabaseOK
    BY NoRowsAreRows DEF DatabaseOK, NoState, States, BlockRefs
<1>3. JobOK
    BY NoRowsAreRows DEF JobOK, NoState, States, BlockRefs, Stages
<1>4. RestOK
    BY DEF RestOK
<1> QED BY <1>1, <1>2, <1>3, <1>4, TypeParts

-----------------------------------------------------------------------------
LEMMA MineType == ASSUME ExplorerOK, Mine PROVE ExplorerOK'
<1> USE BoundsAssumption
<1>1. /\ chain' \in Seq(0..MaxReorgs)
      /\ Len(chain') = Len(chain) + 1
      /\ Len(chain') \in 1..MaxHeight
    BY AppendProperties DEF ExplorerOK, Mine
<1>2. PICK S \in SUBSET mempool :
            /\ mempool' = mempool \ S
            /\ mined' = [t \in Txs |->
                            IF t \in S THEN <<Len(chain'), reorgs>> ELSE mined[t]]
    BY DEF Mine
<1>3. <<Len(chain'), reorgs>> \in BlockRefs
    BY <1>1 DEF ExplorerOK, BlockRefs, Blocks
<1>4. mined' \in [Txs -> BlockRefs]
    BY <1>2, <1>3 DEF ExplorerOK
<1>5. mempool' \subseteq Txs /\ reorgs' \in 0..MaxReorgs
    BY <1>2 DEF ExplorerOK, Mine
<1>6. Len(chain') <= MaxHeight
    BY <1>1
<1> QED BY <1>1, <1>4, <1>5, <1>6 DEF ExplorerOK

LEMMA ReorganizeType == ASSUME ExplorerOK, Reorganize PROVE ExplorerOK'
<1> USE BoundsAssumption
<1>1. reorgs' = reorgs + 1 /\ reorgs' \in 0..MaxReorgs
    BY DEF ExplorerOK, Reorganize
<1>2. PICK k \in 0..(Len(chain) - 1) :
        /\ chain' = [h \in 1..Len(chain) |-> IF h <= k THEN chain[h] ELSE reorgs']
        /\ \E place \in [{t \in Txs : mined[t][1] > k} ->
                         {<<h, reorgs'>> : h \in (k + 1)..Len(chain)} \cup {NoBlock}] :
            /\ mined' = Over(place, mined)
            /\ \E S \in SUBSET {t \in {u \in Txs : mined[u][1] > k} : place[t] = NoBlock} :
                mempool' = mempool \cup S
    BY DEF Reorganize
<1>3. Len(chain) \in Nat /\ \A h \in 1..Len(chain) : chain[h] \in 0..MaxReorgs
    BY DEF ExplorerOK
<1>4. chain' \in Seq(0..MaxReorgs) /\ Len(chain') = Len(chain)
  <2>1. chain' \in [1..Len(chain) -> 0..MaxReorgs]
    BY <1>1, <1>2, <1>3
  <2> QED BY <2>1, <1>3
<1>5. PICK place \in [{t \in Txs : mined[t][1] > k} ->
                     {<<h, reorgs'>> : h \in (k + 1)..Len(chain)} \cup {NoBlock}] :
            /\ mined' = Over(place, mined)
            /\ \E S \in SUBSET {t \in {u \in Txs : mined[u][1] > k} : place[t] = NoBlock} :
                mempool' = mempool \cup S
    BY <1>2
<1>6. {<<h, reorgs'>> : h \in (k + 1)..Len(chain)} \cup {NoBlock} \subseteq BlockRefs
    BY <1>1, <1>2, <1>3 DEF BlockRefs, Blocks, ExplorerOK
<1>7. mined' \in [Txs -> BlockRefs]
    BY <1>5, <1>6 DEF Over, ExplorerOK
<1>8. mempool' \subseteq Txs
    BY <1>5 DEF ExplorerOK
<1> QED BY <1>1, <1>4, <1>7, <1>8 DEF ExplorerOK

LEMMA SameExplorer == ASSUME ExplorerOK, UNCHANGED explorerVars PROVE ExplorerOK'
BY DEF ExplorerOK, explorerVars

LEMMA SameDatabase ==
    ASSUME DatabaseOK, UNCHANGED databaseVars, UNCHANGED saved
    PROVE  DatabaseOK'
BY DEF DatabaseOK, databaseVars

LEMMA SameJob == ASSUME JobOK, UNCHANGED jobVars PROVE JobOK'
BY DEF JobOK, jobVars

LEMMA SameRest ==
    ASSUME RestOK, UNCHANGED head, UNCHANGED pushVars, UNCHANGED boundVars
    PROVE  RestOK'
BY DEF RestOK, pushVars, boundVars

LEMMA NetworkType ==
    ASSUME TypeOK,
           Mine \/ Reorganize \/ \E t \in Txs : Appear(t) \/ Evict(t) \/ PushTransaction(t)
    PROVE  TypeOK'
<1> USE TypeParts, TypePartsNext
<1>1. CASE Mine
    BY <1>1, MineType, SameDatabase, SameJob, SameRest DEF Mine
<1>2. CASE Reorganize
    BY <1>2, ReorganizeType, SameDatabase, SameJob, SameRest DEF Reorganize
<1>3. ASSUME NEW t \in Txs, Appear(t) \/ Evict(t)
      PROVE  TypeOK'
  <2>1. ExplorerOK'
    BY <1>3 DEF Appear, Evict, ExplorerOK
  <2> QED BY <1>3, <2>1, SameDatabase, SameJob, SameRest DEF Appear, Evict
<1>4. ASSUME NEW t \in Txs, PushTransaction(t)
      PROVE  TypeOK'
  <2>1. ExplorerOK'
    BY <1>4 DEF PushTransaction, ExplorerOK
  <2>2. RestOK'
    BY <1>4, BoundsAssumption DEF PushTransaction, RestOK
  <2> QED BY <1>4, <2>1, <2>2, SameDatabase, SameJob DEF PushTransaction
<1> QED BY <1>1, <1>2, <1>3, <1>4

-----------------------------------------------------------------------------
LEMMA RowBlocks ==
    ASSUME NEW f, IsRows(f), NEW S
    PROVE  {f[t] : t \in DOMAIN f \cap S} \subseteq BlockRefs
BY DEF IsRows

LEMMA StartingBlockType ==
    ASSUME TypeOK, NEW a \in Accounts
    PROVE  StartingBlock(a) \subseteq BlockRefs
<1>1. saved[a].block \in BlockRefs
    BY DEF TypeOK, States
<1>2. LastBlockWithOperations(a) \subseteq BlockRefs
    BY RowBlocks DEF TypeOK, LastBlockWithOperations, Top, BlockRefs
<1> QED BY <1>1, <1>2 DEF StartingBlock

LEMMA BlockAfterType ==
    ASSUME TypeOK, NEW a \in Accounts
    PROVE  BlockAfter(a) \subseteq BlockRefs /\ PageBlocks(a) \subseteq Blocks
<1>1. IsRows(page[a]) /\ state[a].block \in BlockRefs
    BY DEF TypeOK, States
<1>2. PageBlocks(a) \subseteq Blocks
    BY <1>1 DEF PageBlocks, IsRows, BlockRefs
<1> QED BY <1>1, <1>2 DEF BlockAfter, Top, BlockRefs

LEMMA StateAfterType ==
    ASSUME TypeOK, NEW a \in Accounts, NEW b \in BlockRefs
    PROVE  StateAfter(a, b) \in States
<1>1. state[a] \in States /\ IsRows(page[a])
    BY DEF TypeOK
<1> QED BY <1>1 DEF StateAfter, States, IsRows

LEMMA LastBlockType ==
    ASSUME NEW S \in SUBSET Blocks
    PROVE  LastBlock(S) \subseteq BlockRefs
BY DEF LastBlock, Top, BlockRefs

LEMMA BulkInsertType ==
    ASSUME TypeOK, NEW ops, IsRows(ops), BulkInsert(ops)
    PROVE  blocks' \subseteq Blocks /\ IsRows(rows')
<1>1. {ops[t] : t \in DOMAIN ops} \ {NoBlock} \subseteq Blocks
    BY DEF IsRows, BlockRefs
<1> QED BY <1>1, OverRows DEF BulkInsert, TypeOK

LEMMA DeleteBlocksType ==
    ASSUME TypeOK, NEW S, DeleteBlocks(S)
    PROVE  blocks' \subseteq Blocks /\ IsRows(rows')
BY WithoutRows DEF DeleteBlocks, TypeOK

LEMMA FreeBuddyType ==
    ASSUME JobOK, NEW A, FreeBuddy(A), pc' \in [Accounts -> Stages]
    PROVE  JobOK'
<1>1. NoState \in States
    BY DEF NoState, States, BlockRefs
<1>2. state' \in [Accounts -> States] /\ toDrop' \in [Accounts -> SUBSET Txs]
    BY <1>1 DEF FreeBuddy, JobOK
<1>3. more' \in [Accounts -> BOOLEAN]
    BY DEF FreeBuddy, JobOK
<1>4. /\ DOMAIN page' = Accounts /\ \A a \in Accounts : IsRows(page'[a])
      /\ DOMAIN due' = Accounts /\ \A a \in Accounts : IsRows(due'[a])
    BY NoRowsAreRows DEF FreeBuddy, JobOK
<1> QED BY <1>2, <1>3, <1>4 DEF JobOK

LEMMA GotoType ==
    ASSUME JobOK, NEW a \in Accounts, NEW where \in Stages, Goto(a, where)
    PROVE  pc' \in [Accounts -> Stages]
BY DEF JobOK, Goto

LEMMA PerformSynchronizationType ==
    ASSUME TypeOK, NEW a \in Accounts, PerformSynchronization(a)
    PROVE  TypeOK'
<1> USE TypeParts, TypePartsNext DEF PerformSynchronization
<1>1. pc' \in [Accounts -> Stages]
    BY GotoType DEF Stages
<1>2. state' \in [Accounts -> States]
  <2>1. PICK b \in StartingBlock(a) :
            state' = [state EXCEPT ![a] = [saved[a] EXCEPT !.block = b]]
    OBVIOUS
  <2>2. b \in BlockRefs
    BY StartingBlockType
  <2>3. [saved[a] EXCEPT !.block = b] \in States
    BY <2>2 DEF DatabaseOK, States
  <2> QED BY <2>1, <2>3 DEF JobOK
<1>3. toDrop' \in [Accounts -> SUBSET Txs]
    BY DEF JobOK, Own
<1>4. DOMAIN due' = Accounts /\ \A c \in Accounts : IsRows(due'[c])
  <2>1. IsRows([t \in {u \in Own(a) : mined[u] # NoBlock} |-> mined[t]])
    BY DEF IsRows, Own, ExplorerOK
  <2> QED BY <2>1 DEF JobOK
<1>5. JobOK'
    BY <1>1, <1>2, <1>3, <1>4 DEF JobOK
<1>6. RestOK'
    BY DEF RestOK, pushVars, boundVars
<1> QED BY <1>5, <1>6, SameExplorer, SameDatabase

LEMMA CurrentBlockType ==
    ASSUME TypeOK, NEW a \in Accounts, AnswerCurrentBlock(a) \/ UpdateCurrentBlock(a)
    PROVE  TypeOK'
<1> USE TypeParts, TypePartsNext
<1>1. CASE AnswerCurrentBlock(a)
  <2>1. chain # <<>> => <<Len(chain), chain[Len(chain)]>> \in Blocks
    <3>1. chain # <<>> => Len(chain) \in 1..Len(chain)
        BY EmptySeq, LenProperties DEF ExplorerOK
    <3> QED BY <3>1, ChainType
  <2>2. head' \in [Accounts -> Blocks \cup {Asked, NotAsked}]
    BY <1>1, <2>1 DEF AnswerCurrentBlock, RestOK
  <2>3. RestOK'
    BY <1>1, <2>2 DEF AnswerCurrentBlock, RestOK, pushVars, boundVars
  <2> QED BY <1>1, <2>3, SameExplorer, SameDatabase, SameJob DEF AnswerCurrentBlock
<1>2. CASE UpdateCurrentBlock(a)
  <2>1. RestOK'
    BY <1>2 DEF UpdateCurrentBlock, RestOK, pushVars, boundVars
  <2>2. DatabaseOK'
    BY <1>2 DEF UpdateCurrentBlock, DatabaseOK
  <2> QED BY <1>2, <2>1, <2>2, SameExplorer, SameJob DEF UpdateCurrentBlock
<1> QED BY <1>1, <1>2

LEMMA AnswerType ==
    ASSUME TypeOK, NEW a \in Accounts,
           AnswerTransactions(a) \/ RefuseBlock(a) \/ RequestFails(a) \/ SwallowError(a)
    PROVE  TypeOK'
<1> USE TypeParts, TypePartsNext
<1>1. CASE AnswerTransactions(a)
  <2> DEFINE list == Listed(a, state[a].block)
  <2>1. PICK S \in SUBSET DOMAIN list :
            /\ page' = [page EXCEPT ![a] = [t \in S |-> list[t]]]
            /\ more' = [more EXCEPT ![a] = S # DOMAIN list]
    BY <1>1 DEF AnswerTransactions
  <2>2. IsRows([t \in S |-> list[t]])
    BY DEF Listed, IsRows, Own, ExplorerOK
  <2> HIDE DEF list
  <2>3. DOMAIN page' = Accounts /\ \A c \in Accounts : IsRows(page'[c])
    BY <2>1, <2>2 DEF JobOK
  <2>4. more' \in [Accounts -> BOOLEAN]
    BY <2>1 DEF JobOK
  <2>5. pc' \in [Accounts -> Stages]
    BY <1>1, GotoType DEF AnswerTransactions, Stages
  <2>6. JobOK'
    BY <1>1, <2>3, <2>4, <2>5 DEF AnswerTransactions, JobOK
  <2> QED BY <1>1, <2>6, SameExplorer, SameDatabase, SameRest DEF AnswerTransactions
<1>2. CASE RefuseBlock(a)
  <2>1. pc' \in [Accounts -> Stages]
    BY <1>2, GotoType DEF RefuseBlock, Stages
  <2>2. JobOK'
    BY <1>2, <2>1 DEF RefuseBlock, JobOK
  <2> QED BY <1>2, <2>2, SameExplorer, SameDatabase, SameRest DEF RefuseBlock
<1>3. CASE RequestFails(a)
  <2>1. pc' \in [Accounts -> Stages]
    BY <1>3, GotoType DEF RequestFails, Stages
  <2>2. JobOK'
    BY <1>3, <2>1 DEF RequestFails, JobOK
  <2>3. RestOK'
    BY <1>3, BoundsAssumption DEF RequestFails, RestOK, pushVars
  <2> QED BY <1>3, <2>2, <2>3, SameExplorer, SameDatabase DEF RequestFails
<1>4. CASE SwallowError(a)
  <2>1. pc' \in [Accounts -> Stages]
    BY <1>4, GotoType DEF SwallowError, Stages
  <2>2. JobOK'
    BY <1>4, <2>1 DEF SwallowError, JobOK
  <2> QED BY <1>4, <2>2, SameExplorer, SameDatabase, SameRest DEF SwallowError
<1> QED BY <1>1, <1>2, <1>3, <1>4

LEMMA PageDoneType ==
    ASSUME JobOK, NEW a \in Accounts,
           toDrop' = [toDrop EXCEPT ![a] = @ \ DOMAIN page[a]],
           page' = [page EXCEPT ![a] = NoRows],
           more' = [more EXCEPT ![a] = FALSE]
    PROVE  /\ toDrop' \in [Accounts -> SUBSET Txs]
           /\ DOMAIN page' = Accounts /\ \A c \in Accounts : IsRows(page'[c])
           /\ more' \in [Accounts -> BOOLEAN]
<1>1. toDrop[a] \ DOMAIN page[a] \in SUBSET Txs
    BY DEF JobOK
<1> QED BY <1>1, NoRowsAreRows DEF JobOK

LEMMA InsertPageType ==
    ASSUME TypeOK, NEW a \in Accounts, InsertPage(a)
    PROVE  TypeOK'
<1> USE TypeParts, TypePartsNext
<1>1. PICK b \in BlockAfter(a) :
        /\ state' = [state EXCEPT ![a] = StateAfter(a, b)]
        /\ saved' = IF PageBlocks(a) = {} THEN saved
                    ELSE [saved EXCEPT ![a] = StateAfter(a, b)]
    BY DEF InsertPage
<1>2. StateAfter(a, b) \in States
    BY BlockAfterType, StateAfterType
<1>3. state' \in [Accounts -> States] /\ saved' \in [Accounts -> States]
    BY <1>1, <1>2 DEF JobOK, DatabaseOK
<1>4. pc' \in [Accounts -> Stages]
    BY GotoType DEF InsertPage, Stages
<1>5. JobOK'
    BY <1>3, <1>4, PageDoneType DEF InsertPage, JobOK
<1>6. IsRows(page[a])
    BY DEF JobOK
<1>7. DatabaseOK'
    BY <1>3, <1>6, BulkInsertType DEF InsertPage, DatabaseOK
<1> QED BY <1>5, <1>7, SameExplorer, SameRest DEF InsertPage

LEMMA InsertFailsType ==
    ASSUME TypeOK, NEW a \in Accounts, InsertFails(a)
    PROVE  TypeOK'
<1> USE TypeParts, TypePartsNext
<1>1. StateAfter(a, state[a].block) \in States
    BY StateAfterType DEF JobOK, States
<1>2. state' \in [Accounts -> States]
    BY <1>1 DEF InsertFails, JobOK
<1>3. pc' \in [Accounts -> Stages]
    BY GotoType DEF InsertFails, Stages
<1>4. JobOK'
    BY <1>2, <1>3, PageDoneType DEF InsertFails, JobOK
<1>5. RestOK'
    BY BoundsAssumption DEF InsertFails, RestOK, pushVars
<1> QED BY <1>4, <1>5, SameExplorer, SameDatabase DEF InsertFails

LEMMA SaveStateType ==
    ASSUME TypeOK, NEW a \in Accounts, SaveState(a)
    PROVE  TypeOK'
<1> USE TypeParts, TypePartsNext
<1>1. pc' \in [Accounts -> Stages]
    BY GotoType DEF SaveState, Stages
<1>2. JobOK'
    BY <1>1 DEF SaveState, JobOK
<1>3. DatabaseOK'
    BY DEF SaveState, DatabaseOK, databaseVars, JobOK
<1> QED BY <1>2, <1>3, SameExplorer, SameRest DEF SaveState

LEMMA RecoverType ==
    ASSUME TypeOK, NEW a \in Accounts, RecoverFromReorganization(a)
    PROVE  TypeOK'
<1> USE TypeParts, TypePartsNext DEF RecoverFromReorganization
<1>1. blocks' \subseteq Blocks /\ IsRows(rows') /\ state' \in [Accounts -> States]
  <2>1. CASE DeleteBlocks(Doomed(a)) /\ \E b \in LastBlock(blocks') :
                                          state' = [state EXCEPT ![a].block = b]
    <3>1. blocks' \subseteq Blocks /\ IsRows(rows')
        BY <2>1, DeleteBlocksType
    <3>2. PICK b \in LastBlock(blocks') : state' = [state EXCEPT ![a].block = b]
        BY <2>1
    <3>3. b \in BlockRefs
        BY <3>1, LastBlockType
    <3>4. [state[a] EXCEPT !.block = b] \in States
        BY <3>3 DEF JobOK, States
    <3> QED BY <3>1, <3>2, <3>4 DEF JobOK
  <2>2. CASE UNCHANGED <<databaseVars, state>>
    BY <2>2 DEF databaseVars, DatabaseOK, JobOK
  <2> QED BY <2>1, <2>2
<1>2. saved' \in [Accounts -> States]
    BY <1>1 DEF DatabaseOK
<1>3. pc' \in [Accounts -> Stages]
    BY GotoType DEF Stages
<1>4. JobOK'
    BY <1>1, <1>3 DEF JobOK
<1>5. DatabaseOK'
    BY <1>1, <1>2 DEF DatabaseOK
<1> QED BY <1>4, <1>5, SameExplorer, SameRest

LEMMA SynchronizeMempoolType ==
    ASSUME TypeOK, NEW a \in Accounts, SynchronizeMempool(a)
    PROVE  TypeOK'
<1> USE TypeParts, TypePartsNext DEF SynchronizeMempool
<1>1. JobOK'
    BY GotoType, FreeBuddyType DEF Stages
<1>2. DatabaseOK'
    BY WithoutRows DEF DatabaseOK
<1> QED BY <1>1, <1>2, SameExplorer, SameRest

LEMMA ApplicationType ==
    ASSUME TypeOK,
           \/ \E t \in Txs : OptimisticUpdate(t)
           \/ \E a \in Accounts, h \in 1..MaxHeight : EraseDataSince(a, h)
    PROVE  TypeOK'
<1> USE TypeParts, TypePartsNext
<1>1. ASSUME NEW t \in Txs, OptimisticUpdate(t)
      PROVE  TypeOK'
  <2>1. IsRows([u \in {t} |-> NoBlock])
    BY DEF IsRows, BlockRefs
  <2>2. DatabaseOK'
    BY <1>1, <2>1, BulkInsertType DEF OptimisticUpdate, DatabaseOK
  <2>3. RestOK'
    BY <1>1 DEF OptimisticUpdate, RestOK, boundVars
  <2> QED BY <1>1, <2>2, <2>3, SameExplorer, SameJob DEF OptimisticUpdate
<1>2. ASSUME NEW a \in Accounts, NEW h \in 1..MaxHeight, EraseDataSince(a, h)
      PROVE  TypeOK'
  <2>1. PICK b \in LastBlock({c \in blocks : c[1] < h}) :
            saved' = IF saved[a].block[1] > b[1]
                     THEN [saved EXCEPT ![a].block = b] ELSE saved
    BY <1>2 DEF EraseDataSince
  <2>2. b \in BlockRefs
    BY LastBlockType DEF DatabaseOK
  <2>3. [saved[a] EXCEPT !.block = b] \in States
    BY <2>2 DEF DatabaseOK, States
  <2>4. saved' \in [Accounts -> States]
    BY <2>1, <2>3 DEF DatabaseOK
  <2>5. DatabaseOK'
    BY <1>2, <2>4, WithoutRows DEF EraseDataSince, DatabaseOK
  <2>6. RestOK'
    BY <1>2, BoundsAssumption DEF EraseDataSince, RestOK, pushVars
  <2> QED BY <1>2, <2>5, <2>6, SameExplorer, SameJob DEF EraseDataSince
<1> QED BY <1>1, <1>2

LEMMA DieType ==
    ASSUME TypeOK, Die, DatabaseOK'
    PROVE  TypeOK'
<1> USE TypeParts, TypePartsNext DEF Die
<1>1. pc' \in [Accounts -> Stages]
    BY DEF Stages
<1>2. JobOK'
    BY <1>1, FreeBuddyType
<1>3. RestOK'
    BY BoundsAssumption DEF RestOK
<1> QED BY <1>2, <1>3, SameExplorer

LEMMA CrashType ==
    ASSUME TypeOK, Crash \/ \E a \in Accounts : CrashInInsert(a) \/ CrashInRecovery(a)
    PROVE  TypeOK'
<1> USE TypeParts, TypePartsNext
<1>1. CASE Crash
    BY <1>1, DieType, SameDatabase DEF Crash
<1>2. ASSUME NEW a \in Accounts, CrashInInsert(a)
      PROVE  TypeOK'
  <2>1. DatabaseOK'
    BY <1>2, BulkInsertType DEF CrashInInsert, JobOK, DatabaseOK
  <2> QED BY <1>2, <2>1, DieType DEF CrashInInsert
<1>3. ASSUME NEW a \in Accounts, CrashInRecovery(a)
      PROVE  TypeOK'
  <2>1. DatabaseOK'
    BY <1>3, DeleteBlocksType DEF CrashInRecovery, DatabaseOK
  <2> QED BY <1>3, <2>1, DieType DEF CrashInRecovery
<1> QED BY <1>1, <1>2, <1>3

LEMMA TypeNext == TypeOK /\ [Next]_vars => TypeOK'
<1> SUFFICES ASSUME TypeOK, [Next]_vars
             PROVE  TypeOK'
    OBVIOUS
<1>1. CASE UNCHANGED vars
    BY <1>1, TypeParts, TypePartsNext, SameExplorer, SameDatabase, SameJob, SameRest DEF vars
<1>2. CASE \E a \in Accounts : Continue(a)
    BY <1>2, AnswerType, InsertPageType, SaveStateType, RecoverType,
       SynchronizeMempoolType DEF Continue
<1> QED BY <1>1, <1>2, NetworkType, PerformSynchronizationType, CurrentBlockType,
           AnswerType, InsertFailsType, ApplicationType, CrashType DEF Next

\* Every variable keeps its type.
THEOREM TypeCorrect == Spec => []TypeOK
<1> QED BY TypeInit, TypeNext, PTL DEF Spec

-----------------------------------------------------------------------------
(* Nothing is skipped, in a pool with one account whose data is erased only *)
(* between its jobs.                                                       *)

\* The transactions in a block that no broadcast took out of it.
Mined == [t \in {u \in Txs \ unmined : mined[u] # NoBlock} |-> mined[t]]

\* Whatever of N is below a block of the chain C is in R, with its block.
Complete(b, R, C, N) ==
    b \in C =>
        \A t \in DOMAIN N : N[t][1] < b[1] => t \in DOMAIN R /\ R[t] = N[t]

\* R is complete below the blocks of S, and below those of K that are lower than
\* one of S: a recovery, an erasure and a start without the saved block fall back
\* to these.
Covers(R, S, K, C, N) ==
    \A s \in S :
        /\ Complete(s, R, C, N)
        /\ \A b \in K : b[1] < s[1] => Complete(b, R, C, N)

\* The blocks a synchronization may start from, now or after a crash.
Starts(a) ==
    {NoBlock, saved[a].block, state[a].block} \cup {rows[t] : t \in DOMAIN rows}

\* The blocks that are in the table, or will be.
Known(a) == blocks \cup {head[a], Asked, NotAsked}

\* A block that was seen is not above a chain of height n, nor of a fork after f.
WasThere(b, n, f) == b[1] = 0 \/ (b[1] <= n /\ b[2] <= f)

ExplorerSound ==
    /\ \A t \in Txs : mined[t] \in ChainBlocks \cup {NoBlock}
    /\ \A h \in 1..Len(chain) : chain[h] <= reorgs

Seen(a) ==
    \A b \in Starts(a) \cup Known(a) \cup PageBlocks(a) : WasThere(b, Len(chain), reorgs)

\* So it is now, and when the page that was read has been inserted.
RowsCover(a) == Covers(rows, Starts(a), Known(a), ChainBlocks, Mined)
PageCovers(a) ==
    Covers(Over(page[a], rows), Starts(a) \cup PageBlocks(a), Known(a),
           ChainBlocks, Mined)

JobSound(a) ==
    /\ state[a].block \in blocks \cup {NoBlock}
    /\ pc[a] = "reorganized" => state[a].block \notin ChainBlocks \cup {NoBlock}
    /\ pc[a] # "page" => page[a] = NoRows
    /\ pc[a] = "idle" => state[a].block = NoBlock
    /\ \A t \in toDrop[a] \cap DOMAIN rows : rows[t] = NoBlock

SkipsNothing(a) ==
    /\ ExplorerSound /\ Seen(a) /\ RowsCover(a) /\ PageCovers(a) /\ JobSound(a)

-----------------------------------------------------------------------------
LEMMA CoversLess ==
    ASSUME NEW R, NEW S, NEW K, NEW C, NEW N, Covers(R, S, K, C, N),
           NEW S2 \in SUBSET S, NEW K2 \in SUBSET K
    PROVE  Covers(R, S2, K2, C, N)
BY DEF Covers

\* A block that R is complete below may come into the table.
LEMMA CoversKnown ==
    ASSUME NEW R, NEW S, NEW K, NEW C, NEW N, Covers(R, S, K, C, N),
           NEW K2 \in SUBSET (K \cup S)
    PROVE  Covers(R, S, K2, C, N)
BY DEF Covers

\* Other rows that agree on what is in a block.
LEMMA CoversRows ==
    ASSUME NEW R, NEW S, NEW K, NEW C, NEW N, Covers(R, S, K, C, N), NEW R2,
           \A t \in DOMAIN N :
                t \in DOMAIN R /\ R[t] = N[t] => t \in DOMAIN R2 /\ R2[t] = N[t]
    PROVE  Covers(R2, S, K, C, N)
BY DEF Covers, Complete

\* A chain in which what is below the known blocks is as it was.
LEMMA CoversChain ==
    ASSUME NEW R, NEW S, NEW K, NEW C, NEW N, Covers(R, S, K, C, N), NEW C2, NEW N2,
           \A b \in S \cup K : b \in C2 =>
                /\ b \in C
                /\ \A t \in DOMAIN N2 :
                        N2[t][1] < b[1] => t \in DOMAIN N /\ N[t] = N2[t]
    PROVE  Covers(R, S, K, C2, N2)
BY DEF Covers, Complete

\* Inserting nothing changes nothing.
LEMMA CoversNoRows ==
    ASSUME NEW R, NEW S, NEW K, NEW C, NEW N
    PROVE  Covers(Over(NoRows, R), S, K, C, N) <=> Covers(R, S, K, C, N)
<1>1. /\ DOMAIN Over(NoRows, R) = DOMAIN R
      /\ \A t \in DOMAIN R : Over(NoRows, R)[t] = R[t]
    BY DEF Over, NoRows
<1> QED BY <1>1 DEF Covers, Complete

LEMMA BlockRefsType ==
    \A b \in BlockRefs \cup {Asked, NotAsked} :
        b = <<b[1], b[2]>> /\ b[1] \in Nat /\ b[2] \in Nat
BY BoundsAssumption DEF BlockRefs, Blocks, NoBlock, Asked, NotAsked

LEMMA StartsType ==
    ASSUME TypeOK, NEW a \in Accounts
    PROVE  /\ Starts(a) \subseteq BlockRefs
           /\ Known(a) \subseteq BlockRefs \cup {Asked, NotAsked}
           /\ PageBlocks(a) \subseteq Blocks
<1>1. saved[a].block \in BlockRefs /\ state[a].block \in BlockRefs
    BY DEF TypeOK, States
<1>2. {rows[t] : t \in DOMAIN rows} \subseteq BlockRefs
    BY DEF TypeOK, IsRows
<1>3. head[a] \in Blocks \cup {Asked, NotAsked} /\ blocks \subseteq Blocks
    BY DEF TypeOK
<1> QED BY <1>1, <1>2, <1>3, BlockAfterType DEF Starts, Known, BlockRefs

LEMMA MinedType ==
    ASSUME TypeOK
    PROVE  /\ DOMAIN Mined = {t \in Txs \ unmined : mined[t] # NoBlock}
           /\ \A t \in DOMAIN Mined : Mined[t] = mined[t] /\ mined[t] \in Blocks
BY DEF Mined, TypeOK, BlockRefs

LEMMA ChainTop ==
    ASSUME TypeOK
    PROVE  Len(chain) \in Nat /\ \A b \in ChainBlocks : b[1] \in 1..Len(chain)
<1>1. Len(chain) \in Nat
    BY LenProperties DEF TypeOK
<1> QED BY <1>1 DEF ChainBlocks

\* When a block is added, or the chain is reorganized, a block that was seen
\* before is of the new chain only if it was of the old one, and what is below
\* it stays as it was.
Persists(b) ==
    b \in ChainBlocks' =>
        /\ b \in ChainBlocks
        /\ \A t \in Txs : mined'[t] # NoBlock /\ mined'[t][1] < b[1] =>
                            mined'[t] = mined[t]

LEMMA MinePersists ==
    ASSUME TypeOK, Mine, NEW b \in BlockRefs \cup {Asked, NotAsked},
           WasThere(b, Len(chain), reorgs)
    PROVE  Persists(b)
<1> SUFFICES ASSUME b \in ChainBlocks'
             PROVE  /\ b \in ChainBlocks
                    /\ \A t \in Txs : mined'[t] # NoBlock /\ mined'[t][1] < b[1] =>
                            mined'[t] = mined[t]
    BY DEF Persists
<1>1. /\ Len(chain) \in Nat
      /\ Len(chain') = Len(chain) + 1
      /\ \A h \in 1..Len(chain) : chain'[h] = chain[h]
    BY LenProperties, AppendProperties DEF TypeOK, Mine
<1>2. PICK h \in 1..Len(chain') : b = <<h, chain'[h]>>
    BY DEF ChainBlocks
<1>3. h \in 1..Len(chain) /\ b[1] = h
    BY <1>1, <1>2 DEF WasThere
<1>4. b \in ChainBlocks
    BY <1>1, <1>2, <1>3 DEF ChainBlocks
<1>5. PICK S \in SUBSET mempool :
            mined' = [t \in Txs |->
                        IF t \in S THEN <<Len(chain'), reorgs>> ELSE mined[t]]
    BY DEF Mine
<1>6. \A t \in Txs : mined'[t] # NoBlock /\ mined'[t][1] < b[1] =>
                            mined'[t] = mined[t]
    BY <1>1, <1>3, <1>5
<1> QED BY <1>4, <1>6

LEMMA ReorganizeParts ==
    ASSUME TypeOK, Reorganize
    PROVE  /\ reorgs' = reorgs + 1 /\ reorgs \in Nat
           /\ Len(chain) \in Nat /\ Len(chain') = Len(chain)
           /\ \E k \in 0..(Len(chain) - 1) :
                /\ \A h \in 1..Len(chain) :
                        chain'[h] = IF h <= k THEN chain[h] ELSE reorgs'
                /\ \A t \in Txs :
                        IF mined[t][1] > k
                        THEN mined'[t] \in {<<h, reorgs'>> : h \in (k + 1)..Len(chain)}
                                                \cup {NoBlock}
                        ELSE mined'[t] = mined[t]
<1>1. Len(chain) \in Nat
    BY LenProperties DEF TypeOK
<1>2. PICK k \in 0..(Len(chain) - 1) :
        /\ chain' = [h \in 1..Len(chain) |-> IF h <= k THEN chain[h] ELSE reorgs']
        /\ \E place \in [{t \in Txs : mined[t][1] > k} ->
                         {<<h, reorgs'>> : h \in (k + 1)..Len(chain)} \cup {NoBlock}] :
            mined' = Over(place, mined)
    BY DEF Reorganize
<1>3. PICK place \in [{t \in Txs : mined[t][1] > k} ->
                     {<<h, reorgs'>> : h \in (k + 1)..Len(chain)} \cup {NoBlock}] :
            mined' = Over(place, mined)
    BY <1>2
<1>4. \A t \in Txs : IF mined[t][1] > k
                     THEN mined'[t] \in {<<h, reorgs'>> : h \in (k + 1)..Len(chain)}
                                            \cup {NoBlock}
                     ELSE mined'[t] = mined[t]
    BY <1>3 DEF Over, TypeOK
<1>5. Len(chain') = Len(chain) /\ \A h \in 1..Len(chain) :
                chain'[h] = IF h <= k THEN chain[h] ELSE reorgs'
    BY <1>1, <1>2
<1>6. reorgs' = reorgs + 1 /\ reorgs \in Nat
    BY DEF Reorganize, TypeOK
<1>7. Len(chain') = Len(chain)
    BY <1>5
<1> QED BY <1>1, <1>4, <1>5, <1>6, <1>7

LEMMA ReorganizePersists ==
    ASSUME TypeOK, ExplorerSound, Reorganize,
           NEW b \in BlockRefs \cup {Asked, NotAsked},
           WasThere(b, Len(chain), reorgs)
    PROVE  Persists(b)
<1> SUFFICES ASSUME b \in ChainBlocks'
             PROVE  /\ b \in ChainBlocks
                    /\ \A t \in Txs : mined'[t] # NoBlock /\ mined'[t][1] < b[1] =>
                            mined'[t] = mined[t]
    BY DEF Persists
<1>1. PICK k \in 0..(Len(chain) - 1) :
        /\ \A h \in 1..Len(chain) : chain'[h] = IF h <= k THEN chain[h] ELSE reorgs'
        /\ \A t \in Txs :
                IF mined[t][1] > k
                THEN mined'[t] \in {<<h, reorgs'>> : h \in (k + 1)..Len(chain)}
                                        \cup {NoBlock}
                ELSE mined'[t] = mined[t]
    BY ReorganizeParts
<1>2. PICK h \in 1..Len(chain) : b = <<h, chain'[h]>>
    BY ReorganizeParts DEF ChainBlocks
<1>3. h <= k
    BY <1>1, <1>2, ReorganizeParts, BlockRefsType DEF WasThere
<1>4. b \in ChainBlocks
    BY <1>1, <1>2, <1>3 DEF ChainBlocks
<1>5. ASSUME NEW t \in Txs, mined'[t] # NoBlock, mined'[t][1] < b[1]
      PROVE  mined'[t] = mined[t]
  <2>1. CASE mined[t][1] > k
    <3>1. PICK g \in (k + 1)..Len(chain) : mined'[t] = <<g, reorgs'>>
        BY <1>1, <1>5, <2>1
    <3> QED BY <1>2, <1>3, <1>5, <3>1, ReorganizeParts
  <2> QED BY <1>1, <2>1
<1> QED BY <1>4, <1>5

\* Everything that was seen is covered as before.
LEMMA NetworkCovers ==
    ASSUME TypeOK, UNCHANGED unmined,
           NEW R, NEW S, NEW K, Covers(R, S, K, ChainBlocks, Mined),
           \A b \in S \cup K : Persists(b)
    PROVE  Covers(R, S, K, ChainBlocks', Mined')
<1>1. /\ DOMAIN Mined' = {t \in Txs \ unmined : mined'[t] # NoBlock}
      /\ \A t \in DOMAIN Mined' : Mined'[t] = mined'[t]
    BY DEF Mined
<1>2. \A b \in S \cup K : b \in ChainBlocks' =>
        /\ b \in ChainBlocks
        /\ \A t \in DOMAIN Mined' :
                Mined'[t][1] < b[1] => t \in DOMAIN Mined /\ Mined[t] = Mined'[t]
    BY <1>1, MinedType DEF Persists
<1> QED BY <1>2, CoversChain

LEMMA MineSound ==
    ASSUME TypeOK, ExplorerSound, Mine
    PROVE  ExplorerSound'
<1>1. /\ Len(chain) \in Nat /\ reorgs \in Nat
      /\ Len(chain') = Len(chain) + 1
      /\ \A h \in 1..Len(chain) : chain'[h] = chain[h]
      /\ chain'[Len(chain')] = reorgs /\ reorgs' = reorgs
    BY LenProperties, AppendProperties DEF TypeOK, Mine
<1>2. ChainBlocks' = ChainBlocks \cup {<<Len(chain'), reorgs>>}
    BY <1>1 DEF ChainBlocks
<1>3. PICK S \in SUBSET mempool :
            mined' = [t \in Txs |->
                        IF t \in S THEN <<Len(chain'), reorgs>> ELSE mined[t]]
    BY DEF Mine
<1>4. \A t \in Txs : mined'[t] \in ChainBlocks' \cup {NoBlock}
    BY <1>2, <1>3 DEF ExplorerSound
<1>5. \A h \in 1..Len(chain') : chain'[h] <= reorgs'
    BY <1>1 DEF ExplorerSound
<1> QED BY <1>4, <1>5 DEF ExplorerSound

LEMMA ReorganizeSound ==
    ASSUME TypeOK, ExplorerSound, Reorganize
    PROVE  ExplorerSound'
<1>1. PICK k \in 0..(Len(chain) - 1) :
        /\ \A h \in 1..Len(chain) : chain'[h] = IF h <= k THEN chain[h] ELSE reorgs'
        /\ \A t \in Txs :
                IF mined[t][1] > k
                THEN mined'[t] \in {<<h, reorgs'>> : h \in (k + 1)..Len(chain)}
                                        \cup {NoBlock}
                ELSE mined'[t] = mined[t]
    BY ReorganizeParts
<1>2. ChainBlocks' = {<<h, chain'[h]>> : h \in 1..Len(chain)}
    BY ReorganizeParts DEF ChainBlocks
<1>3. ASSUME NEW t \in Txs
      PROVE  mined'[t] \in ChainBlocks' \cup {NoBlock}
  <2>1. CASE mined[t][1] > k
    <3>1. ASSUME NEW h \in (k + 1)..Len(chain), mined'[t] = <<h, reorgs'>>
          PROVE  mined'[t] \in ChainBlocks'
        BY <1>1, <1>2, <3>1, ReorganizeParts
    <3> QED BY <1>1, <2>1, <3>1
  <2>2. CASE ~(mined[t][1] > k)
    <3>1. mined'[t] = mined[t]
        BY <1>1, <2>2
    <3>2. CASE mined[t] \in ChainBlocks
      <4>1. PICK h \in 1..Len(chain) : mined[t] = <<h, chain[h]>>
        BY <3>2 DEF ChainBlocks
      <4>2. chain'[h] = chain[h]
        BY <1>1, <2>2, <4>1, ReorganizeParts
      <4> QED BY <1>2, <3>1, <4>1, <4>2
    <3> QED BY <3>1, <3>2 DEF ExplorerSound
  <2> QED BY <2>1, <2>2
<1>4. ASSUME NEW h \in 1..Len(chain')
      PROVE  chain'[h] <= reorgs'
  <2>1. h \in 1..Len(chain)
    BY ReorganizeParts
  <2>2. chain[h] <= reorgs /\ chain[h] \in 0..MaxReorgs
    BY <2>1, ElementOfSeq DEF ExplorerSound, TypeOK
  <2> QED BY <1>1, <2>1, <2>2, ReorganizeParts
<1> QED BY <1>3, <1>4 DEF ExplorerSound

LEMMA NetworkSkipsNothing ==
    ASSUME TypeOK, NEW a \in Accounts, SkipsNothing(a), Mine \/ Reorganize
    PROVE  SkipsNothing(a)'
<1> DEFINE Some == Starts(a) \cup Known(a) \cup PageBlocks(a)
<1>1. UNCHANGED <<databaseVars, saved, jobVars, head, pushVars>> /\ ExplorerSound'
    BY MineSound, ReorganizeSound DEF Mine, Reorganize, SkipsNothing
<1>2. /\ Len(chain) \in Nat /\ reorgs \in Nat
      /\ Len(chain') \in Nat /\ Len(chain') >= Len(chain)
      /\ reorgs' \in Nat /\ reorgs' >= reorgs
  <2>1. CASE Mine
    <3>1. Len(chain) \in Nat /\ Len(chain') = Len(chain) + 1
        BY <2>1, LenProperties, AppendProperties DEF TypeOK, Mine
    <3>2. reorgs \in Nat /\ reorgs' = reorgs
        BY <2>1 DEF TypeOK, Mine
    <3> QED BY <3>1, <3>2
  <2>2. CASE Reorganize
    BY <2>2, ReorganizeParts
  <2> QED BY <2>1, <2>2
<1>3. /\ Starts(a)' = Starts(a) /\ Known(a)' = Known(a)
      /\ PageBlocks(a)' = PageBlocks(a)
      /\ Over(page[a], rows)' = Over(page[a], rows)
      /\ rows' = rows /\ UNCHANGED unmined
    BY <1>1 DEF Starts, Known, PageBlocks, Over, databaseVars, jobVars, pushVars
<1>4. Some \subseteq BlockRefs \cup {Asked, NotAsked}
    BY StartsType DEF BlockRefs
<1>5. \A b \in Some : WasThere(b, Len(chain), reorgs)
    BY DEF SkipsNothing, Seen
<1>6. \A b \in Some : Persists(b)
    BY <1>4, <1>5, MinePersists, ReorganizePersists DEF SkipsNothing
<1>7. Seen(a)'
  <2>1. ASSUME NEW b \in Some
        PROVE  WasThere(b, Len(chain'), reorgs')
    BY <1>2, <1>4, <1>5, BlockRefsType DEF WasThere
  <2> QED BY <1>3, <2>1 DEF Seen
<1>8. RowsCover(a)'
  <2>1. Covers(rows, Starts(a), Known(a), ChainBlocks', Mined')
    BY <1>3, <1>6, NetworkCovers DEF SkipsNothing, RowsCover
  <2> QED BY <1>3, <2>1 DEF RowsCover
<1>9. PageCovers(a)'
  <2>1. Covers(Over(page[a], rows), Starts(a) \cup PageBlocks(a), Known(a),
               ChainBlocks', Mined')
    BY <1>3, <1>6, NetworkCovers DEF SkipsNothing, PageCovers
  <2> QED BY <1>3, <2>1 DEF PageCovers
<1>10. JobSound(a)'
  <2>1. state[a].block \in ChainBlocks' => state[a].block \in ChainBlocks
    BY <1>6 DEF Persists, Starts
  <2> QED BY <1>1, <2>1 DEF SkipsNothing, JobSound, databaseVars, jobVars
<1> QED BY <1>1, <1>7, <1>8, <1>9, <1>10 DEF SkipsNothing

-----------------------------------------------------------------------------
(* The steps that leave the network alone.                                 *)

LEMMA SameChain ==
    ASSUME UNCHANGED explorerVars, UNCHANGED unmined
    PROVE  /\ ChainBlocks' = ChainBlocks /\ Mined' = Mined
           /\ Len(chain') = Len(chain) /\ reorgs' = reorgs
           /\ ExplorerSound => ExplorerSound'
BY DEF explorerVars, ChainBlocks, Mined, ExplorerSound

\* A step that changes no row and brings no block.
LEMMA NothingNew ==
    ASSUME TypeOK, NEW a \in Accounts, SkipsNothing(a),
           UNCHANGED explorerVars, UNCHANGED unmined, UNCHANGED rows,
           page'[a] = page[a] \/ page'[a] = NoRows,
           saved'[a].block \in Starts(a), state'[a].block \in Starts(a),
           blocks' \subseteq Known(a), head'[a] \in Known(a)
    PROVE  ExplorerSound' /\ Seen(a)' /\ RowsCover(a)' /\ PageCovers(a)'
<1>1. Starts(a)' \subseteq Starts(a) /\ Known(a)' \subseteq Known(a)
    BY DEF Starts, Known
<1>2. PageBlocks(a)' \subseteq PageBlocks(a)
    BY DEF PageBlocks, NoRows
<1>3. Seen(a)'
    BY <1>1, <1>2, SameChain DEF SkipsNothing, Seen
<1>4. RowsCover(a)'
  <2>1. Covers(rows, Starts(a)', Known(a)', ChainBlocks, Mined)
    BY <1>1, CoversLess DEF SkipsNothing, RowsCover
  <2> QED BY <2>1, SameChain DEF RowsCover
<1>5. PageCovers(a)'
  <2>1. CASE page'[a] = page[a]
    <3>1. Covers(Over(page[a], rows), (Starts(a) \cup PageBlocks(a))', Known(a)',
                 ChainBlocks, Mined)
        BY <1>1, <1>2, CoversLess DEF SkipsNothing, PageCovers
    <3>2. Over(page[a], rows)' = Over(page[a], rows)
        BY <2>1 DEF Over
    <3> QED BY <3>1, <3>2, SameChain DEF PageCovers
  <2>2. CASE page'[a] = NoRows
    <3>1. PageBlocks(a)' = {}
        BY <2>2 DEF PageBlocks, NoRows
    <3>2. Covers(Over(NoRows, rows'), Starts(a)', Known(a)', ChainBlocks', Mined')
        BY <1>4, CoversNoRows DEF RowsCover
    <3> QED BY <2>2, <3>1, <3>2 DEF PageCovers
  <2> QED BY <2>1, <2>2
<1> QED BY <1>3, <1>4, <1>5, SameChain DEF SkipsNothing

LEMMA PerformSynchronizationSkipsNothing ==
    ASSUME TypeOK, BlocksPresent, NEW a \in Accounts, SkipsNothing(a),
           PerformSynchronization(a)
    PROVE  SkipsNothing(a)'
<1> USE DEF PerformSynchronization
<1>1. PICK b \in StartingBlock(a) :
            state' = [state EXCEPT ![a] = [saved[a] EXCEPT !.block = b]]
    OBVIOUS
<1>2. state'[a].block = b
  <2>1. state'[a] = [saved[a] EXCEPT !.block = b]
    BY <1>1 DEF TypeOK
  <2> QED BY <2>1 DEF TypeOK, States
<1>3. b \in Starts(a) /\ b \in blocks \cup {NoBlock}
  <2>1. CASE saved[a].block # NoBlock /\ saved[a].block \notin blocks
    <3>1. b \in {rows[t] : t \in DOMAIN rows} \cup {NoBlock}
        BY <2>1 DEF StartingBlock, LastBlockWithOperations, Top
    <3> QED BY <3>1 DEF Starts, BlocksPresent
  <2>2. CASE saved[a].block = NoBlock \/ saved[a].block \in blocks
    <3>1. b = saved[a].block
        BY <2>2 DEF StartingBlock
    <3> QED BY <2>2, <3>1 DEF Starts
  <2> QED BY <2>1, <2>2
<1>4. ExplorerSound' /\ Seen(a)' /\ RowsCover(a)' /\ PageCovers(a)'
  <2>1. head'[a] \in Known(a) /\ blocks' \subseteq Known(a)
    BY DEF Known, databaseVars, TypeOK
  <2>2. saved'[a].block \in Starts(a)
    BY DEF Starts
  <2>3. UNCHANGED rows /\ UNCHANGED unmined
    BY DEF databaseVars, pushVars
  <2> QED BY <1>2, <1>3, <2>1, <2>2, <2>3, NothingNew
<1>5. JobSound(a)'
  <2>1. pc'[a] = "fetch"
    BY DEF Goto, TypeOK
  <2>2. \A t \in toDrop'[a] \cap DOMAIN rows' : rows'[t] = NoBlock
    BY DEF TypeOK, databaseVars
  <2>3. page'[a] = NoRows
    BY DEF SkipsNothing, JobSound
  <2> QED BY <1>2, <1>3, <2>1, <2>2, <2>3 DEF JobSound, databaseVars
<1> QED BY <1>4, <1>5 DEF SkipsNothing

LEMMA CurrentBlockSkipsNothing ==
    ASSUME TypeOK, NEW a \in Accounts, SkipsNothing(a),
           AnswerCurrentBlock(a) \/ UpdateCurrentBlock(a)
    PROVE  SkipsNothing(a)'
<1>1. UNCHANGED <<explorerVars, rows, saved, jobVars, pushVars>>
    BY DEF AnswerCurrentBlock, UpdateCurrentBlock, databaseVars
<1>2. blocks \subseteq blocks' /\ JobSound(a)'
  <2>1. blocks \subseteq blocks'
    BY DEF AnswerCurrentBlock, UpdateCurrentBlock, databaseVars
  <2> QED BY <1>1, <2>1, SameChain DEF SkipsNothing, JobSound, jobVars, pushVars
<1>3. saved'[a].block \in Starts(a) /\ state'[a].block \in Starts(a)
      /\ page'[a] = page[a] /\ UNCHANGED unmined
    BY <1>1 DEF Starts, jobVars, pushVars
<1>4. CASE head'[a] \in Known(a) /\ blocks' \subseteq Known(a)
  <2>1. ExplorerSound' /\ Seen(a)' /\ RowsCover(a)' /\ PageCovers(a)'
    BY <1>1, <1>3, <1>4, NothingNew
  <2> QED BY <1>2, <2>1 DEF SkipsNothing
<1>5. CASE chain # <<>> /\ head'[a] = <<Len(chain), chain[Len(chain)]>>
           /\ blocks' = blocks
  \* The current block is no lower than any that was seen.
  <2> DEFINE top == <<Len(chain), chain[Len(chain)]>>
  <2>1. Len(chain) \in 1..Len(chain) /\ Len(chain) \in Nat
    BY <1>5, EmptySeq, LenProperties DEF TypeOK
  <2>2. WasThere(top, Len(chain), reorgs)
    BY <2>1 DEF WasThere, SkipsNothing, ExplorerSound
  <2>3. \A s \in Starts(a) \cup PageBlocks(a) : ~(top[1] < s[1])
    BY <2>1, StartsType, BlockRefsType DEF SkipsNothing, Seen, WasThere, BlockRefs
  <2>4. Known(a)' \subseteq Known(a) \cup {top}
    BY <1>5 DEF Known
  <2>5. /\ Starts(a)' = Starts(a) /\ PageBlocks(a)' = PageBlocks(a)
        /\ Over(page[a], rows)' = Over(page[a], rows)
    BY <1>1 DEF Starts, PageBlocks, Over, jobVars
  <2> HIDE DEF top
  <2>6. Seen(a)'
    BY <1>1, <1>3, <2>2, <2>4, <2>5, SameChain DEF SkipsNothing, Seen
  <2>7. RowsCover(a)'
    <3>1. Covers(rows, Starts(a), Known(a) \cup {top}, ChainBlocks, Mined)
        BY <2>3 DEF SkipsNothing, RowsCover, Covers
    <3> QED BY <1>1, <1>3, <2>4, <2>5, <3>1, SameChain, CoversLess DEF RowsCover
  <2>8. PageCovers(a)'
    <3>1. Covers(Over(page[a], rows), Starts(a) \cup PageBlocks(a),
                 Known(a) \cup {top}, ChainBlocks, Mined)
        BY <2>3 DEF SkipsNothing, PageCovers, Covers
    <3> QED BY <1>1, <1>3, <2>4, <2>5, <3>1, SameChain, CoversLess DEF PageCovers
  <2>9. ExplorerSound'
    BY <1>1, <1>3, SameChain DEF SkipsNothing
  <2> QED BY <1>2, <2>6, <2>7, <2>8, <2>9 DEF SkipsNothing
<1>6. CASE AnswerCurrentBlock(a)
    BY <1>4, <1>5, <1>6 DEF AnswerCurrentBlock, Known, databaseVars, TypeOK
<1>7. CASE UpdateCurrentBlock(a)
    BY <1>4, <1>7 DEF UpdateCurrentBlock, Known, TypeOK
<1> QED BY <1>6, <1>7

\* What a page holds is complete up to its blocks, with the rows that are there.
LEMMA PageComplete ==
    ASSUME TypeOK, NEW a \in Accounts, Accounts = {a}, SkipsNothing(a),
           state[a].block \in ChainBlocks \cup {NoBlock},
           NEW S \in SUBSET DOMAIN Listed(a, state[a].block),
           IsPage(S, Listed(a, state[a].block)),
           NEW new, new = [t \in S |-> Listed(a, state[a].block)[t]]
    PROVE  /\ \A t \in DOMAIN new : t \in Txs /\ new[t] = mined[t]
           /\ \A t \in S : mined[t] # NoBlock =>
                Complete(mined[t], Over(new, rows), ChainBlocks, Mined)
<1> DEFINE from == state[a].block
           list == Listed(a, from)
<1>1. /\ DOMAIN list = {u \in Own(a) : u \in mempool \/
                            (mined[u] # NoBlock /\ mined[u][1] >= from[1])}
      /\ \A t \in DOMAIN list : list[t] = mined[t] /\ t \in Txs
    BY DEF Listed, Own
<1>2. \A t \in Txs : t \in Own(a)
    BY DEF Own, Txs
<1>3. Complete(from, rows, ChainBlocks, Mined)
    BY DEF SkipsNothing, RowsCover, Covers, Starts
<1>4. from[1] \in Nat
    BY BlockRefsType DEF TypeOK, States
<1> HIDE DEF list, from
<1>5. \A t \in DOMAIN new : t \in S /\ t \in Txs /\ new[t] = mined[t]
    BY <1>1 DEF list, from
<1>6. ASSUME NEW t \in S, mined[t] # NoBlock,
             NEW u \in DOMAIN Mined, Mined[u][1] < mined[t][1]
      PROVE  u \in DOMAIN Over(new, rows) /\ Over(new, rows)[u] = Mined[u]
  <2>1. /\ u \in Txs /\ Mined[u] = mined[u] /\ mined[u] \in Blocks
        /\ mined[u] # NoBlock /\ t \in Txs /\ mined[t] \in Blocks
    BY <1>1, <1>6, MinedType DEF TypeOK, BlockRefs, list, from
  <2>2. mined[u][1] \in Nat /\ mined[t][1] \in Nat
    BY <2>1 DEF Blocks
  <2>3. CASE u \in S
    BY <1>5, <2>1, <2>3, <1>1 DEF Over, list, from
  <2>4. CASE u \notin S /\ mined[u][1] < from[1]
    <3>1. from \in ChainBlocks
        BY <1>4, <2>2, <2>4 DEF NoBlock, from
    <3>2. u \in DOMAIN rows /\ rows[u] = Mined[u]
        BY <1>3, <1>6, <2>1, <2>4, <3>1 DEF Complete
    <3> QED BY <1>5, <2>4, <3>2 DEF Over
  <2>5. CASE u \notin S /\ ~(mined[u][1] < from[1])
    <3>1. u \in DOMAIN list
        BY <1>1, <1>2, <1>4, <2>1, <2>2, <2>5
    <3>2. Position(list[t]) <= Position(list[u])
        BY <2>5, <3>1 DEF IsPage, list, from
    <3> QED BY <1>1, <1>6, <2>1, <2>2, <3>1, <3>2 DEF Position, list, from
  <2> QED BY <2>3, <2>4, <2>5
<1> QED BY <1>5, <1>6 DEF Complete

LEMMA AnswerSkipsNothing ==
    ASSUME TypeOK, NEW a \in Accounts, Accounts = {a}, SkipsNothing(a),
           AnswerTransactions(a)
    PROVE  SkipsNothing(a)'
<1> USE DEF AnswerTransactions
<1>1. PICK S \in SUBSET DOMAIN Listed(a, state[a].block) :
        /\ IsPage(S, Listed(a, state[a].block))
        /\ page' = [page EXCEPT ![a] = [t \in S |-> Listed(a, state[a].block)[t]]]
    OBVIOUS
<1> DEFINE new == [t \in S |-> Listed(a, state[a].block)[t]]
<1>2. page'[a] = new
    BY <1>1 DEF TypeOK
<1>3. /\ \A t \in DOMAIN new : t \in Txs /\ new[t] = mined[t]
      /\ \A t \in S : mined[t] # NoBlock =>
            Complete(mined[t], Over(new, rows), ChainBlocks, Mined)
    BY <1>1, PageComplete
<1>4. DOMAIN new = S
    OBVIOUS
<1> HIDE DEF new
<1>5. PageBlocks(a)' = {mined[t] : t \in S} \ {NoBlock}
  <2>1. PageBlocks(a)' = {new[t] : t \in S} \ {NoBlock}
    BY <1>2, <1>4 DEF PageBlocks
  <2>2. {new[t] : t \in S} = {mined[t] : t \in S}
    BY <1>3, <1>4
  <2> QED BY <2>1, <2>2
<1>6. UNCHANGED <<explorerVars, databaseVars, saved, state, toDrop, head, unmined>>
    BY DEF pushVars
<1>7. /\ Starts(a)' = Starts(a) /\ Known(a)' = Known(a) /\ UNCHANGED rows
      /\ ExplorerSound'
    BY <1>6, SameChain DEF Starts, Known, databaseVars, SkipsNothing
<1>8. PageBlocks(a)' \subseteq ChainBlocks
    BY <1>3, <1>4, <1>5 DEF SkipsNothing, ExplorerSound
<1>9. Seen(a)'
  <2>1. \A b \in ChainBlocks : WasThere(b, Len(chain), reorgs)
    BY ChainTop DEF ChainBlocks, SkipsNothing, ExplorerSound, WasThere
  <2> QED BY <1>6, <1>7, <1>8, <2>1, SameChain DEF SkipsNothing, Seen
<1>10. RowsCover(a)'
    BY <1>6, <1>7, SameChain DEF SkipsNothing, RowsCover
<1>11. PageCovers(a)'
  <2>1. Covers(Over(new, rows), Starts(a), Known(a), ChainBlocks, Mined)
    <3>1. \A t \in DOMAIN Mined :
            t \in DOMAIN rows /\ rows[t] = Mined[t] =>
                t \in DOMAIN Over(new, rows) /\ Over(new, rows)[t] = Mined[t]
        BY <1>3, MinedType DEF Over
    <3> QED BY <3>1, CoversRows DEF SkipsNothing, RowsCover
  <2>2. ASSUME NEW p \in PageBlocks(a)'
        PROVE  /\ Complete(p, Over(new, rows), ChainBlocks, Mined)
               /\ \A b \in Known(a) : b[1] < p[1] =>
                    Complete(b, Over(new, rows), ChainBlocks, Mined)
    <3>1. Complete(p, Over(new, rows), ChainBlocks, Mined) /\ p \in ChainBlocks
        BY <1>3, <1>5, <1>8, <2>2
    <3>2. ASSUME NEW b \in Known(a), b[1] < p[1], b \in ChainBlocks,
                 NEW t \in DOMAIN Mined, Mined[t][1] < b[1]
          PROVE  Mined[t][1] < p[1]
      <4>1. b[1] \in Nat /\ p[1] \in Nat /\ Mined[t][1] \in Nat
        BY <3>1, <3>2, ChainTop, MinedType DEF Blocks
      <4> QED BY <3>2, <4>1
    <3> QED BY <3>1, <3>2 DEF Complete
  <2>3. Covers(Over(new, rows), Starts(a) \cup PageBlocks(a)', Known(a),
               ChainBlocks, Mined)
    BY <2>1, <2>2 DEF Covers
  <2> QED BY <1>2, <1>6, <1>7, <2>3, SameChain DEF PageCovers
<1>12. JobSound(a)'
  <2>1. pc'[a] = "page"
    BY DEF Goto, TypeOK
  <2> QED BY <1>6, <2>1 DEF SkipsNothing, JobSound, databaseVars
<1> QED BY <1>7, <1>9, <1>10, <1>11, <1>12 DEF SkipsNothing

\* Once a page is inserted: the rows cover what it held.
LEMMA InsertedCovers ==
    ASSUME TypeOK, NEW a \in Accounts, SkipsNothing(a), BulkInsert(page[a]),
           UNCHANGED explorerVars, UNCHANGED unmined, page'[a] = NoRows,
           saved'[a].block \in Starts(a) \cup PageBlocks(a),
           state'[a].block \in Starts(a) \cup PageBlocks(a),
           head'[a] \in Known(a)
    PROVE  ExplorerSound' /\ Seen(a)' /\ RowsCover(a)' /\ PageCovers(a)'
<1>1. rows' = Over(page[a], rows) /\ blocks' = blocks \cup PageBlocks(a)
    BY DEF BulkInsert, PageBlocks
<1>2. {rows'[t] : t \in DOMAIN rows'} \subseteq Starts(a) \cup PageBlocks(a)
    BY <1>1, OverValues DEF Starts, PageBlocks
<1>3. /\ Starts(a)' \subseteq Starts(a) \cup PageBlocks(a)
      /\ Known(a)' \subseteq Known(a) \cup (Starts(a) \cup PageBlocks(a))
    <2>1. NoBlock \in Starts(a)
        BY DEF Starts
    <2> QED BY <1>1, <1>2, <2>1 DEF Starts, Known
<1>4. PageBlocks(a)' = {}
    BY DEF PageBlocks, NoRows
<1>5. Seen(a)'
    BY <1>3, <1>4, SameChain DEF SkipsNothing, Seen
<1>6. RowsCover(a)'
  <2>1. Covers(rows', Starts(a) \cup PageBlocks(a), Known(a), ChainBlocks, Mined)
    BY <1>1 DEF SkipsNothing, PageCovers
  <2>2. Covers(rows', Starts(a) \cup PageBlocks(a), Known(a)', ChainBlocks, Mined)
    BY <1>3, <2>1, CoversKnown
  <2>3. Covers(rows', Starts(a)', Known(a)', ChainBlocks, Mined)
    BY <1>3, <2>2, CoversLess
  <2> QED BY <2>3, SameChain DEF RowsCover
<1>7. PageCovers(a)'
  <2>1. Covers(Over(NoRows, rows'), Starts(a)', Known(a)', ChainBlocks', Mined')
    BY <1>6, CoversNoRows DEF RowsCover
  <2> QED BY <1>4, <2>1 DEF PageCovers
<1> QED BY <1>5, <1>6, <1>7, SameChain DEF SkipsNothing

LEMMA InsertPageSkipsNothing ==
    ASSUME TypeOK, NEW a \in Accounts, SkipsNothing(a), InsertPage(a)
    PROVE  SkipsNothing(a)'
<1> USE DEF InsertPage
<1>1. PICK b \in BlockAfter(a) :
        /\ state' = [state EXCEPT ![a] = StateAfter(a, b)]
        /\ saved' = IF PageBlocks(a) = {} THEN saved
                    ELSE [saved EXCEPT ![a] = StateAfter(a, b)]
    OBVIOUS
<1>2. state'[a].block = b /\ saved'[a].block \in {b, saved[a].block}
    BY <1>1 DEF StateAfter, TypeOK
<1>3. b = state[a].block \/ b \in PageBlocks(a)
    BY DEF BlockAfter, Top
<1>4. UNCHANGED explorerVars /\ UNCHANGED unmined /\ page'[a] = NoRows
      /\ head'[a] = head[a]
    BY DEF pushVars, TypeOK
<1>5. ExplorerSound' /\ Seen(a)' /\ RowsCover(a)' /\ PageCovers(a)'
  <2>1. {state[a].block, saved[a].block} \subseteq Starts(a) /\ head'[a] \in Known(a)
    BY <1>4 DEF Starts, Known
  <2> QED BY <1>2, <1>3, <1>4, <2>1, InsertedCovers
<1>6. JobSound(a)'
  <2>1. pc'[a] \in {"fetch", "stored"}
    BY DEF Goto, TypeOK
  <2>2. state'[a].block \in blocks' \cup {NoBlock}
    BY <1>2, <1>3 DEF BulkInsert, PageBlocks, SkipsNothing, JobSound
  <2>3. ASSUME NEW t \in toDrop'[a] \cap DOMAIN rows'
        PROVE  rows'[t] = NoBlock
    <3>1. t \in toDrop[a] /\ t \notin DOMAIN page[a]
        BY <2>3 DEF TypeOK
    <3>2. t \in DOMAIN rows /\ rows'[t] = rows[t]
        BY <2>3, <3>1 DEF BulkInsert, Over
    <3> QED BY <3>1, <3>2 DEF SkipsNothing, JobSound
  <2> QED BY <1>4, <2>1, <2>2, <2>3 DEF JobSound
<1> QED BY <1>5, <1>6 DEF SkipsNothing

\* Steps that only move the job on.
LEMMA PlainSkipsNothing ==
    ASSUME TypeOK, NEW a \in Accounts, SkipsNothing(a),
           RefuseBlock(a) \/ RequestFails(a) \/ SaveState(a) \/ SwallowError(a)
               \/ InsertFails(a)
    PROVE  SkipsNothing(a)'
<1>1. /\ UNCHANGED <<explorerVars, databaseVars, head, pushVars>>
      /\ page'[a] = page[a] \/ page'[a] = NoRows
    BY DEF RefuseBlock, RequestFails, SaveState, SwallowError, InsertFails, TypeOK
<1>2. state'[a].block = state[a].block
  <2>1. CASE InsertFails(a)
    <3>1. state'[a] = StateAfter(a, state[a].block)
        BY <2>1 DEF InsertFails, TypeOK
    <3> QED BY <3>1 DEF StateAfter
  <2> QED BY <2>1 DEF RefuseBlock, RequestFails, SaveState, SwallowError
<1>3. saved'[a].block \in {saved[a].block, state[a].block}
    BY DEF RefuseBlock, RequestFails, SaveState, SwallowError, InsertFails, TypeOK
<1>4. ExplorerSound' /\ Seen(a)' /\ RowsCover(a)' /\ PageCovers(a)'
  <2>1. saved'[a].block \in Starts(a) /\ state'[a].block \in Starts(a)
    BY <1>2, <1>3 DEF Starts
  <2>2. blocks' \subseteq Known(a) /\ head'[a] \in Known(a)
        /\ UNCHANGED rows /\ UNCHANGED unmined
    BY <1>1 DEF Known, databaseVars, pushVars
  <2> QED BY <1>1, <2>1, <2>2, NothingNew
<1>5. JobSound(a)'
  <2>1. \A t \in toDrop'[a] \cap DOMAIN rows' : rows'[t] = NoBlock
    <3>1. toDrop'[a] \subseteq toDrop[a] /\ rows' = rows
        BY <1>1
        DEF RefuseBlock, RequestFails, SaveState, SwallowError, InsertFails, TypeOK,
            databaseVars
    <3> QED BY <3>1 DEF SkipsNothing, JobSound
  <2>2. state'[a].block \in blocks' \cup {NoBlock}
    BY <1>1, <1>2 DEF SkipsNothing, JobSound, databaseVars
  <2>3. /\ pc'[a] \in Stages \ {"page", "idle"} /\ page'[a] = NoRows
        /\ pc'[a] = "reorganized" => RefuseBlock(a)
    BY DEF RefuseBlock, RequestFails, SaveState, SwallowError, InsertFails, TypeOK,
           Goto, Stages, SkipsNothing, JobSound
  <2>4. RefuseBlock(a) => state'[a].block \notin ChainBlocks' \cup {NoBlock}
    BY <1>1, <1>2 DEF RefuseBlock, explorerVars, ChainBlocks
  <2> QED BY <2>1, <2>2, <2>3, <2>4 DEF JobSound
<1> QED BY <1>4, <1>5 DEF SkipsNothing

\* The one block that a recovery can delete is the orphaned one.
LEMMA DoomedIsOrphaned ==
    ASSUME TypeOK, NEW a \in Accounts, SkipsNothing(a), pc[a] = "reorganized",
           CanDelete(Doomed(a))
    PROVE  Doomed(a) = {state[a].block} /\ state[a].block \notin ChainBlocks
<1>1. state[a].block \in blocks /\ state[a].block \notin ChainBlocks
    BY DEF SkipsNothing, JobSound
<1>2. state[a].block[1] \in Nat
    BY BlockRefsType DEF TypeOK, States
<1>3. state[a].block \in Doomed(a)
    BY <1>1, <1>2 DEF Doomed
<1>4. IsFiniteSet(Doomed(a))
  <2>1. IsFiniteSet(1..MaxHeight) /\ IsFiniteSet(0..MaxReorgs)
    BY FS_Interval, BoundsAssumption
  <2>2. IsFiniteSet(Blocks)
    BY <2>1, FS_Product DEF Blocks
  <2>3. Doomed(a) \subseteq Blocks
    BY DEF Doomed, TypeOK
  <2> QED BY <2>2, <2>3, FS_Subset
<1>5. PICK b : Doomed(a) = {b}
    BY <1>4, FS_Singleton DEF CanDelete
<1> QED BY <1>1, <1>3, <1>5

\* Deleting it leaves what is in a block of the chain.
LEMMA DeletedCovers ==
    ASSUME TypeOK, NEW a \in Accounts, SkipsNothing(a), NEW x, x \notin ChainBlocks,
           DeleteBlocks({x}), UNCHANGED explorerVars, UNCHANGED unmined,
           page'[a] = NoRows, page[a] = NoRows,
           NEW B, B \subseteq Starts(a) \cup Known(a),
           saved'[a].block \in B, state'[a].block \in B, head'[a] \in Known(a),
           \A b \in B : /\ Complete(b, rows, ChainBlocks, Mined)
                        /\ \A c \in Known(a) : c[1] < b[1] =>
                                Complete(c, rows, ChainBlocks, Mined)
    PROVE  ExplorerSound' /\ Seen(a)' /\ RowsCover(a)' /\ PageCovers(a)'
<1>1. rows' = Without(rows, {t \in DOMAIN rows : rows[t] = x}) /\ blocks' \subseteq blocks
    BY DEF DeleteBlocks
<1>2. {rows'[t] : t \in DOMAIN rows'} \subseteq Starts(a)
    BY <1>1, WithoutValues DEF Starts
<1>3. /\ Starts(a)' \subseteq Starts(a) \cup B
      /\ Known(a)' \subseteq Known(a)
      /\ PageBlocks(a)' = {}
    BY <1>1, <1>2 DEF Starts, Known, PageBlocks, NoRows
<1>4. Seen(a)'
    BY <1>3, SameChain DEF SkipsNothing, Seen
<1>5. RowsCover(a)'
  <2>1. Covers(rows, Starts(a) \cup B, Known(a), ChainBlocks, Mined)
    BY DEF SkipsNothing, RowsCover, Covers
  <2>2. ASSUME NEW t \in DOMAIN Mined, t \in DOMAIN rows, rows[t] = Mined[t]
        PROVE  t \in DOMAIN rows' /\ rows'[t] = Mined[t]
    <3>1. rows[t] \in ChainBlocks
        BY <2>2, MinedType DEF SkipsNothing, ExplorerSound
    <3> QED BY <1>1, <2>2, <3>1 DEF Without
  <2>3. Covers(rows', Starts(a) \cup B, Known(a), ChainBlocks, Mined)
    BY <2>1, <2>2, CoversRows
  <2>4. Covers(rows', Starts(a)', Known(a)', ChainBlocks, Mined)
    BY <1>3, <2>3, CoversLess
  <2> QED BY <2>4, SameChain DEF RowsCover
<1>6. PageCovers(a)'
  <2>1. Covers(Over(NoRows, rows'), Starts(a)', Known(a)', ChainBlocks', Mined')
    BY <1>5, CoversNoRows DEF RowsCover
  <2> QED BY <1>3, <2>1 DEF PageCovers
<1> QED BY <1>4, <1>5, <1>6, SameChain DEF SkipsNothing

LEMMA RecoverSkipsNothing ==
    ASSUME TypeOK, NEW a \in Accounts, SkipsNothing(a), RecoverFromReorganization(a)
    PROVE  SkipsNothing(a)'
<1> USE DEF RecoverFromReorganization
<1>1. /\ page[a] = NoRows /\ page'[a] = NoRows /\ head'[a] \in Known(a)
      /\ UNCHANGED <<explorerVars, toDrop>> /\ UNCHANGED unmined
    BY DEF SkipsNothing, JobSound, Known, pushVars
<1>2. saved'[a] = state'[a] /\ pc'[a] = "fetch"
    BY DEF TypeOK, Goto
<1>3. CASE CanDelete(Doomed(a)) /\ DeleteBlocks(Doomed(a))
           /\ \E b \in LastBlock(blocks') : state' = [state EXCEPT ![a].block = b]
  <2>1. PICK b \in LastBlock(blocks') : state' = [state EXCEPT ![a].block = b]
    BY <1>3
  <2>2. state'[a].block = b /\ saved'[a].block = b
    BY <1>2, <2>1 DEF TypeOK, States
  <2>3. Doomed(a) = {state[a].block} /\ state[a].block \notin ChainBlocks
    BY <1>3, DoomedIsOrphaned
  <2>4. blocks' = blocks \ Doomed(a) /\ b \in blocks' \cup {NoBlock}
    BY <1>3 DEF DeleteBlocks, LastBlock, Top
  <2>5. /\ Complete(b, rows, ChainBlocks, Mined)
        /\ \A c \in Known(a) : c[1] < b[1] => Complete(c, rows, ChainBlocks, Mined)
    <3>1. CASE b = NoBlock
        BY <3>1 DEF SkipsNothing, RowsCover, Covers, Starts
    <3>2. CASE b \in blocks'
      <4>1. b \in Known(a) /\ state[a].block \in Starts(a)
        BY <2>4, <3>2 DEF Known, Starts
      <4>2. /\ b[1] \in Nat /\ state[a].block[1] \in Nat
            /\ \A c \in Known(a) : c[1] \in Nat
        BY <4>1, StartsType, BlockRefsType
      <4>3. b[1] < state[a].block[1]
        BY <2>4, <3>2, <4>2 DEF Doomed
      <4> QED BY <4>1, <4>2, <4>3 DEF SkipsNothing, RowsCover, Covers
    <3> QED BY <2>4, <3>1, <3>2
  <2>6. ExplorerSound' /\ Seen(a)' /\ RowsCover(a)' /\ PageCovers(a)'
    <3>1. {b} \subseteq Starts(a) \cup Known(a)
        BY <2>4 DEF Starts, Known
    <3>2. DeleteBlocks({state[a].block})
        BY <1>3, <2>3
    <3>3. \A c \in {b} :
            /\ Complete(c, rows, ChainBlocks, Mined)
            /\ \A d \in Known(a) : d[1] < c[1] => Complete(d, rows, ChainBlocks, Mined)
        BY <2>5
    <3>4. saved'[a].block \in {b} /\ state'[a].block \in {b} /\ UNCHANGED explorerVars
        BY <1>1, <2>2
    <3> DEFINE B == {b}
    <3>5. B \subseteq Starts(a) \cup Known(a)
          /\ saved'[a].block \in B /\ state'[a].block \in B
          /\ \A c \in B :
            /\ Complete(c, rows, ChainBlocks, Mined)
            /\ \A d \in Known(a) : d[1] < c[1] => Complete(d, rows, ChainBlocks, Mined)
        BY <3>1, <3>3, <3>4
    <3> HIDE DEF B
    <3> QED BY <1>1, <2>3, <3>2, <3>4, <3>5, DeletedCovers
  <2>7. JobSound(a)'
    <3>1. \A t \in toDrop'[a] \cap DOMAIN rows' : rows'[t] = NoBlock
        BY <1>1, <1>3, WithoutValues DEF DeleteBlocks, SkipsNothing, JobSound
    <3> QED BY <1>1, <1>2, <2>2, <2>4, <3>1 DEF JobSound
  <2> QED BY <2>6, <2>7 DEF SkipsNothing
<1>4. CASE UNCHANGED <<databaseVars, state>>
  <2>1. ExplorerSound' /\ Seen(a)' /\ RowsCover(a)' /\ PageCovers(a)'
    <3>1. saved'[a].block \in Starts(a) /\ state'[a].block \in Starts(a)
        BY <1>2, <1>4 DEF Starts
    <3>2. blocks' \subseteq Known(a) /\ UNCHANGED rows
        BY <1>4 DEF Known, databaseVars
    <3> QED BY <1>1, <3>1, <3>2, NothingNew
  <2>2. JobSound(a)'
    BY <1>1, <1>2, <1>4 DEF SkipsNothing, JobSound, databaseVars
  <2> QED BY <2>1, <2>2 DEF SkipsNothing
<1> QED BY <1>3, <1>4

\* Deleting operations that are in no block.
LEMMA SynchronizeMempoolSkipsNothing ==
    ASSUME TypeOK, NEW a \in Accounts, SkipsNothing(a), SynchronizeMempool(a)
    PROVE  SkipsNothing(a)'
<1> USE DEF SynchronizeMempool
<1>1. /\ state'[a] = NoState /\ toDrop'[a] = {} /\ page'[a] = NoRows
      /\ pc'[a] = "idle" /\ head'[a] = head[a] /\ saved'[a] = saved[a]
      /\ UNCHANGED explorerVars /\ UNCHANGED unmined /\ UNCHANGED blocks
    BY DEF FreeBuddy, Goto, TypeOK, pushVars
<1>2. /\ {rows'[t] : t \in DOMAIN rows'} \subseteq Starts(a)
      /\ Starts(a)' \subseteq Starts(a) /\ Known(a)' = Known(a)
      /\ PageBlocks(a)' = {}
  <2>1. {rows'[t] : t \in DOMAIN rows'} \subseteq {rows[t] : t \in DOMAIN rows}
    BY WithoutValues
  <2>2. state'[a].block = NoBlock
    BY <1>1 DEF NoState
  <2> QED BY <1>1, <2>1, <2>2 DEF Starts, Known, PageBlocks, NoRows
<1>3. Seen(a)'
    BY <1>1, <1>2, SameChain DEF SkipsNothing, Seen
<1>4. RowsCover(a)'
  <2>1. ASSUME NEW t \in DOMAIN Mined, t \in DOMAIN rows, rows[t] = Mined[t]
        PROVE  t \in DOMAIN rows' /\ rows'[t] = Mined[t]
    <3>1. rows[t] # NoBlock
        BY <2>1, MinedType
    <3>2. t \notin Dropped(a)
        BY <2>1, <3>1 DEF Dropped, SkipsNothing, JobSound
    <3> QED BY <2>1, <3>2 DEF Without
  <2>2. Covers(rows', Starts(a), Known(a), ChainBlocks, Mined)
    BY <2>1, CoversRows DEF SkipsNothing, RowsCover
  <2>3. Covers(rows', Starts(a)', Known(a)', ChainBlocks, Mined)
    BY <1>2, <2>2, CoversLess
  <2> QED BY <1>1, <2>3, SameChain DEF RowsCover
<1>5. PageCovers(a)'
  <2>1. Covers(Over(NoRows, rows'), Starts(a)', Known(a)', ChainBlocks', Mined')
    BY <1>4, CoversNoRows DEF RowsCover
  <2> QED BY <1>1, <1>2, <2>1 DEF PageCovers
<1>6. JobSound(a)'
    BY <1>1 DEF JobSound, NoState
<1> QED BY <1>1, <1>3, <1>4, <1>5, <1>6, SameChain DEF SkipsNothing

-----------------------------------------------------------------------------
(* Crashes.                                                                *)

LEMMA Dead ==
    ASSUME TypeOK, NEW a \in Accounts, Die
    PROVE  /\ state'[a] = NoState /\ toDrop'[a] = {} /\ page'[a] = NoRows
           /\ pc'[a] = "idle" /\ head'[a] = NotAsked
           /\ UNCHANGED explorerVars /\ UNCHANGED unmined
           /\ JobSound(a)' /\ head'[a] \in Known(a)
           /\ state'[a].block = NoBlock /\ state'[a].block \in Starts(a)
BY DEF Die, FreeBuddy, TypeOK, JobSound, NoState, Known, Starts

LEMMA CrashSkipsNothing ==
    ASSUME TypeOK, NEW a \in Accounts, SkipsNothing(a),
           Crash \/ CrashInInsert(a) \/ CrashInRecovery(a)
    PROVE  SkipsNothing(a)'
<1>1. Die
    BY DEF Crash, CrashInInsert, CrashInRecovery
<1>2. UNCHANGED saved /\ saved'[a].block \in Starts(a)
    BY DEF Crash, CrashInInsert, CrashInRecovery, Starts
<1>3. CASE Crash
  <2>1. blocks' \subseteq Known(a) /\ UNCHANGED rows
    BY <1>3 DEF Crash, databaseVars, Known
  <2>2. ExplorerSound' /\ Seen(a)' /\ RowsCover(a)' /\ PageCovers(a)'
    BY <1>1, <1>2, <2>1, Dead, NothingNew
  <2> QED BY <1>1, <2>2, Dead DEF SkipsNothing
<1>4. CASE CrashInInsert(a)
  <2>1. BulkInsert(page[a])
    BY <1>4 DEF CrashInInsert
  <2>2. ExplorerSound' /\ Seen(a)' /\ RowsCover(a)' /\ PageCovers(a)'
    BY <1>1, <1>2, <2>1, Dead, InsertedCovers
  <2> QED BY <1>1, <2>2, Dead DEF SkipsNothing
<1>5. CASE CrashInRecovery(a)
  <2> DEFINE B == {NoBlock, saved[a].block}
  <2>1. Doomed(a) = {state[a].block} /\ state[a].block \notin ChainBlocks
    BY <1>5, DoomedIsOrphaned DEF CrashInRecovery
  <2>2. DeleteBlocks({state[a].block}) /\ page[a] = NoRows
    BY <1>5, <2>1 DEF CrashInRecovery, SkipsNothing, JobSound
  <2>3. B \subseteq Starts(a)
    BY DEF Starts
  <2>4. \A b \in B : /\ Complete(b, rows, ChainBlocks, Mined)
                     /\ \A c \in Known(a) : c[1] < b[1] =>
                            Complete(c, rows, ChainBlocks, Mined)
    BY <2>3 DEF SkipsNothing, RowsCover, Covers
  <2>5. saved'[a].block \in B /\ state'[a].block \in B
    BY <1>1, <1>2, Dead
  <2> HIDE DEF B
  <2>6. ExplorerSound' /\ Seen(a)' /\ RowsCover(a)' /\ PageCovers(a)'
    BY <1>1, <2>1, <2>2, <2>3, <2>4, <2>5, Dead, DeletedCovers
  <2> QED BY <1>1, <2>6, Dead DEF SkipsNothing
<1> QED BY <1>3, <1>4, <1>5

-----------------------------------------------------------------------------
(* What the application does meanwhile.                                    *)

\* Other rows, of which less is asked.
LEMMA CoversLessMined ==
    ASSUME NEW R, NEW S, NEW K, NEW C, NEW N, Covers(R, S, K, C, N), NEW R2, NEW N2,
           \A t \in DOMAIN N2 :
                /\ t \in DOMAIN N /\ N2[t] = N[t]
                /\ t \in DOMAIN R /\ R[t] = N[t] => t \in DOMAIN R2 /\ R2[t] = N[t]
    PROVE  Covers(R2, S, K, C, N2)
BY DEF Covers, Complete

\* An operation leaves its block: what is said of mined transactions no longer
\* holds of this one.
LEMMA OptimisticUpdateSkipsNothing ==
    ASSUME TypeOK, NEW a \in Accounts, SkipsNothing(a), NEW t \in Txs,
           OptimisticUpdate(t)
    PROVE  SkipsNothing(a)'
<1> USE DEF OptimisticUpdate
<1>1. /\ UNCHANGED <<explorerVars, saved, jobVars, head>>
      /\ rows' = Over([u \in {t} |-> NoBlock], rows) /\ blocks' = blocks
      /\ unmined' = unmined \cup {u \in {t} \cap DOMAIN rows : rows[u] # NoBlock}
    BY DEF BulkInsert
<1>2. /\ DOMAIN rows' = DOMAIN rows \cup {t} /\ rows'[t] = NoBlock
      /\ \A u \in DOMAIN rows : u # t => rows'[u] = rows[u]
    BY <1>1 DEF Over
<1>3. /\ Starts(a)' \subseteq Starts(a) /\ Known(a)' = Known(a)
      /\ PageBlocks(a)' = PageBlocks(a) /\ page'[a] = page[a]
    BY <1>1, <1>2 DEF Starts, Known, PageBlocks, jobVars
<1>4. ChainBlocks' = ChainBlocks /\ ExplorerSound' /\ Seen(a)'
    BY <1>1, <1>3 DEF ChainBlocks, explorerVars, SkipsNothing, ExplorerSound, Seen
<1>5. \A u \in DOMAIN Mined' :
        /\ u \in DOMAIN Mined /\ Mined'[u] = Mined[u] /\ Mined[u] # NoBlock
        /\ u = t => t \notin DOMAIN rows \/ rows[t] = NoBlock
  <2>1. UNCHANGED mined /\ unmined \subseteq unmined'
    BY <1>1 DEF explorerVars
  <2>2. t \in DOMAIN rows /\ rows[t] # NoBlock => t \in unmined'
    BY <1>1
  <2> QED BY <2>1, <2>2 DEF Mined
<1>6. RowsCover(a)'
  <2>1. Covers(rows', Starts(a), Known(a), ChainBlocks, Mined')
    BY <1>2, <1>5, CoversLessMined DEF SkipsNothing, RowsCover
  <2>2. Covers(rows', Starts(a)', Known(a)', ChainBlocks, Mined')
    BY <1>3, <2>1, CoversLess
  <2> QED BY <1>4, <2>2 DEF RowsCover
<1>7. PageCovers(a)'
  <2>1. \A u \in DOMAIN Mined' :
            u \in DOMAIN Over(page[a], rows) /\ Over(page[a], rows)[u] = Mined[u] =>
                u \in DOMAIN Over(page[a], rows')
                    /\ Over(page[a], rows')[u] = Mined[u]
    BY <1>2, <1>5 DEF Over
  <2>2. Covers(Over(page[a], rows'), Starts(a) \cup PageBlocks(a), Known(a),
               ChainBlocks, Mined')
    BY <1>5, <2>1, CoversLessMined DEF SkipsNothing, PageCovers
  <2>3. Covers(Over(page[a], rows'), Starts(a)' \cup PageBlocks(a)', Known(a)',
               ChainBlocks, Mined')
    BY <1>3, <2>2, CoversLess
  <2>4. Over(page[a], rows)' = Over(page[a], rows')
    BY <1>3
  <2> QED BY <1>4, <2>3, <2>4 DEF PageCovers
<1>8. JobSound(a)'
  <2>1. \A u \in toDrop[a] \cap DOMAIN rows' : rows'[u] = NoBlock
    BY <1>2 DEF SkipsNothing, JobSound
  <2> QED BY <1>1, <1>4, <2>1 DEF SkipsNothing, JobSound, jobVars
<1> QED BY <1>4, <1>6, <1>7, <1>8 DEF SkipsNothing

\* Between two jobs data is erased from a height on, and the saved state goes
\* back below it.
LEMMA EraseSkipsNothing ==
    ASSUME TypeOK, NEW a \in Accounts, Accounts = {a}, EraseDuringSync = FALSE,
           SkipsNothing(a), NEW h \in 1..MaxHeight, EraseDataSince(a, h)
    PROVE  SkipsNothing(a)'
<1> USE DEF EraseDataSince
<1>1. PICK b \in LastBlock({c \in blocks : c[1] < h}) :
        saved' = IF saved[a].block[1] > b[1]
                 THEN [saved EXCEPT ![a].block = b] ELSE saved
    OBVIOUS
<1>2. /\ pc[a] = "idle" /\ page[a] = NoRows /\ state[a].block = NoBlock
      /\ UNCHANGED <<explorerVars, blocks, jobVars, head>> /\ UNCHANGED unmined
    BY DEF SkipsNothing, JobSound, pushVars
<1>3. /\ page'[a] = NoRows /\ state'[a].block = NoBlock /\ PageBlocks(a)' = {}
      /\ Known(a)' = Known(a)
    BY <1>2 DEF jobVars, PageBlocks, NoRows, Known
<1>4. h \in Nat /\ h >= 1 /\ h <= MaxHeight /\ MaxHeight \in Nat
    BY BoundsAssumption
<1>5. /\ NoBlock[1] = 0 /\ b[1] \in Nat /\ b[1] < h
      /\ b = NoBlock \/ b \in Known(a)
  <2>1. b = NoBlock \/ (b \in blocks /\ b[1] < h)
    BY DEF LastBlock, Top
  <2>2. b = NoBlock \/ (b \in Known(a) /\ b[1] < h /\ b \in Blocks)
    BY <2>1 DEF Known, TypeOK
  <2> QED BY <1>4, <2>2, BlockRefsType DEF NoBlock, Blocks
<1>6. \A t \in DOMAIN rows' :
        /\ t \in DOMAIN rows /\ rows'[t] = rows[t] /\ rows[t][1] < h
  <2> SUFFICES ASSUME NEW t \in DOMAIN rows'
               PROVE  t \in DOMAIN rows /\ rows'[t] = rows[t] /\ rows[t][1] < h
    OBVIOUS
  <2>1. /\ t \in DOMAIN rows /\ rows'[t] = rows[t]
        /\ ~(t \in Own(a) /\ Position(rows[t]) >= h)
    BY WithoutValues
  <2>2. t \in Own(a) /\ rows[t] \in BlockRefs
    BY <2>1 DEF TypeOK, IsRows, Own, Txs
  <2>3. rows[t][1] \in Nat
    BY <2>2, BlockRefsType
  <2> QED BY <1>4, <2>1, <2>2, <2>3 DEF Position
<1>7. \A t \in DOMAIN rows : rows[t] # NoBlock /\ rows[t][1] < h =>
        t \in DOMAIN rows' /\ rows'[t] = rows[t]
  <2> SUFFICES ASSUME NEW t \in DOMAIN rows, rows[t] # NoBlock, rows[t][1] < h
               PROVE  t \in DOMAIN rows' /\ rows'[t] = rows[t]
    OBVIOUS
  <2>1. rows[t][1] \in Nat
    BY BlockRefsType DEF TypeOK, IsRows
  <2> QED BY <1>4, <2>1 DEF Position, Without
<1>8. saved'[a].block = IF saved[a].block[1] > b[1] THEN b ELSE saved[a].block
    BY <1>1 DEF TypeOK, States
\* Where a job may start is where it could start before, or a block below that.
<1>9. ASSUME NEW s \in Starts(a)'
      PROVE  /\ s \in Starts(a) \cup Known(a) /\ s[1] \in Nat /\ s[1] < h
             /\ \/ s \in Starts(a)
                \/ s \in Known(a) /\ \E r \in Starts(a) : s[1] < r[1]
  <2>1. CASE s = NoBlock
    BY <1>4, <1>5, <2>1 DEF Starts
  <2>2. CASE \E t \in DOMAIN rows' : s = rows'[t]
    <3>1. s \in Starts(a) /\ s[1] < h
        BY <1>6, <2>2 DEF Starts
    <3> QED BY <3>1, StartsType, BlockRefsType
  <2>3. CASE s = saved'[a].block /\ s # NoBlock
    <3>1. saved[a].block \in Starts(a) /\ saved[a].block[1] \in Nat
        BY BlockRefsType DEF Starts, TypeOK, States
    <3> QED BY <1>4, <1>5, <1>8, <2>3, <3>1
  <2> QED BY <1>3, <2>1, <2>2, <2>3 DEF Starts
<1>10. Seen(a)'
  <2>1. Starts(a)' \subseteq Starts(a) \cup Known(a)
    BY <1>9
  <2> QED BY <1>2, <1>3, <2>1, SameChain DEF SkipsNothing, Seen
<1>11. ASSUME NEW x, x[1] \in Nat, x[1] < h, Complete(x, rows, ChainBlocks, Mined)
       PROVE  Complete(x, rows', ChainBlocks, Mined)
  <2> SUFFICES ASSUME x \in ChainBlocks, NEW t \in DOMAIN Mined, Mined[t][1] < x[1]
               PROVE  t \in DOMAIN rows' /\ rows'[t] = Mined[t]
    BY DEF Complete
  <2>1. t \in DOMAIN rows /\ rows[t] = Mined[t] /\ rows[t] # NoBlock
    BY <1>11, MinedType DEF Complete
  <2>2. rows[t][1] < h
    BY <1>4, <1>11, <2>1, MinedType DEF Blocks
  <2> QED BY <1>7, <2>1, <2>2
<1>12. RowsCover(a)'
  <2>1. ASSUME NEW s \in Starts(a)'
        PROVE  Complete(s, rows', ChainBlocks, Mined)
    <3>1. Complete(s, rows, ChainBlocks, Mined)
        BY <1>9 DEF SkipsNothing, RowsCover, Covers
    <3> QED BY <1>9, <1>11, <3>1
  <2>2. ASSUME NEW s \in Starts(a)', NEW c \in Known(a), c[1] < s[1]
        PROVE  Complete(c, rows', ChainBlocks, Mined)
    <3>1. c[1] \in Nat
        BY StartsType, BlockRefsType
    <3>2. \A r \in Starts(a) : r[1] \in Nat
        BY StartsType, BlockRefsType
    <3>3. \E r \in Starts(a) : c[1] < r[1]
        BY <1>9, <2>2, <3>1, <3>2
    <3>4. Complete(c, rows, ChainBlocks, Mined)
        BY <3>3 DEF SkipsNothing, RowsCover, Covers
    <3>5. c[1] < h
        BY <1>4, <1>9, <2>2, <3>1
    <3> QED BY <1>11, <3>1, <3>4, <3>5
  <2>3. Covers(rows', Starts(a)', Known(a), ChainBlocks, Mined)
    BY <2>1, <2>2 DEF Covers
  <2> QED BY <1>2, <1>3, <2>3, SameChain DEF RowsCover
<1>13. PageCovers(a)'
  <2>1. Covers(Over(NoRows, rows'), Starts(a)', Known(a)', ChainBlocks', Mined')
    BY <1>12, CoversNoRows DEF RowsCover
  <2> QED BY <1>3, <2>1 DEF PageCovers
<1>14. JobSound(a)'
  <2>1. UNCHANGED <<pc, toDrop>>
    BY <1>2 DEF jobVars
  <2> QED BY <1>2, <1>3, <1>6, <2>1 DEF SkipsNothing, JobSound
<1> QED BY <1>2, <1>10, <1>12, <1>13, <1>14, SameChain DEF SkipsNothing

\* What goes on in the mempool only.
LEMMA MempoolSkipsNothing ==
    ASSUME TypeOK, NEW a \in Accounts, SkipsNothing(a),
           UNCHANGED <<chain, mined, reorgs, databaseVars, saved, jobVars, head,
                       unmined>>
    PROVE  SkipsNothing(a)'
<1>1. ChainBlocks' = ChainBlocks /\ Mined' = Mined
    BY DEF ChainBlocks, Mined
<1>2. /\ Starts(a)' = Starts(a) /\ Known(a)' = Known(a)
      /\ PageBlocks(a)' = PageBlocks(a)
      /\ Over(page[a], rows)' = Over(page[a], rows)
      /\ rows' = rows
    BY DEF Starts, Known, PageBlocks, Over, databaseVars, jobVars
<1>3. ExplorerSound' /\ Seen(a)'
    BY <1>1, <1>2 DEF SkipsNothing, ExplorerSound, Seen
<1>4. RowsCover(a)' /\ PageCovers(a)'
    BY <1>1, <1>2 DEF SkipsNothing, RowsCover, PageCovers
<1>5. JobSound(a)'
    BY <1>1 DEF SkipsNothing, JobSound, databaseVars, jobVars
<1> QED BY <1>3, <1>4, <1>5 DEF SkipsNothing

-----------------------------------------------------------------------------
LEMMA InitSkipsNothing ==
    ASSUME Init, NEW a \in Accounts
    PROVE  SkipsNothing(a)
<1> USE DEF Init
<1>1. /\ rows = NoRows /\ blocks = {} /\ saved[a].block = NoBlock
      /\ state[a].block = NoBlock /\ page[a] = NoRows /\ head[a] = NotAsked
      /\ pc[a] = "idle" /\ toDrop[a] = {} /\ chain = <<>>
    BY DEF NoState
<1>2. /\ Starts(a) = {NoBlock} /\ Known(a) = {Asked, NotAsked}
      /\ PageBlocks(a) = {} /\ ChainBlocks = {}
    BY <1>1 DEF Starts, Known, PageBlocks, ChainBlocks, NoRows
<1>3. ExplorerSound
    BY <1>1, <1>2 DEF ExplorerSound
<1>4. Seen(a)
    BY <1>2 DEF Seen, WasThere, NoBlock, Asked, NotAsked
<1>5. RowsCover(a) /\ PageCovers(a)
    BY <1>2 DEF RowsCover, PageCovers, Covers, Complete
<1>6. JobSound(a)
    BY <1>1 DEF JobSound
<1> QED BY <1>3, <1>4, <1>5, <1>6 DEF SkipsNothing

LEMMA SkipsNothingNext ==
    ASSUME TypeOK, BlocksPresent, NEW a, Accounts = {a}, EraseDuringSync = FALSE,
           SkipsNothing(a), [Next]_vars
    PROVE  SkipsNothing(a)'
<1>1. a \in Accounts /\ \A c \in Accounts : c = a
    OBVIOUS
<1>2. CASE Mine \/ Reorganize
    BY <1>1, <1>2, NetworkSkipsNothing
<1>3. ASSUME NEW t \in Txs, Appear(t) \/ Evict(t) \/ PushTransaction(t)
      PROVE  SkipsNothing(a)'
    BY <1>1, <1>3, MempoolSkipsNothing DEF Appear, Evict, PushTransaction, pushVars
<1>4. ASSUME NEW t \in Txs, OptimisticUpdate(t)
      PROVE  SkipsNothing(a)'
    BY <1>1, <1>4, OptimisticUpdateSkipsNothing
<1>5. CASE PerformSynchronization(a)
    BY <1>1, <1>5, PerformSynchronizationSkipsNothing
<1>6. CASE Continue(a)
    BY <1>1, <1>6, AnswerSkipsNothing, PlainSkipsNothing, InsertPageSkipsNothing,
       RecoverSkipsNothing, SynchronizeMempoolSkipsNothing DEF Continue
<1>7. CASE AnswerCurrentBlock(a) \/ UpdateCurrentBlock(a)
    BY <1>1, <1>7, CurrentBlockSkipsNothing
<1>8. CASE RequestFails(a) \/ InsertFails(a)
    BY <1>1, <1>8, PlainSkipsNothing
<1>9. CASE Crash \/ CrashInInsert(a) \/ CrashInRecovery(a)
    BY <1>1, <1>9, CrashSkipsNothing
<1>10. ASSUME NEW h \in 1..MaxHeight, EraseDataSince(a, h)
       PROVE  SkipsNothing(a)'
    BY <1>1, <1>10, EraseSkipsNothing
<1>11. CASE UNCHANGED vars
    BY <1>1, <1>11, MempoolSkipsNothing DEF vars, explorerVars, pushVars
<1> QED BY <1>1, <1>2, <1>3, <1>4, <1>5, <1>6, <1>7, <1>8, <1>9, <1>10, <1>11 DEF Next

LEMMA SkipsNothingSkips ==
    ASSUME TypeOK, NEW a, Accounts = {a}, SkipsNothing(a)
    PROVE  NothingSkipped
<1> SUFFICES ASSUME saved[a].block \in ChainBlocks, NEW t \in Own(a) \ unmined,
                    mined[t] # NoBlock, mined[t][1] < saved[a].block[1]
             PROVE  t \in DOMAIN rows /\ rows[t] = mined[t]
    BY DEF NothingSkipped
<1>1. t \in DOMAIN Mined /\ Mined[t] = mined[t]
    BY MinedType DEF Own
<1>2. Complete(saved[a].block, rows, ChainBlocks, Mined)
    BY DEF SkipsNothing, RowsCover, Covers, Starts
<1> QED BY <1>1, <1>2 DEF Complete

\* In a pool with one account, whatever the chain does and wherever requests,
\* insertions or the process fail: once the saved block is of the chain, what is
\* mined below it is stored with its block, so that the synchronization that
\* starts there leaves nothing out.
THEOREM NothingIsSkipped ==
    ASSUME NEW a, Accounts = {a}, EraseDuringSync = FALSE
    PROVE  Spec => []NothingSkipped
<1> DEFINE IInv == TypeOK /\ BlocksPresent /\ SkipsNothing(a)
<1>1. Init => IInv
    BY TypeInit, InitSkipsNothing DEF Init, NoRows, BlocksPresent
<1>2. IInv /\ [Next]_vars => IInv'
    BY TypeNext, BlocksPresentNext, SkipsNothingNext
<1>3. IInv => NothingSkipped
    BY SkipsNothingSkips
<1> HIDE DEF IInv
<1> QED BY <1>1, <1>2, <1>3, PTL DEF Spec
=============================================================================
