------------------------ MODULE BatchSyncStateProofs ------------------------
(***************************************************************************)
(* Proofs about what a synchronization leaves behind in the saved state    *)
(* and the operations: what is pending, what was orphaned, and what a      *)
(* success says; for any chain, transactions and bounds.                   *)
(***************************************************************************)
EXTENDS BatchSyncProofs

-----------------------------------------------------------------------------
(* What is pending.                                                        *)

\* Nothing was erased and the process did not die.
Undisturbed == erases = 0 /\ crashes = 0

\* An account keeps to its own transactions.
OwnOnly(a) ==
    /\ saved[a].pending \subseteq Own(a) /\ state[a].pending \subseteq Own(a)
    /\ toDrop[a] \subseteq Own(a) /\ DOMAIN page[a] \subseteq Own(a)

\* A pending transaction has an operation without a block ...
Waits(t) == t \in DOMAIN rows /\ rows[t] = NoBlock

\* ... which the job knows until it has read the listing, and does not drop.
PendingSound(a) ==
    /\ OwnOnly(a)
    /\ \A t \in saved[a].pending \cup state[a].pending \cup toDrop[a] : Waits(t)
    /\ pc[a] \in {"fetch", "page", "reorganized"} => state[a].pending \subseteq toDrop[a]
    /\ saved[a].pending \cap toDrop[a] \subseteq state[a].pending
    /\ pc[a] = "page" /\ more[a] => \A t \in DOMAIN page[a] : page[a][t] # NoBlock
    /\ pc[a] = "idle" => state[a] = NoState /\ toDrop[a] = {}

AllPendingSound == Undisturbed => \A a \in Accounts : PendingSound(a)

\* A step that leaves the account alone, and what waits there.
LEMMA PendingFrame ==
    ASSUME NEW a \in Accounts, PendingSound(a),
           saved'[a] = saved[a], state'[a] = state[a], toDrop'[a] = toDrop[a],
           page'[a] = page[a], more'[a] = more[a], pc'[a] = pc[a],
           \A t \in Own(a) : Waits(t) => Waits(t)'
    PROVE  PendingSound(a)'
<1>1. OwnOnly(a)'
  BY DEF PendingSound, OwnOnly
<1>2. \A t \in saved[a].pending \cup state[a].pending \cup toDrop[a] : Waits(t)'
  BY DEF PendingSound, OwnOnly
<1> QED BY <1>1, <1>2 DEF PendingSound

LEMMA StateFields ==
    ASSUME NEW s \in [Accounts -> States], NEW a \in Accounts
    PROVE  /\ s[a].block \in BlockRefs /\ s[a].pending \subseteq Txs
           /\ s[a] = [block |-> s[a].block, pending |-> s[a].pending]
BY DEF States

\* What a step of account c leaves of another one.
LEMMA OthersKept ==
    ASSUME TypeOK, NEW c \in Accounts, NEW a \in Accounts \ {c},
           \/ PerformSynchronization(c) \/ Continue(c)
           \/ RequestFails(c) \/ InsertFails(c)
    PROVE  /\ saved'[a] = saved[a] /\ state'[a] = state[a] /\ toDrop'[a] = toDrop[a]
           /\ page'[a] = page[a] /\ more'[a] = more[a] /\ pc'[a] = pc[a]
           /\ due'[a] = due[a]
<1> USE DEF TypeOK, jobVars
<1>1. CASE PerformSynchronization(c)
  BY <1>1 DEF PerformSynchronization, Goto
<1>2. CASE AnswerTransactions(c)
  BY <1>2 DEF AnswerTransactions, Goto
<1>3. CASE RefuseBlock(c) \/ RequestFails(c) \/ SwallowError(c)
  BY <1>3 DEF RefuseBlock, RequestFails, SwallowError, Goto
<1>4. CASE InsertPage(c) \/ InsertFails(c)
  BY <1>4 DEF InsertPage, InsertFails, Goto
<1>5. CASE SaveState(c)
  BY <1>5 DEF SaveState, Goto
<1>6. CASE RecoverFromReorganization(c)
  BY <1>6 DEF RecoverFromReorganization, Goto
<1>7. CASE SynchronizeMempool(c)
  BY <1>7 DEF SynchronizeMempool, FreeBuddy, Goto
<1> QED BY <1>1, <1>2, <1>3, <1>4, <1>5, <1>6, <1>7 DEF Continue

LEMMA PendingPerform ==
    ASSUME TypeOK, NEW a \in Accounts, PendingSound(a), PerformSynchronization(a)
    PROVE  PendingSound(a)'
<1>1. /\ UNCHANGED <<rows, saved, page, more>> /\ pc[a] = "idle"
      /\ toDrop' = [toDrop EXCEPT ![a] = {t \in DOMAIN rows \cap Own(a) : rows[t] = NoBlock}]
  BY DEF PerformSynchronization, databaseVars
<1>2. PICK b \in StartingBlock(a) :
        state' = [state EXCEPT ![a] = [saved[a] EXCEPT !.block = b]]
  BY DEF PerformSynchronization
<1>3. saved[a] = [block |-> saved[a].block, pending |-> saved[a].pending]
  BY StateFields DEF TypeOK
<1>4. state'[a] = [block |-> b, pending |-> saved[a].pending]
  BY <1>2, <1>3 DEF TypeOK
<1>5. /\ pc'[a] = "fetch"
      /\ toDrop'[a] = {t \in Own(a) : Waits(t)}
  BY <1>1 DEF PerformSynchronization, Goto, TypeOK, Waits
<1>6. saved[a].pending \subseteq toDrop'[a]
  BY <1>5 DEF PendingSound, OwnOnly
<1>7. OwnOnly(a)'
  BY <1>1, <1>4, <1>5 DEF PendingSound, OwnOnly
<1>8. \A t \in saved'[a].pending \cup state'[a].pending \cup toDrop'[a] : Waits(t)'
  BY <1>1, <1>4, <1>5 DEF PendingSound, Waits
<1> QED BY <1>1, <1>4, <1>5, <1>6, <1>7, <1>8 DEF PendingSound

LEMMA PendingAnswer ==
    ASSUME ~CutsWaiting, TypeOK, NEW a \in Accounts, PendingSound(a),
           AnswerTransactions(a)
    PROVE  PendingSound(a)'
<1> DEFINE list == Listed(a, state[a].block)
<1>1. /\ UNCHANGED <<rows, saved, state, toDrop>>
      /\ pc[a] = "fetch" /\ pc'[a] = "page"
  BY DEF AnswerTransactions, databaseVars, Goto, TypeOK
<1>2. PICK S \in SUBSET DOMAIN list :
        /\ IsPage(S, list)
        /\ page' = [page EXCEPT ![a] = [t \in S |-> list[t]]]
        /\ more' = [more EXCEPT ![a] = S # DOMAIN list]
  BY DEF AnswerTransactions
<1>3. DOMAIN list \subseteq Own(a)
  BY DEF Listed
<1> HIDE DEF list
<1>4. page'[a] = [t \in S |-> list[t]] /\ more'[a] = (S # DOMAIN list)
  BY <1>2 DEF TypeOK
<1>5. more'[a] => \A t \in DOMAIN page'[a] : page'[a][t] # NoBlock
  BY <1>2, <1>4 DEF IsPage
<1>6. OwnOnly(a)'
  BY <1>1, <1>3, <1>4 DEF PendingSound, OwnOnly
<1>7. \A t : Waits(t) => Waits(t)'
  BY <1>1 DEF Waits
<1> QED BY <1>1, <1>5, <1>6, <1>7 DEF PendingSound

\* What a page that is read leaves pending.
LEMMA StillPending ==
    ASSUME NEW a \in Accounts, PendingSound(a), pc[a] = "page",
           NEW t \in StateAfter(a, NoBlock).pending
    PROVE  /\ t \in Own(a) /\ t \in toDrop[a]
           /\ t \in DOMAIN page[a] => page[a][t] = NoBlock
           /\ t \notin DOMAIN page[a] => t \in state[a].pending /\ Waits(t)
BY DEF StateAfter, PendingSound, OwnOnly

LEMMA SamePending ==
    ASSUME NEW a, NEW b, NEW c
    PROVE  /\ StateAfter(a, b).pending = StateAfter(a, c).pending
           /\ StateAfter(a, b).block = b
BY DEF StateAfter

LEMMA PendingInsert ==
    ASSUME TypeOK, NEW a \in Accounts, PendingSound(a), InsertPage(a)
    PROVE  PendingSound(a)'
<1>1. /\ pc[a] = "page" /\ rows' = Over(page[a], rows)
      /\ toDrop'[a] = toDrop[a] \ DOMAIN page[a]
      /\ page'[a] = NoRows /\ more'[a] = FALSE
      /\ pc'[a] = IF more[a] THEN "fetch" ELSE "stored"
  BY DEF InsertPage, BulkInsert, Goto, TypeOK
<1> DEFINE left == StateAfter(a, NoBlock).pending
<1>2. PICK b \in BlockAfter(a) :
        /\ state' = [state EXCEPT ![a] = StateAfter(a, b)]
        /\ saved' = IF PageBlocks(a) = {} THEN saved ELSE [saved EXCEPT ![a] = StateAfter(a, b)]
  BY DEF InsertPage
<1>3. state'[a].pending = left
  BY <1>2, SamePending DEF TypeOK
<1>4. saved'[a].pending = IF PageBlocks(a) = {} THEN saved[a].pending ELSE left
  BY <1>2, SamePending DEF TypeOK
<1>5. DOMAIN NoRows = {}
  BY DEF NoRows
<1>6. \A t \in left : t \in Own(a) /\ Waits(t)'
  <2> SUFFICES ASSUME NEW t \in left PROVE t \in Own(a) /\ Waits(t)'
    OBVIOUS
  <2>1. /\ t \in Own(a)
        /\ t \in DOMAIN page[a] => page[a][t] = NoBlock
        /\ t \notin DOMAIN page[a] => Waits(t)
    BY <1>1, StillPending
  <2> QED BY <1>1, <2>1 DEF Waits, Over
<1>7. PageBlocks(a) = {} => \A t \in saved[a].pending : Waits(t)'
  <2> SUFFICES ASSUME PageBlocks(a) = {}, NEW t \in saved[a].pending PROVE Waits(t)'
    OBVIOUS
  <2>1. t \in DOMAIN page[a] => page[a][t] = NoBlock
    BY DEF PageBlocks
  <2>2. Waits(t)
    BY DEF PendingSound
  <2> QED BY <1>1, <2>1, <2>2 DEF Waits, Over
<1>8. pc'[a] = "fetch" => left \subseteq toDrop'[a]
  <2> SUFFICES ASSUME more[a], NEW t \in left PROVE t \in toDrop'[a]
    BY <1>1
  <2>1. t \in toDrop[a] /\ (t \in DOMAIN page[a] => page[a][t] = NoBlock)
    BY <1>1, StillPending
  <2>2. t \notin DOMAIN page[a]
    BY <1>1, <2>1 DEF PendingSound
  <2> QED BY <1>1, <2>1, <2>2
<1>9. saved'[a].pending \cap toDrop'[a] \subseteq left
  BY <1>1, <1>4 DEF PendingSound, StateAfter
<1>10. OwnOnly(a)'
  BY <1>1, <1>3, <1>4, <1>5, <1>6 DEF PendingSound, OwnOnly
<1> HIDE DEF left
<1>11. \A t \in saved'[a].pending \cup state'[a].pending : Waits(t)'
  BY <1>3, <1>4, <1>6, <1>7
<1>12. \A t \in toDrop'[a] : Waits(t)'
  BY <1>1 DEF PendingSound, Waits, Over
<1> QED BY <1>1, <1>3, <1>8, <1>9, <1>10, <1>11, <1>12 DEF PendingSound

LEMMA PendingInsertFails ==
    ASSUME TypeOK, NEW a \in Accounts, PendingSound(a), InsertFails(a)
    PROVE  PendingSound(a)'
<1>1. /\ pc[a] = "page" /\ UNCHANGED <<rows, saved>>
      /\ toDrop'[a] = toDrop[a] \ DOMAIN page[a]
      /\ page'[a] = NoRows /\ more'[a] = FALSE /\ pc'[a] = "failed"
      /\ state'[a] = StateAfter(a, state[a].block)
  BY DEF InsertFails, databaseVars, Goto, TypeOK
<1> DEFINE left == StateAfter(a, NoBlock).pending
<1>2. state'[a].pending = left
  BY <1>1, SamePending
<1>3. DOMAIN NoRows = {}
  BY DEF NoRows
<1>4. left \subseteq toDrop[a] /\ left \subseteq Own(a)
  BY <1>1, StillPending
<1>5. saved'[a].pending \cap toDrop'[a] \subseteq left
  BY <1>1 DEF PendingSound, StateAfter
<1> HIDE DEF left
<1>6. OwnOnly(a)'
  BY <1>1, <1>2, <1>3, <1>4 DEF PendingSound, OwnOnly
<1>7. \A t \in saved'[a].pending \cup state'[a].pending \cup toDrop'[a] : Waits(t)'
  <2>1. /\ saved'[a].pending = saved[a].pending
        /\ state'[a].pending \cup toDrop'[a] \subseteq toDrop[a]
    BY <1>1, <1>2, <1>4
  <2>2. \A t \in saved[a].pending \cup toDrop[a] : Waits(t)
    BY DEF PendingSound
  <2> QED BY <1>1, <2>1, <2>2 DEF Waits
<1> QED BY <1>1, <1>2, <1>5, <1>6, <1>7 DEF PendingSound

\* Steps that only move the job on, or save the state it has.
LEMMA PendingPlain ==
    ASSUME TypeOK, NEW a \in Accounts, PendingSound(a),
           RefuseBlock(a) \/ RequestFails(a) \/ SwallowError(a) \/ SaveState(a)
    PROVE  PendingSound(a)'
<1>1. /\ UNCHANGED <<rows, state, toDrop, page, more>>
      /\ saved'[a] \in {saved[a], state[a]}
      /\ pc'[a] \notin {"page", "idle"}
      /\ pc'[a] = "reorganized" => pc[a] = "fetch"
      /\ pc'[a] # "fetch"
  BY DEF RefuseBlock, RequestFails, SwallowError, SaveState, databaseVars, Goto, TypeOK
<1>2. OwnOnly(a)'
  BY <1>1 DEF PendingSound, OwnOnly
<1>3. \A t \in saved'[a].pending \cup state'[a].pending \cup toDrop'[a] : Waits(t)'
  BY <1>1 DEF PendingSound, Waits
<1>4. saved'[a].pending \cap toDrop'[a] \subseteq state'[a].pending
  BY <1>1 DEF PendingSound
<1>5. pc'[a] = "reorganized" => state'[a].pending \subseteq toDrop'[a]
  BY <1>1 DEF PendingSound
<1> QED BY <1>1, <1>2, <1>3, <1>4, <1>5 DEF PendingSound

\* Deleting blocks takes no operation that is in none.
LEMMA DeletedStillWait ==
    ASSUME TypeOK, NEW S \in SUBSET blocks, DeleteBlocks(S), NEW t, Waits(t)
    PROVE  Waits(t)'
<1>1. NoBlock \notin S
  BY BoundsAssumption DEF TypeOK, Blocks, NoBlock
<1> QED BY <1>1 DEF DeleteBlocks, Without, Waits

LEMMA RecoverParts ==
    ASSUME TypeOK, NEW a \in Accounts, RecoverFromReorganization(a)
    PROVE  /\ pc[a] = "reorganized" /\ pc'[a] = "fetch" /\ saved'[a] = state'[a]
           /\ state'[a].pending = state[a].pending
           /\ UNCHANGED <<toDrop, page, more>>
           /\ \A t : Waits(t) => Waits(t)'
<1>1. /\ pc[a] = "reorganized" /\ pc'[a] = "fetch" /\ saved'[a] = state'[a]
      /\ UNCHANGED <<toDrop, page, more>>
  BY DEF RecoverFromReorganization, Goto, TypeOK
<1>2. CASE DeleteBlocks(Doomed(a)) /\ \E b \in LastBlock(blocks') :
                                        state' = [state EXCEPT ![a].block = b]
  <2>1. PICK b \in LastBlock(blocks') : state' = [state EXCEPT ![a].block = b]
    BY <1>2
  <2>2. state'[a].pending = state[a].pending
    BY <2>1 DEF TypeOK, States
  <2>3. Doomed(a) \subseteq blocks
    BY DEF Doomed
  <2> QED BY <1>1, <1>2, <2>2, <2>3, DeletedStillWait
<1>3. CASE UNCHANGED <<databaseVars, state>>
  BY <1>1, <1>3 DEF databaseVars, Waits
<1> QED BY <1>2, <1>3 DEF RecoverFromReorganization

LEMMA PendingRecover ==
    ASSUME TypeOK, NEW a \in Accounts, PendingSound(a), RecoverFromReorganization(a)
    PROVE  PendingSound(a)'
<1>1. /\ pc[a] = "reorganized" /\ pc'[a] = "fetch" /\ saved'[a] = state'[a]
      /\ state'[a].pending = state[a].pending
      /\ UNCHANGED <<toDrop, page, more>>
      /\ \A t : Waits(t) => Waits(t)'
  BY RecoverParts
<1>2. OwnOnly(a)'
  BY <1>1 DEF PendingSound, OwnOnly
<1>3. \A t \in saved'[a].pending \cup state'[a].pending \cup toDrop'[a] : Waits(t)'
  BY <1>1 DEF PendingSound
<1> QED BY <1>1, <1>2, <1>3 DEF PendingSound

\* The end of a job drops nothing that is saved as pending.
LEMMA PendingMempool ==
    ASSUME TypeOK, NEW a \in Accounts, PendingSound(a), SynchronizeMempool(a)
    PROVE  PendingSound(a)'
<1>1. /\ state'[a] = NoState /\ toDrop'[a] = {} /\ page'[a] = NoRows
      /\ more'[a] = FALSE /\ pc'[a] = "idle" /\ saved'[a] = saved[a]
      /\ rows' = Without(rows, Dropped(a))
  BY DEF SynchronizeMempool, FreeBuddy, Goto, TypeOK
<1>2. saved[a].pending \cap Dropped(a) = {}
  BY DEF PendingSound, Dropped
<1>3. \A t \in saved'[a].pending : Waits(t)'
  BY <1>1, <1>2 DEF PendingSound, Waits, Without
<1>4. state'[a].pending = {} /\ DOMAIN page'[a] = {}
  BY <1>1 DEF NoState, NoRows
<1>5. OwnOnly(a)'
  BY <1>1, <1>4 DEF PendingSound, OwnOnly
<1> QED BY <1>1, <1>3, <1>4, <1>5 DEF PendingSound

-----------------------------------------------------------------------------
(* What the others do.                                                     *)

\* Operations of another account do not move what waits in this one.
LEMMA OthersStillWait ==
    ASSUME TypeOK, NEW c \in Accounts, PendingSound(c), NEW a \in Accounts \ {c},
           \/ PerformSynchronization(c) \/ Continue(c)
           \/ RequestFails(c) \/ InsertFails(c)
    PROVE  \A t \in Own(a) : Waits(t) => Waits(t)'
<1>1. Own(a) \cap Own(c) = {}
  BY DEF Own
<1>2. CASE rows' = rows
  BY <1>2 DEF Waits
<1>3. CASE InsertPage(c)
  <2>1. rows' = Over(page[c], rows) /\ DOMAIN page[c] \subseteq Own(c)
    BY <1>3 DEF InsertPage, BulkInsert, PendingSound, OwnOnly
  <2> QED BY <1>1, <2>1 DEF Waits, Over
<1>4. CASE RecoverFromReorganization(c)
  BY <1>4, RecoverParts
<1>5. CASE SynchronizeMempool(c)
  <2>1. rows' = Without(rows, Dropped(c)) /\ Dropped(c) \subseteq Own(c)
    BY <1>5 DEF SynchronizeMempool, PendingSound, OwnOnly, Dropped
  <2> QED BY <1>1, <2>1 DEF Waits, Without
<1>6. \/ rows' = rows \/ InsertPage(c) \/ RecoverFromReorganization(c)
      \/ SynchronizeMempool(c)
  BY DEF PerformSynchronization, Continue, RequestFails, InsertFails,
         AnswerTransactions, RefuseBlock, SaveState, SwallowError, databaseVars
<1> QED BY <1>2, <1>3, <1>4, <1>5, <1>6

LEMMA PendingJob ==
    ASSUME ~CutsWaiting, TypeOK, \A a \in Accounts : PendingSound(a), NEW c \in Accounts,
           \/ PerformSynchronization(c) \/ Continue(c)
           \/ RequestFails(c) \/ InsertFails(c)
    PROVE  \A a \in Accounts : PendingSound(a)'
<1> SUFFICES ASSUME NEW a \in Accounts PROVE PendingSound(a)'
  OBVIOUS
<1>1. CASE a = c
  BY <1>1, PendingPerform, PendingAnswer, PendingInsert, PendingInsertFails,
     PendingPlain, PendingRecover, PendingMempool DEF Continue
<1>2. CASE a # c
  <2>1. \A t \in Own(a) : Waits(t) => Waits(t)'
    BY <1>2, OthersStillWait
  <2>2. /\ saved'[a] = saved[a] /\ state'[a] = state[a] /\ toDrop'[a] = toDrop[a]
        /\ page'[a] = page[a] /\ more'[a] = more[a] /\ pc'[a] = pc[a]
    BY <1>2, OthersKept
  <2> QED BY <2>1, <2>2, PendingFrame
<1> QED BY <1>1, <1>2

\* A step that is of no job, and takes no operation that waits.
LEMMA PendingOutside ==
    ASSUME \A a \in Accounts : PendingSound(a), UNCHANGED <<saved, jobVars>>,
           \A t : Waits(t) => Waits(t)'
    PROVE  \A a \in Accounts : PendingSound(a)'
BY PendingFrame DEF jobVars

LEMMA PendingNext ==
    ASSUME ~CutsWaiting, TypeOK, AllPendingSound, [Next]_vars
    PROVE  AllPendingSound'
<1> SUFFICES ASSUME Undisturbed'
             PROVE  \A a \in Accounts : PendingSound(a)'
  BY DEF AllPendingSound
<1>1. \A a \in Accounts : PendingSound(a)
  <2>1. Undisturbed
    <3>1. CASE UNCHANGED boundVars
      BY <3>1 DEF Undisturbed, boundVars
    <3>2. CASE erases' = erases /\ crashes' = crashes
      BY <3>2 DEF Undisturbed
    <3>3. CASE Die
      BY <3>3 DEF Die, Undisturbed, TypeOK
    <3>4. ASSUME NEW a \in Accounts, NEW h \in 1..MaxHeight, EraseDataSince(a, h)
          PROVE  Undisturbed
      BY <3>4 DEF EraseDataSince, Undisturbed, TypeOK
    <3>5. ASSUME NEW t \in Txs, Appear(t) \/ Evict(t) \/ PushTransaction(t)
                                \/ OptimisticUpdate(t)
          PROVE  Undisturbed
      BY <3>1, <3>2, <3>5 DEF Appear, Evict, PushTransaction, OptimisticUpdate
    <3>6. ASSUME NEW a \in Accounts,
                 PerformSynchronization(a) \/ Continue(a) \/ AnswerCurrentBlock(a)
                 \/ UpdateCurrentBlock(a) \/ RequestFails(a) \/ InsertFails(a)
          PROVE  Undisturbed
      BY <3>1, <3>2, <3>6
      DEF PerformSynchronization, Continue, AnswerTransactions, RefuseBlock,
          InsertPage, SaveState, RecoverFromReorganization, SwallowError,
          SynchronizeMempool, AnswerCurrentBlock, UpdateCurrentBlock,
          RequestFails, InsertFails
    <3>7. CASE Mine \/ Reorganize \/ UNCHANGED vars
      BY <3>1, <3>7 DEF Mine, Reorganize, vars
    <3>8. ASSUME NEW a \in Accounts, CrashInInsert(a) \/ CrashInRecovery(a)
          PROVE  Die
      BY <3>8 DEF CrashInInsert, CrashInRecovery
    <3>9. CASE Crash
      BY <3>3, <3>9 DEF Crash
    <3> QED BY <3>3, <3>4, <3>5, <3>6, <3>7, <3>8, <3>9 DEF Next
  <2> QED BY <2>1 DEF AllPendingSound
<1>2. ~Die
  BY DEF Die, Undisturbed, TypeOK
<1>3. ASSUME NEW t \in Txs, OptimisticUpdate(t)
      PROVE  \A a \in Accounts : PendingSound(a)'
  <2>1. rows' = Over([u \in {t} |-> NoBlock], rows) /\ UNCHANGED <<saved, jobVars>>
    BY <1>3 DEF OptimisticUpdate, BulkInsert
  <2>2. \A u : Waits(u) => Waits(u)'
    BY <2>1 DEF Waits, Over
  <2> QED BY <1>1, <2>1, <2>2, PendingOutside
<1>4. CASE UNCHANGED <<rows, saved, jobVars>>
  <2>1. \A t : Waits(t) => Waits(t)'
    BY <1>4 DEF Waits
  <2> QED BY <1>1, <1>4, <2>1, PendingOutside
<1>5. ASSUME NEW t \in Txs, Appear(t) \/ Evict(t) \/ PushTransaction(t)
      PROVE  UNCHANGED <<rows, saved, jobVars>>
  BY <1>5 DEF Appear, Evict, PushTransaction, databaseVars
<1>6. CASE Mine \/ Reorganize \/ UNCHANGED vars
  BY <1>4, <1>6 DEF Mine, Reorganize, vars, databaseVars
<1>7. ASSUME NEW a \in Accounts, AnswerCurrentBlock(a) \/ UpdateCurrentBlock(a)
      PROVE  UNCHANGED <<rows, saved, jobVars>>
  BY <1>7 DEF AnswerCurrentBlock, UpdateCurrentBlock, databaseVars
<1>8. ASSUME NEW a \in Accounts,
             PerformSynchronization(a) \/ Continue(a) \/ RequestFails(a) \/ InsertFails(a)
      PROVE  \A c \in Accounts : PendingSound(c)'
  BY <1>1, <1>8, PendingJob
<1>9. ASSUME NEW a \in Accounts, NEW h \in 1..MaxHeight
      PROVE  ~EraseDataSince(a, h)
  BY DEF EraseDataSince, Undisturbed, TypeOK
<1>10. ~Crash /\ \A a \in Accounts : ~CrashInInsert(a) /\ ~CrashInRecovery(a)
  BY <1>2 DEF Crash, CrashInInsert, CrashInRecovery
<1> QED BY <1>3, <1>4, <1>5, <1>6, <1>7, <1>8, <1>9, <1>10 DEF Next

\* While nothing is erased and the process lives: a transaction that a saved
\* state holds as pending is stored without a block, whatever the accounts of
\* the pool synchronize, and whatever fails.  The process that dies between the
\* two commits of a page, or data that is erased, leaves the entry behind; so does
\* a job to which it was listed twice, on a page that ended among transactions
\* that wait and, once it was mined, on the next.
THEOREM PendingStaysPending ==
    ASSUME CutsWaiting = FALSE
    PROVE  Spec => [](Undisturbed => PendingIsPending)
<1> DEFINE IInv == TypeOK /\ AllPendingSound
<1>1. Init => IInv
  <2> SUFFICES ASSUME Init PROVE AllPendingSound
    BY TypeInit
  <2> SUFFICES ASSUME NEW a \in Accounts PROVE PendingSound(a)
    BY DEF AllPendingSound
  <2>1. /\ saved[a] = NoState /\ state[a] = NoState /\ toDrop[a] = {}
        /\ DOMAIN page[a] = {} /\ pc[a] = "idle"
    BY DEF Init, NoRows
  <2> QED BY <2>1 DEF PendingSound, OwnOnly, NoState
<1>2. IInv /\ [Next]_vars => IInv'
  BY TypeNext, PendingNext
<1>3. IInv => (Undisturbed => PendingIsPending)
  BY DEF AllPendingSound, PendingSound, PendingIsPending, Waits
<1> HIDE DEF IInv
<1> QED BY <1>1, <1>2, <1>3, PTL DEF Spec

-----------------------------------------------------------------------------
(* What was orphaned.                                                      *)

\* What waits is in no block.
MempoolWaits == \A t \in mempool : mined[t] = NoBlock

\* The blocks that operations are in.
Held == {rows[t] : t \in DOMAIN rows} \ {NoBlock}

\* Below a block of the chain C, the blocks V are of the chain.
Clean(b, V, C) == b \in C => \A v \in V : v[1] <= b[1] => v \in C

\* So they are below the blocks of S, and below those of K that are lower than
\* one of S: a synchronization may come to start from any of these.
CleanFrom(V, S, K, C) ==
    \A s \in S :
        /\ Clean(s, V, C)
        /\ \A b \in K : b[1] < s[1] => Clean(b, V, C)

\* So it is now, and when the page that was read has been inserted.
BelowClean(a) ==
    CleanFrom(Held \cup PageBlocks(a), Starts(a) \cup PageBlocks(a), Known(a),
              ChainBlocks)

\* No operation is above the block a job starts from, and no page begins below.
RowsBelow(a) ==
    /\ \A v \in Held : v[1] <= saved[a].block[1]
    /\ pc[a] # "idle" => \A v \in Held : v[1] <= state[a].block[1]
    /\ \A b \in PageBlocks(a) : state[a].block[1] <= b[1]

LeavesNoOrphan(a) == MempoolWaits /\ (crashes = 0 => BelowClean(a) /\ RowsBelow(a))

\* Less is said of fewer operations, starts and blocks.
LEMMA CleanLess ==
    ASSUME NEW V, NEW S, NEW K, NEW C, CleanFrom(V, S, K, C),
           NEW V2 \in SUBSET V, NEW S2 \in SUBSET S, NEW K2 \in SUBSET (K \cup S)
    PROVE  CleanFrom(V2, S2, K2, C)
BY DEF CleanFrom, Clean

LEMMA HeightsAre ==
    ASSUME TypeOK, NEW a \in Accounts
    PROVE  /\ \A b \in Held \cup PageBlocks(a) : b[1] \in Nat /\ b \in Blocks
           /\ \A b \in Starts(a) \cup Known(a) : b[1] \in Nat
           /\ state[a].block[1] \in Nat /\ saved[a].block[1] \in Nat
           /\ NoBlock[1] = 0 /\ Held \subseteq Starts(a)
<1>1. Held \subseteq Blocks /\ Held \subseteq Starts(a)
  BY DEF Held, Starts, TypeOK, IsRows, BlockRefs
<1>2. state[a].block \in Starts(a) /\ saved[a].block \in Starts(a)
  BY DEF Starts
<1> QED BY <1>1, <1>2, StartsType, BlockRefsType DEF NoBlock, BlockRefs

\* A step that brings no operation, start or block that was not accounted for.
LEMMA BelowCleanLess ==
    ASSUME NEW a, BelowClean(a), UNCHANGED chain,
           Held' \cup PageBlocks(a)' \subseteq Held \cup PageBlocks(a),
           Starts(a)' \cup PageBlocks(a)' \subseteq Starts(a) \cup PageBlocks(a),
           Known(a)' \subseteq Known(a) \cup Starts(a) \cup PageBlocks(a)
    PROVE  BelowClean(a)'
<1>1. CleanFrom(Held' \cup PageBlocks(a)', Starts(a)' \cup PageBlocks(a)', Known(a)',
                ChainBlocks)
  <2>1. Known(a)' \subseteq Known(a) \cup (Starts(a) \cup PageBlocks(a))
    OBVIOUS
  <2> QED BY <2>1, CleanLess DEF BelowClean
<1>2. ChainBlocks' = ChainBlocks
  BY DEF ChainBlocks
<1> QED BY <1>1, <1>2 DEF BelowClean

LEMMA MempoolWaitsNext ==
    ASSUME TypeOK, MempoolWaits, [Next]_vars
    PROVE  MempoolWaits'
<1>1. CASE UNCHANGED <<mined, mempool>>
  BY <1>1 DEF MempoolWaits
<1>2. CASE Mine
  <2>1. PICK S \in SUBSET mempool :
          /\ mempool' = mempool \ S
          /\ mined' = [t \in Txs |-> IF t \in S THEN <<Len(chain'), reorgs>> ELSE mined[t]]
    BY <1>2 DEF Mine
  <2> QED BY <2>1 DEF MempoolWaits, TypeOK
<1>3. CASE Reorganize
  <2>1. PICK k \in 0..(Len(chain) - 1) :
          \E place \in [{t \in Txs : mined[t][1] > k} ->
                       {<<h, reorgs'>> : h \in (k + 1)..Len(chain)} \cup {NoBlock}] :
            /\ mined' = Over(place, mined)
            /\ \E S \in SUBSET {t \in {u \in Txs : mined[u][1] > k} : place[t] = NoBlock} :
                mempool' = mempool \cup S
    BY <1>3 DEF Reorganize
  <2>2. PICK place \in [{t \in Txs : mined[t][1] > k} ->
                       {<<h, reorgs'>> : h \in (k + 1)..Len(chain)} \cup {NoBlock}] :
            /\ mined' = Over(place, mined)
            /\ \E S \in SUBSET {t \in {u \in Txs : mined[u][1] > k} : place[t] = NoBlock} :
                mempool' = mempool \cup S
    BY <2>1
  <2>3. k >= 0 /\ NoBlock[1] = 0
    BY LenProperties DEF TypeOK, NoBlock
  <2>4. ASSUME NEW t \in mempool
        PROVE  mined'[t] = NoBlock
    <3>1. t \in Txs /\ mined[t] = NoBlock /\ ~(mined[t][1] > k)
      BY <2>3, LenProperties DEF MempoolWaits, TypeOK
    <3> QED BY <2>2, <3>1 DEF Over, TypeOK
  <2>5. ASSUME NEW t \in {u \in Txs : mined[u][1] > k}, place[t] = NoBlock
        PROVE  mined'[t] = NoBlock
    BY <2>2, <2>5 DEF Over
  <2> QED BY <2>2, <2>4, <2>5 DEF MempoolWaits
<1>4. ASSUME NEW t \in Txs,
             Appear(t) \/ Evict(t) \/ PushTransaction(t) \/ OptimisticUpdate(t)
      PROVE  MempoolWaits'
  BY <1>4 DEF Appear, Evict, PushTransaction, OptimisticUpdate, MempoolWaits, explorerVars
<1>5. ASSUME NEW a \in Accounts,
             PerformSynchronization(a) \/ Continue(a) \/ AnswerCurrentBlock(a)
             \/ UpdateCurrentBlock(a) \/ RequestFails(a) \/ InsertFails(a)
      PROVE  UNCHANGED <<mined, mempool>>
  BY <1>5
  DEF PerformSynchronization, Continue, AnswerTransactions, RefuseBlock,
      InsertPage, SaveState, RecoverFromReorganization, SwallowError,
      SynchronizeMempool, AnswerCurrentBlock, UpdateCurrentBlock,
      RequestFails, InsertFails, explorerVars
<1>6. ASSUME NEW a \in Accounts,
             \/ CrashInInsert(a) \/ CrashInRecovery(a) \/ Crash
             \/ \E h \in 1..MaxHeight : EraseDataSince(a, h)
      PROVE  UNCHANGED <<mined, mempool>>
  BY <1>6 DEF CrashInInsert, CrashInRecovery, Crash, Die, EraseDataSince, explorerVars
<1>7. CASE Crash \/ UNCHANGED vars
  BY <1>1, <1>7 DEF Crash, Die, vars, explorerVars
<1> QED BY <1>1, <1>2, <1>3, <1>4, <1>5, <1>6, <1>7 DEF Next

\* Below a block that was seen, and is of the chain again, nothing has changed.
LEMMA ChainKept ==
    ASSUME TypeOK, ExplorerSound, Mine \/ Reorganize,
           NEW b \in BlockRefs \cup {Asked, NotAsked}, WasThere(b, Len(chain), reorgs),
           b \in ChainBlocks', NEW v \in ChainBlocks, v[1] <= b[1]
    PROVE  v \in ChainBlocks'
<1>1. PICK g \in 1..Len(chain) : v = <<g, chain[g]>>
  BY DEF ChainBlocks
<1>2. CASE Mine
  <2>1. /\ Len(chain) \in Nat /\ Len(chain') = Len(chain) + 1
        /\ \A h \in 1..Len(chain) : chain'[h] = chain[h]
    BY <1>2, LenProperties, AppendProperties DEF TypeOK, Mine
  <2>2. g \in 1..Len(chain') /\ v = <<g, chain'[g]>>
    BY <1>1, <2>1
  <2> QED BY <2>2 DEF ChainBlocks
<1>3. CASE Reorganize
  <2>1. PICK k \in 0..(Len(chain) - 1) :
          \A h \in 1..Len(chain) : chain'[h] = IF h <= k THEN chain[h] ELSE reorgs'
    BY <1>3, ReorganizeParts
  <2>2. Len(chain) \in Nat /\ Len(chain') = Len(chain) /\ reorgs' = reorgs + 1 /\ reorgs \in Nat
    BY <1>3, ReorganizeParts
  <2>3. PICK h \in 1..Len(chain) : b = <<h, chain'[h]>>
    BY <2>2 DEF ChainBlocks
  <2>4. h <= k
    BY <2>1, <2>2, <2>3, BlockRefsType DEF WasThere
  <2>5. g <= k
    BY <1>1, <2>2, <2>3, <2>4
  <2>6. g \in 1..Len(chain') /\ v = <<g, chain'[g]>>
    BY <1>1, <2>1, <2>2, <2>5
  <2> QED BY <2>6 DEF ChainBlocks
<1> QED BY <1>2, <1>3

LEMMA NetworkLeavesNoOrphan ==
    ASSUME TypeOK, NEW a \in Accounts, SkipsNothing(a), BelowClean(a), RowsBelow(a),
           Mine \/ Reorganize
    PROVE  BelowClean(a)' /\ RowsBelow(a)'
<1>1. UNCHANGED <<databaseVars, saved, jobVars, head>>
  BY DEF Mine, Reorganize
<1>2. /\ Starts(a)' = Starts(a) /\ Known(a)' = Known(a)
      /\ PageBlocks(a)' = PageBlocks(a) /\ Held' = Held
  BY <1>1 DEF Starts, Known, PageBlocks, Held, databaseVars, jobVars
<1>3. RowsBelow(a)'
  BY <1>1, <1>2 DEF RowsBelow, jobVars
<1> DEFINE Some == Starts(a) \cup Known(a) \cup PageBlocks(a)
<1>4. ASSUME NEW b \in Some, Clean(b, Held \cup PageBlocks(a), ChainBlocks)
      PROVE  Clean(b, Held \cup PageBlocks(a), ChainBlocks')
  <2>1. b \in BlockRefs \cup {Asked, NotAsked} /\ WasThere(b, Len(chain), reorgs)
    BY StartsType DEF SkipsNothing, Seen, BlockRefs
  <2>2. Persists(b)
    BY <2>1, MinePersists, ReorganizePersists DEF SkipsNothing
  <2> SUFFICES ASSUME b \in ChainBlocks', NEW v \in Held \cup PageBlocks(a), v[1] <= b[1]
               PROVE  v \in ChainBlocks'
    BY DEF Clean
  <2>3. v \in ChainBlocks
    BY <1>4, <2>2 DEF Persists, Clean
  <2> QED BY <2>1, <2>3, ChainKept DEF SkipsNothing
<1>5. CleanFrom(Held \cup PageBlocks(a), Starts(a) \cup PageBlocks(a), Known(a), ChainBlocks')
  BY <1>4 DEF BelowClean, CleanFrom
<1>6. BelowClean(a)'
  BY <1>2, <1>5 DEF BelowClean
<1> QED BY <1>3, <1>6

\* A step that changes no operation.
LEMMA SameRowsLeaveNoOrphan ==
    ASSUME NEW a \in Accounts, BelowClean(a), UNCHANGED <<chain, rows>>,
           page'[a] = page[a] \/ page'[a] = NoRows,
           saved'[a].block \in Starts(a), state'[a].block \in Starts(a),
           blocks' \subseteq Known(a), head'[a] \in Known(a)
    PROVE  BelowClean(a)'
<1>1. PageBlocks(a)' \subseteq PageBlocks(a) /\ Held' = Held
  BY DEF PageBlocks, NoRows, Held
<1>2. Starts(a)' \subseteq Starts(a) /\ Known(a)' \subseteq Known(a)
  BY DEF Starts, Known
<1> QED BY <1>1, <1>2, BelowCleanLess

LEMMA PerformLeavesNoOrphan ==
    ASSUME TypeOK, BlocksPresent, NEW a \in Accounts, Accounts = {a}, SkipsNothing(a),
           BelowClean(a), RowsBelow(a), PerformSynchronization(a)
    PROVE  BelowClean(a)' /\ RowsBelow(a)'
<1>1. PICK b \in StartingBlock(a) :
        state' = [state EXCEPT ![a] = [saved[a] EXCEPT !.block = b]]
  BY DEF PerformSynchronization
<1>2. state'[a].block = b
  <2>1. state'[a] = [saved[a] EXCEPT !.block = b]
    BY <1>1 DEF TypeOK
  <2> QED BY <2>1 DEF TypeOK, States
<1>3. /\ UNCHANGED <<chain, rows, blocks, saved>> /\ page' = page /\ page[a] = NoRows
      /\ head'[a] = Asked
  BY DEF PerformSynchronization, explorerVars, databaseVars, SkipsNothing, JobSound, TypeOK
<1>4. DOMAIN rows \cap Own(a) = DOMAIN rows
  BY DEF TypeOK, IsRows, Own, Txs
<1>5. b \in Starts(a) /\ \A v \in Held : v[1] <= b[1]
  <2>1. CASE saved[a].block # NoBlock /\ saved[a].block \notin blocks
    <3>1. b \in IF Held = {} THEN {NoBlock} ELSE Top(Held)
      BY <1>4, <2>1 DEF StartingBlock, LastBlockWithOperations, Held
    <3> QED BY <3>1 DEF Starts, Held, Top
  <2>2. CASE saved[a].block = NoBlock \/ saved[a].block \in blocks
    <3>1. b = saved[a].block
      BY <2>2 DEF StartingBlock
    <3> QED BY <3>1 DEF Starts, RowsBelow
  <2> QED BY <2>1, <2>2
<1>6. BelowClean(a)'
  <2>1. saved'[a].block \in Starts(a) /\ blocks' \subseteq Known(a) /\ head'[a] \in Known(a)
    BY <1>3 DEF Starts, Known
  <2> QED BY <1>2, <1>3, <1>5, <2>1, SameRowsLeaveNoOrphan
<1>7. RowsBelow(a)'
  <2>1. Held' = Held /\ PageBlocks(a)' = {}
    BY <1>3 DEF Held, PageBlocks, NoRows
  <2> QED BY <1>2, <1>3, <1>5, <2>1 DEF RowsBelow
<1> QED BY <1>6, <1>7

LEMMA CurrentBlockLeavesNoOrphan ==
    ASSUME TypeOK, NEW a \in Accounts, SkipsNothing(a), BelowClean(a), RowsBelow(a),
           AnswerCurrentBlock(a) \/ UpdateCurrentBlock(a)
    PROVE  BelowClean(a)' /\ RowsBelow(a)'
<1>1. UNCHANGED <<chain, rows, saved, jobVars>>
  BY DEF AnswerCurrentBlock, UpdateCurrentBlock, databaseVars, explorerVars
<1>2. /\ Starts(a)' = Starts(a) /\ PageBlocks(a)' = PageBlocks(a) /\ Held' = Held
      /\ ChainBlocks' = ChainBlocks
  BY <1>1 DEF Starts, PageBlocks, Held, ChainBlocks, jobVars
<1>3. RowsBelow(a)'
  BY <1>1, <1>2 DEF RowsBelow, jobVars
<1>4. CASE Known(a)' \subseteq Known(a)
  BY <1>1, <1>2, <1>3, <1>4, BelowCleanLess
<1>5. CASE chain # <<>> /\ head'[a] = <<Len(chain), chain[Len(chain)]>>
           /\ blocks' = blocks
  \* The current block is no lower than any that was seen.
  <2> DEFINE top == <<Len(chain), chain[Len(chain)]>>
  <2>1. Len(chain) \in Nat /\ top[1] = Len(chain)
    BY LenProperties DEF TypeOK
  <2>2. \A s \in Starts(a) \cup PageBlocks(a) : ~(top[1] < s[1])
    BY <2>1, StartsType, BlockRefsType DEF SkipsNothing, Seen, WasThere, BlockRefs
  <2>3. Known(a)' \subseteq Known(a) \cup {top}
    BY <1>5 DEF Known
  <2> HIDE DEF top
  <2>4. BelowClean(a)'
    BY <1>2, <2>2, <2>3 DEF BelowClean, CleanFrom
  <2> QED BY <1>3, <2>4
<1>6. CASE AnswerCurrentBlock(a)
  <2>1. blocks' = blocks /\ \/ head'[a] = NotAsked
                            \/ chain # <<>> /\ head'[a] = <<Len(chain), chain[Len(chain)]>>
    BY <1>6 DEF AnswerCurrentBlock, databaseVars, TypeOK
  <2>2. head'[a] = NotAsked => Known(a)' \subseteq Known(a)
    BY <2>1 DEF Known
  <2> QED BY <1>4, <1>5, <2>1, <2>2
<1>7. CASE UpdateCurrentBlock(a)
  BY <1>4, <1>7 DEF UpdateCurrentBlock, Known, TypeOK
<1> QED BY <1>6, <1>7

\* The explorer answers only when the block is of the chain, and no operation is
\* above it: whatever is stored is of the chain then, and so is the page.
LEMMA AnswerLeavesNoOrphan ==
    ASSUME TypeOK, MempoolWaits, NEW a \in Accounts, SkipsNothing(a),
           BelowClean(a), RowsBelow(a), AnswerTransactions(a)
    PROVE  BelowClean(a)' /\ RowsBelow(a)'
<1> DEFINE list == Listed(a, state[a].block)
<1>1. /\ pc[a] = "fetch" /\ state[a].block \in ChainBlocks \cup {NoBlock}
      /\ UNCHANGED <<chain, rows, blocks, saved, state, head>>
  BY DEF AnswerTransactions, explorerVars, databaseVars
<1>2. PICK S \in SUBSET DOMAIN list :
        page' = [page EXCEPT ![a] = [t \in S |-> list[t]]]
  BY DEF AnswerTransactions
<1>3. \A t \in DOMAIN list :
        /\ list[t] = mined[t] /\ t \in Txs
        /\ mined[t] # NoBlock => mined[t][1] >= state[a].block[1]
  BY DEF Listed, Own, MempoolWaits
<1> HIDE DEF list
<1>4. \A b \in PageBlocks(a)' : b \in ChainBlocks /\ b[1] >= state[a].block[1]
  <2> SUFFICES ASSUME NEW b \in PageBlocks(a)'
               PROVE  b \in ChainBlocks /\ b[1] >= state[a].block[1]
    OBVIOUS
  <2>1. PICK t \in S : b = list[t] /\ b # NoBlock
    BY <1>2 DEF PageBlocks, TypeOK
  <2> QED BY <1>3, <2>1 DEF SkipsNothing, ExplorerSound
<1>5. Held \subseteq ChainBlocks
  <2> SUFFICES ASSUME NEW v \in Held PROVE v \in ChainBlocks
    OBVIOUS
  <2>1. v[1] <= state[a].block[1] /\ v[1] \in Nat /\ v[1] # 0 /\ NoBlock[1] = 0
    BY <1>1, HeightsAre DEF RowsBelow, Blocks
  <2>2. state[a].block \in ChainBlocks
    BY <1>1, <2>1
  <2>3. Clean(state[a].block, Held \cup PageBlocks(a), ChainBlocks)
    BY DEF BelowClean, CleanFrom, Starts
  <2> QED BY <2>1, <2>2, <2>3 DEF Clean
<1>6. Held' = Held /\ ChainBlocks' = ChainBlocks
  BY <1>1 DEF Held, ChainBlocks
<1>7. BelowClean(a)'
  BY <1>4, <1>5, <1>6 DEF BelowClean, CleanFrom, Clean
<1>8. RowsBelow(a)'
  <2>1. \A b \in PageBlocks(a)' : state[a].block[1] <= b[1]
    <3>1. \A b \in PageBlocks(a)' : b[1] \in Nat
      BY <1>4, ChainTop
    <3> QED BY <1>4, <3>1, HeightsAre
  <2> QED BY <1>1, <1>6, <2>1 DEF RowsBelow
<1> QED BY <1>7, <1>8

LEMMA HeldAfterInsert ==
    ASSUME NEW a, rows' = Over(page[a], rows)
    PROVE  Held' \subseteq Held \cup PageBlocks(a)
BY OverValues DEF Held, PageBlocks

LEMMA InsertLeavesNoOrphan ==
    ASSUME TypeOK, NEW a \in Accounts, BelowClean(a), RowsBelow(a), InsertPage(a)
    PROVE  BelowClean(a)' /\ RowsBelow(a)'
<1>1. PICK b \in BlockAfter(a) :
        /\ state' = [state EXCEPT ![a] = StateAfter(a, b)]
        /\ saved' = IF PageBlocks(a) = {} THEN saved
                    ELSE [saved EXCEPT ![a] = StateAfter(a, b)]
  BY DEF InsertPage
<1>2. /\ state'[a].block = b
      /\ saved'[a].block = IF PageBlocks(a) = {} THEN saved[a].block ELSE b
  BY <1>1 DEF StateAfter, TypeOK
<1>3. b = state[a].block \/ b \in PageBlocks(a)
  BY DEF BlockAfter, Top
<1>4. /\ pc[a] = "page" /\ UNCHANGED chain /\ page'[a] = NoRows /\ head' = head
      /\ rows' = Over(page[a], rows) /\ blocks' = blocks \cup PageBlocks(a)
  BY DEF InsertPage, BulkInsert, PageBlocks, explorerVars, TypeOK
<1>5. Held' \subseteq Held \cup PageBlocks(a) /\ PageBlocks(a)' = {}
  BY <1>4, HeldAfterInsert DEF PageBlocks, NoRows
<1>6. BelowClean(a)'
  <2>1. Starts(a)' \subseteq Starts(a) \cup PageBlocks(a)
    <3>1. {state[a].block, saved[a].block, NoBlock} \cup Held \subseteq Starts(a)
      BY DEF Starts, Held
    <3>2. Starts(a)' = {NoBlock, saved'[a].block, state'[a].block} \cup Held'
      BY DEF Starts, Held
    <3> QED BY <1>2, <1>3, <1>5, <3>1, <3>2
  <2>2. Known(a)' \subseteq Known(a) \cup PageBlocks(a)
    BY <1>4 DEF Known
  <2> QED BY <1>4, <1>5, <2>1, <2>2, BelowCleanLess
<1>7. ASSUME NEW v \in Held \cup PageBlocks(a)
      PROVE  v[1] <= b[1]
  <2>1. v[1] \in Nat /\ b[1] \in Nat /\ state[a].block[1] \in Nat
    BY <1>3, HeightsAre
  <2>2. CASE PageBlocks(a) = {}
    BY <1>3, <1>4, <1>7, <2>2 DEF RowsBelow
  <2>3. CASE PageBlocks(a) # {}
    <3>1. b \in PageBlocks(a) /\ \A c \in PageBlocks(a) : c[1] <= b[1]
      BY <2>3 DEF BlockAfter, Top
    <3>2. state[a].block[1] <= b[1]
      BY <3>1 DEF RowsBelow
    <3>3. v \in Held => v[1] <= state[a].block[1]
      BY <1>4 DEF RowsBelow
    <3> QED BY <1>7, <2>1, <3>1, <3>2, <3>3
  <2> QED BY <2>2, <2>3
<1>8. RowsBelow(a)'
  <2>1. PageBlocks(a) = {} => \A v \in Held' : v[1] <= saved[a].block[1]
    BY <1>5 DEF RowsBelow
  <2> QED BY <1>2, <1>5, <1>7, <2>1 DEF RowsBelow
<1> QED BY <1>6, <1>8

\* Steps that only move the job on.
LEMMA PlainLeavesNoOrphan ==
    ASSUME TypeOK, NEW a \in Accounts, BelowClean(a), RowsBelow(a),
           RefuseBlock(a) \/ RequestFails(a) \/ SaveState(a) \/ SwallowError(a)
               \/ InsertFails(a)
    PROVE  BelowClean(a)' /\ RowsBelow(a)'
<1>1. /\ UNCHANGED <<chain, rows, blocks, head>>
      /\ page'[a] = page[a] \/ page'[a] = NoRows
      /\ pc[a] # "idle"
      /\ saved'[a].block \in {saved[a].block, state[a].block}
  BY DEF RefuseBlock, RequestFails, SaveState, SwallowError, InsertFails, TypeOK,
         explorerVars, databaseVars
<1>2. state'[a].block = state[a].block
  <2>1. CASE InsertFails(a)
    <3>1. state'[a] = StateAfter(a, state[a].block)
      BY <2>1 DEF InsertFails, TypeOK
    <3> QED BY <3>1 DEF StateAfter
  <2> QED BY <2>1 DEF RefuseBlock, RequestFails, SaveState, SwallowError
<1>3. BelowClean(a)'
  <2>1. /\ saved'[a].block \in Starts(a) /\ state'[a].block \in Starts(a)
        /\ blocks' \subseteq Known(a) /\ head'[a] \in Known(a)
    BY <1>1, <1>2 DEF Starts, Known
  <2> QED BY <1>1, <2>1, SameRowsLeaveNoOrphan
<1>4. RowsBelow(a)'
  <2>1. Held' = Held /\ PageBlocks(a)' \subseteq PageBlocks(a)
    BY <1>1 DEF Held, PageBlocks, NoRows
  <2> QED BY <1>1, <1>2, <2>1 DEF RowsBelow
<1> QED BY <1>3, <1>4

\* A recovery deletes the orphaned block, with its operations, and goes back to
\* a block below it.
LEMMA RecoverLeavesNoOrphan ==
    ASSUME TypeOK, BlocksPresent, NEW a \in Accounts, SkipsNothing(a),
           BelowClean(a), RowsBelow(a), RecoverFromReorganization(a)
    PROVE  BelowClean(a)' /\ RowsBelow(a)'
<1>1. /\ pc[a] = "reorganized" /\ UNCHANGED chain /\ page' = page /\ page[a] = NoRows
      /\ head' = head /\ saved'[a] = state'[a]
  BY DEF RecoverFromReorganization, explorerVars, SkipsNothing, JobSound, TypeOK
<1>2. PageBlocks(a) = {} /\ PageBlocks(a)' = {} /\ ChainBlocks' = ChainBlocks
  BY <1>1 DEF PageBlocks, NoRows, ChainBlocks
<1>3. CASE UNCHANGED <<databaseVars, state>>
  <2>1. saved'[a].block \in Starts(a) /\ state'[a].block \in Starts(a)
        /\ blocks' \subseteq Known(a) /\ head'[a] \in Known(a) /\ rows' = rows
    BY <1>1, <1>3 DEF Starts, Known, databaseVars
  <2>2. BelowClean(a)'
    BY <1>1, <2>1, SameRowsLeaveNoOrphan
  <2>3. Held' = Held
    BY <2>1 DEF Held
  <2> QED BY <1>1, <1>2, <1>3, <2>2, <2>3 DEF RowsBelow
<1>4. CASE CanDelete(Doomed(a)) /\ DeleteBlocks(Doomed(a))
           /\ \E b \in LastBlock(blocks') : state' = [state EXCEPT ![a].block = b]
  <2>1. PICK b \in LastBlock(blocks') : state' = [state EXCEPT ![a].block = b]
    BY <1>4
  <2>2. state'[a].block = b /\ saved'[a].block = b
    BY <1>1, <2>1 DEF TypeOK, States
  <2>3. /\ blocks' \subseteq blocks /\ Held' \subseteq Held
        /\ \A c \in blocks' : ~(c[1] >= state[a].block[1])
    BY <1>4, WithoutValues DEF DeleteBlocks, Doomed, Held
  <2>4. \A v \in Held' : v[1] <= b[1]
    <3>1. BlocksPresent'
      BY <1>4, DeleteBlocksKeeps
    <3>2. Held' \subseteq blocks'
      BY <3>1 DEF Held, BlocksPresent
    <3> QED BY <3>2 DEF LastBlock, Top
  <2>5. RowsBelow(a)'
    BY <1>2, <2>2, <2>4 DEF RowsBelow
  <2>6. b = NoBlock \/ (b \in Known(a) /\ b[1] < state[a].block[1])
    <3>1. b = NoBlock \/ b \in blocks'
      BY DEF LastBlock, Top
    <3>2. b \in blocks' => b \in Known(a)
      BY <2>3 DEF Known
    <3> QED BY <2>3, <3>1, <3>2, HeightsAre
  <2>7. /\ Clean(b, Held, ChainBlocks)
        /\ \A c \in Known(a) : c[1] < b[1] => Clean(c, Held, ChainBlocks)
    <3>1. CleanFrom(Held, Starts(a), Known(a), ChainBlocks)
      BY <1>2 DEF BelowClean
    <3>2. state[a].block \in Starts(a) /\ NoBlock \in Starts(a)
      BY DEF Starts
    <3>3. CASE b = NoBlock
      BY <3>1, <3>2, <3>3 DEF CleanFrom
    <3>4. CASE b \in Known(a) /\ b[1] < state[a].block[1]
      <4>1. \A c \in Known(a) : c[1] < b[1] => c[1] < state[a].block[1]
        BY <3>4, HeightsAre
      <4> QED BY <3>1, <3>2, <3>4, <4>1 DEF CleanFrom
    <3> QED BY <2>6, <3>3, <3>4
  <2>8. Starts(a)' \subseteq {NoBlock, b} \cup Held'
    BY <2>2 DEF Starts, Held
  <2>9. Known(a)' \subseteq Known(a)
    BY <1>1, <2>3 DEF Known
  <2>10. CleanFrom(Held', {NoBlock, b} \cup Held', Known(a), ChainBlocks)
    <3>1. CleanFrom(Held, Starts(a), Known(a), ChainBlocks) /\ NoBlock \in Starts(a)
      BY <1>2 DEF BelowClean, Starts
    <3>2. CleanFrom(Held, Starts(a) \cup {b}, Known(a), ChainBlocks)
      BY <2>7, <3>1 DEF CleanFrom
    <3>3. {NoBlock, b} \cup Held' \subseteq Starts(a) \cup {b}
      BY <2>3, <3>1, HeightsAre
    <3> QED BY <2>3, <3>2, <3>3, CleanLess
  <2>11. CleanFrom(Held', Starts(a)', Known(a)', ChainBlocks)
    <3>1. Known(a)' \subseteq Known(a) \cup ({NoBlock, b} \cup Held')
      BY <2>9
    <3> QED BY <2>8, <2>10, <3>1, CleanLess
  <2>12. BelowClean(a)'
    BY <1>2, <2>11 DEF BelowClean
  <2> QED BY <2>5, <2>12
<1> QED BY <1>3, <1>4 DEF RecoverFromReorganization

\* Operations go, and nothing else of the account.
LEMMA FewerRowsLeaveNoOrphan ==
    ASSUME TypeOK, NEW a \in Accounts, BelowClean(a), RowsBelow(a),
           UNCHANGED <<chain, blocks, head, saved>>, Held' \subseteq Held,
           \/ UNCHANGED jobVars
           \/ pc'[a] = "idle" /\ state'[a] = NoState /\ page'[a] = NoRows
    PROVE  BelowClean(a)' /\ RowsBelow(a)'
<1>1. PageBlocks(a)' = PageBlocks(a) \/ PageBlocks(a)' = {}
  BY DEF PageBlocks, NoRows, jobVars
<1>2. state'[a].block = state[a].block \/ state'[a].block = NoBlock
  BY DEF NoState, jobVars
<1>3. Starts(a)' \subseteq Starts(a) /\ Known(a)' = Known(a)
  <2>1. {rows'[t] : t \in DOMAIN rows'} \subseteq Held \cup {NoBlock}
    BY DEF Held
  <2> QED BY <1>2, <2>1, HeightsAre DEF Starts, Known
<1>4. BelowClean(a)'
  BY <1>1, <1>3, BelowCleanLess
<1>5. RowsBelow(a)'
  <2>1. CASE UNCHANGED jobVars
    BY <2>1, <1>1 DEF RowsBelow, jobVars, PageBlocks
  <2>2. CASE pc'[a] = "idle" /\ page'[a] = NoRows
    <3>1. PageBlocks(a)' = {}
      BY <2>2 DEF PageBlocks, NoRows
    <3> QED BY <2>2, <3>1 DEF RowsBelow
  <2> QED BY <2>1, <2>2
<1> QED BY <1>4, <1>5

LEMMA MempoolLeavesNoOrphan ==
    ASSUME TypeOK, NEW a \in Accounts, BelowClean(a), RowsBelow(a), SynchronizeMempool(a)
    PROVE  BelowClean(a)' /\ RowsBelow(a)'
<1>1. /\ UNCHANGED <<chain, blocks, head, saved>> /\ rows' = Without(rows, Dropped(a))
      /\ pc'[a] = "idle" /\ state'[a] = NoState /\ page'[a] = NoRows
  BY DEF SynchronizeMempool, FreeBuddy, Goto, TypeOK, explorerVars
<1>2. Held' \subseteq Held
  BY <1>1, WithoutValues DEF Held
<1> QED BY <1>1, <1>2, FewerRowsLeaveNoOrphan

LEMMA OptimisticLeavesNoOrphan ==
    ASSUME TypeOK, NEW a \in Accounts, BelowClean(a), RowsBelow(a), NEW t \in Txs,
           OptimisticUpdate(t)
    PROVE  BelowClean(a)' /\ RowsBelow(a)'
<1>1. /\ UNCHANGED <<chain, head, saved, jobVars>> /\ blocks' = blocks
      /\ rows' = Over([u \in {t} |-> NoBlock], rows)
  BY DEF OptimisticUpdate, BulkInsert, explorerVars
<1>2. Held' \subseteq Held
  BY <1>1, OverValues DEF Held
<1> QED BY <1>1, <1>2, FewerRowsLeaveNoOrphan

\* An erasure goes back to the highest block below the height it erases from,
\* and no operation that is left is above that.
LEMMA EraseLeavesNoOrphan ==
    ASSUME TypeOK, BlocksPresent, NEW a \in Accounts, Accounts = {a},
           BelowClean(a), RowsBelow(a),
           NEW h \in 1..MaxHeight, EraseDataSince(a, h)
    PROVE  BelowClean(a)' /\ RowsBelow(a)'
<1>1. PICK b \in LastBlock({c \in blocks : c[1] < h}) :
        saved' = IF saved[a].block[1] > b[1]
                 THEN [saved EXCEPT ![a].block = b] ELSE saved
  BY DEF EraseDataSince
<1>2. UNCHANGED <<chain, blocks, head, jobVars>>
      /\ rows' = Without(rows, {t \in DOMAIN rows \cap Own(a) : Position(rows[t]) >= h})
  BY DEF EraseDataSince, explorerVars
<1>3. saved'[a].block = IF saved[a].block[1] > b[1] THEN b ELSE saved[a].block
  BY <1>1 DEF TypeOK, States
<1>4. Held' \subseteq Held /\ \A v \in Held' : v[1] < h
  <2> SUFFICES ASSUME NEW v \in Held' PROVE v \in Held /\ v[1] < h
    OBVIOUS
  <2>1. PICK t \in DOMAIN rows' : v = rows'[t] /\ v # NoBlock
    BY DEF Held
  <2>2. /\ t \in DOMAIN rows /\ v = rows[t]
        /\ ~(t \in Own(a) /\ Position(rows[t]) >= h)
    BY <1>2, <2>1, WithoutValues
  <2>3. t \in Own(a) /\ v \in Held
    BY <2>1, <2>2 DEF TypeOK, IsRows, Own, Txs, Held
  <2>4. v[1] \in Nat /\ ~(v[1] >= h)
    BY <2>1, <2>2, <2>3, HeightsAre DEF Position
  <2> QED BY <2>3, <2>4
<1>5. \A v \in Held' : v[1] <= b[1]
  <2>1. Held' \subseteq {c \in blocks : c[1] < h}
    BY <1>4 DEF Held, BlocksPresent
  <2> QED BY <2>1 DEF LastBlock, Top
<1>6. /\ PageBlocks(a)' = PageBlocks(a) /\ Known(a)' = Known(a)
      /\ Starts(a)' \subseteq Starts(a) \cup {saved'[a].block}
  <2>1. {rows'[t] : t \in DOMAIN rows'} \subseteq Held' \cup {NoBlock}
    BY DEF Held
  <2> QED BY <1>2, <1>4, <2>1, HeightsAre DEF Starts, Known, PageBlocks, jobVars
<1>7. RowsBelow(a)'
  BY <1>2, <1>3, <1>4, <1>5, <1>6 DEF RowsBelow, jobVars
<1> DEFINE V == Held \cup PageBlocks(a)
<1>8. \/ saved'[a].block \in Starts(a)
      \/ saved'[a].block \in Known(a) /\ saved'[a].block[1] < saved[a].block[1]
  <2>1. b = NoBlock \/ b \in Known(a)
    BY DEF LastBlock, Top, Known
  <2>2. saved[a].block \in Starts(a) /\ NoBlock \in Starts(a)
    BY DEF Starts
  <2>3. b[1] \in Nat
    BY <2>1, <2>2, HeightsAre
  <2> QED BY <1>3, <2>1, <2>2, <2>3, HeightsAre
<1>9. /\ Clean(saved'[a].block, V, ChainBlocks)
      /\ \A c \in Known(a) : c[1] < saved'[a].block[1] => Clean(c, V, ChainBlocks)
  <2>1. saved[a].block \in Starts(a)
    BY DEF Starts
  <2>2. CASE saved'[a].block \in Starts(a)
    BY <2>2 DEF BelowClean, CleanFrom
  <2>3. CASE saved'[a].block \in Known(a) /\ saved'[a].block[1] < saved[a].block[1]
    <3>1. \A c \in Known(a) : c[1] < saved'[a].block[1] => c[1] < saved[a].block[1]
      BY <2>3, HeightsAre
    <3> QED BY <2>1, <2>3, <3>1 DEF BelowClean, CleanFrom
  <2> QED BY <1>8, <2>2, <2>3
<1>10. CleanFrom(V, Starts(a) \cup PageBlocks(a) \cup {saved'[a].block}, Known(a), ChainBlocks)
  BY <1>9 DEF BelowClean, CleanFrom
<1> HIDE DEF V
<1>11. BelowClean(a)'
  <2>1. /\ Held' \cup PageBlocks(a)' \subseteq V
        /\ Starts(a)' \cup PageBlocks(a)'
                \subseteq Starts(a) \cup PageBlocks(a) \cup {saved'[a].block}
    BY <1>4, <1>6 DEF V
  <2>2. Known(a)' \subseteq Known(a) \cup (Starts(a) \cup PageBlocks(a) \cup {saved'[a].block})
    BY <1>6
  <2>3. CleanFrom(Held' \cup PageBlocks(a)', Starts(a)' \cup PageBlocks(a)', Known(a)',
                  ChainBlocks)
    BY <1>10, <2>1, <2>2, CleanLess
  <2>4. ChainBlocks' = ChainBlocks
    BY <1>2 DEF ChainBlocks
  <2> QED BY <2>3, <2>4 DEF BelowClean
<1> QED BY <1>7, <1>11

LEMMA LeavesNoOrphanNext ==
    ASSUME TypeOK, BlocksPresent, NEW a, Accounts = {a}, SkipsNothing(a),
           LeavesNoOrphan(a), [Next]_vars
    PROVE  LeavesNoOrphan(a)'
<1> SUFFICES ASSUME crashes' = 0
             PROVE  BelowClean(a)' /\ RowsBelow(a)'
  BY MempoolWaitsNext DEF LeavesNoOrphan
<1>1. a \in Accounts /\ \A c \in Accounts : c = a
  OBVIOUS
<1>2. ~Die
  BY DEF Die, TypeOK
<1>3. crashes = 0
  <2>1. ~Crash /\ ~CrashInInsert(a) /\ ~CrashInRecovery(a)
    BY <1>2 DEF Crash, CrashInInsert, CrashInRecovery
  <2>2. ASSUME NEW t \in Txs, Appear(t) \/ Evict(t) \/ PushTransaction(t)
                              \/ OptimisticUpdate(t)
        PROVE  crashes' = crashes
    BY <2>2 DEF Appear, Evict, PushTransaction, OptimisticUpdate, boundVars
  <2>3. CASE PerformSynchronization(a) \/ Continue(a) \/ AnswerCurrentBlock(a)
             \/ UpdateCurrentBlock(a) \/ RequestFails(a) \/ InsertFails(a)
    BY <2>3
    DEF PerformSynchronization, Continue, AnswerTransactions, RefuseBlock,
        InsertPage, SaveState, RecoverFromReorganization, SwallowError,
        SynchronizeMempool, AnswerCurrentBlock, UpdateCurrentBlock,
        RequestFails, InsertFails, boundVars
  <2>4. CASE Mine \/ Reorganize \/ UNCHANGED vars
    BY <2>4 DEF Mine, Reorganize, vars, boundVars
  <2>5. ASSUME NEW h \in 1..MaxHeight, EraseDataSince(a, h)
        PROVE  crashes' = crashes
    BY <2>5 DEF EraseDataSince
  <2> QED BY <1>1, <2>1, <2>2, <2>3, <2>4, <2>5 DEF Next
<1>4. MempoolWaits /\ BelowClean(a) /\ RowsBelow(a)
  BY <1>3 DEF LeavesNoOrphan
<1>5. CASE Mine \/ Reorganize
  BY <1>1, <1>4, <1>5, NetworkLeavesNoOrphan
<1>6. CASE UNCHANGED <<chain, rows, blocks, head, saved, jobVars>>
  <2>1. Held' = Held
    BY <1>6 DEF Held
  <2> QED BY <1>1, <1>4, <1>6, <2>1, FewerRowsLeaveNoOrphan
<1>7. ASSUME NEW t \in Txs, Appear(t) \/ Evict(t) \/ PushTransaction(t)
      PROVE  UNCHANGED <<chain, rows, blocks, head, saved, jobVars>>
  BY <1>7 DEF Appear, Evict, PushTransaction, databaseVars
<1>8. UNCHANGED vars => UNCHANGED <<chain, rows, blocks, head, saved, jobVars>>
  BY DEF vars, explorerVars, databaseVars
<1>9. ASSUME NEW t \in Txs, OptimisticUpdate(t)
      PROVE  BelowClean(a)' /\ RowsBelow(a)'
  BY <1>1, <1>4, <1>9, OptimisticLeavesNoOrphan
<1>10. CASE PerformSynchronization(a)
  BY <1>1, <1>4, <1>10, PerformLeavesNoOrphan
<1>11. CASE Continue(a)
  BY <1>1, <1>4, <1>11, AnswerLeavesNoOrphan, PlainLeavesNoOrphan, InsertLeavesNoOrphan,
     RecoverLeavesNoOrphan, MempoolLeavesNoOrphan DEF Continue
<1>12. CASE AnswerCurrentBlock(a) \/ UpdateCurrentBlock(a)
  BY <1>1, <1>4, <1>12, CurrentBlockLeavesNoOrphan
<1>13. CASE RequestFails(a) \/ InsertFails(a)
  BY <1>1, <1>4, <1>13, PlainLeavesNoOrphan
<1>14. ASSUME NEW h \in 1..MaxHeight, EraseDataSince(a, h)
       PROVE  BelowClean(a)' /\ RowsBelow(a)'
  BY <1>1, <1>4, <1>14, EraseLeavesNoOrphan
<1>15. ~Crash /\ ~CrashInInsert(a) /\ ~CrashInRecovery(a)
  BY <1>2 DEF Crash, CrashInInsert, CrashInRecovery
<1> QED BY <1>1, <1>5, <1>6, <1>7, <1>8, <1>9, <1>10, <1>11, <1>12, <1>13, <1>14, <1>15
        DEF Next

\* In a pool with one account, as long as the process lives: once the saved block
\* is of the chain, no operation is left below it from a block that was orphaned,
\* however often the chain is reorganized, whatever fails, and whatever is erased
\* between jobs.  A process that dies between the two commits of a page may leave
\* one: the operations are then above the block that was saved.
THEOREM NothingIsOrphaned ==
    ASSUME NEW a, Accounts = {a}, EraseDuringSync = FALSE
    PROVE  Spec => [](crashes = 0 => NothingOrphaned)
<1> DEFINE IInv == TypeOK /\ BlocksPresent /\ SkipsNothing(a) /\ LeavesNoOrphan(a)
<1>1. Init => IInv
  <2> SUFFICES ASSUME Init PROVE LeavesNoOrphan(a)
    BY TypeInit, InitSkipsNothing DEF Init, NoRows, BlocksPresent
  <2>1. /\ Held = {} /\ PageBlocks(a) = {}
    BY DEF Init, Held, PageBlocks, NoRows
  <2>2. mempool = {}
    BY DEF Init
  <2> QED BY <2>1, <2>2 DEF LeavesNoOrphan, MempoolWaits, BelowClean, CleanFrom,
                            Clean, RowsBelow
<1>2. IInv /\ [Next]_vars => IInv'
  BY TypeNext, BlocksPresentNext, SkipsNothingNext, LeavesNoOrphanNext
<1>3. IInv => (crashes = 0 => NothingOrphaned)
  <2> SUFFICES ASSUME IInv, crashes = 0, saved[a].block \in ChainBlocks,
                      NEW t \in DOMAIN rows \cap Own(a), rows[t] # NoBlock,
                      rows[t][1] <= saved[a].block[1]
               PROVE  rows[t] \in ChainBlocks
    BY DEF NothingOrphaned
  <2>1. Clean(saved[a].block, Held \cup PageBlocks(a), ChainBlocks)
    BY DEF LeavesNoOrphan, BelowClean, CleanFrom, Starts
  <2>2. rows[t] \in Held
    BY DEF Held
  <2> QED BY <2>1, <2>2 DEF Clean
<1> HIDE DEF IInv
<1> QED BY <1>1, <1>2, <1>3, PTL DEF Spec

-----------------------------------------------------------------------------
(* What a success says.                                                    *)

\* No request failed, no insertion, and no operation was taken out of its block.
Quiet == failures = 0 /\ unmined = {}

\* What is still in the block it was in when the job began is in R.
DueMet(a, R) ==
    \A t \in DOMAIN due[a] : mined[t] = due[a][t] => t \in DOMAIN R /\ R[t] = mined[t]

\* So it is once the last page was read, and when it has been inserted.
DueSound(a) ==
    /\ \A t \in DOMAIN due[a] :
        t \in Own(a) /\ due[a][t] \in Blocks /\ WasThere(due[a][t], Len(chain), reorgs)
    /\ pc[a] = "page" /\ ~more[a] => DueMet(a, Over(page[a], rows))
    /\ pc[a] \in {"stored", "mempool"} => DueMet(a, rows)
    /\ pc[a] # "failed"

\* A transaction is not put back into a block that was seen.
LEMMA NotMinedAgain ==
    ASSUME TypeOK, Mine \/ Reorganize, NEW t \in Txs, NEW b \in Blocks,
           WasThere(b, Len(chain), reorgs), mined'[t] = b
    PROVE  mined[t] = b
<1>1. b[1] \in Nat /\ b[2] \in Nat /\ b[1] # 0 /\ NoBlock[1] = 0
  BY BoundsAssumption DEF Blocks, NoBlock
<1>2. CASE Mine
  <2>1. Len(chain) \in Nat /\ Len(chain') = Len(chain) + 1
    BY <1>2, LenProperties, AppendProperties DEF TypeOK, Mine
  <2>2. PICK S \in SUBSET mempool :
          mined' = [u \in Txs |-> IF u \in S THEN <<Len(chain'), reorgs>> ELSE mined[u]]
    BY <1>2 DEF Mine
  <2>3. t \notin S
    BY <1>1, <2>1, <2>2 DEF WasThere
  <2> QED BY <2>2, <2>3
<1>3. CASE Reorganize
  <2>1. PICK k \in 0..(Len(chain) - 1) :
          \A u \in Txs :
            IF mined[u][1] > k
            THEN mined'[u] \in {<<h, reorgs'>> : h \in (k + 1)..Len(chain)} \cup {NoBlock}
            ELSE mined'[u] = mined[u]
    BY <1>3, ReorganizeParts
  <2>2. reorgs' = reorgs + 1 /\ reorgs \in Nat /\ b[2] <= reorgs
    BY <1>1, <1>3, ReorganizeParts DEF WasThere
  <2>3. b \notin {<<h, reorgs'>> : h \in (k + 1)..Len(chain)} \cup {NoBlock}
    BY <1>1, <2>2
  <2> QED BY <2>1, <2>3
<1> QED BY <1>2, <1>3

LEMMA NetworkKeepsDue ==
    ASSUME TypeOK, NEW a \in Accounts, DueSound(a), Mine \/ Reorganize
    PROVE  DueSound(a)'
<1>1. UNCHANGED <<rows, jobVars>>
  BY DEF Mine, Reorganize, databaseVars
<1>2. /\ Len(chain) \in Nat /\ reorgs \in Nat
      /\ Len(chain') \in Nat /\ Len(chain') >= Len(chain)
      /\ reorgs' \in Nat /\ reorgs' >= reorgs
  <2>1. CASE Mine
    <3>1. Len(chain) \in Nat /\ Len(chain') = Len(chain) + 1
      BY <2>1, LenProperties, AppendProperties DEF TypeOK, Mine
    <3>2. reorgs \in Nat /\ reorgs' = reorgs
      BY <2>1 DEF TypeOK, Mine
    <3> QED BY <3>1, <3>2
  <2>2. CASE Reorganize
    BY <2>2, ReorganizeParts
  <2> QED BY <2>1, <2>2
<1>3. ASSUME NEW t \in DOMAIN due[a]
      PROVE  /\ t \in Own(a) /\ due[a][t] \in Blocks
             /\ WasThere(due[a][t], Len(chain'), reorgs')
             /\ mined'[t] = due[a][t] => mined[t] = due[a][t]
  <2>1. t \in Own(a) /\ due[a][t] \in Blocks /\ WasThere(due[a][t], Len(chain), reorgs)
    BY DEF DueSound
  <2>2. due[a][t][1] \in Nat /\ due[a][t][2] \in Nat
    BY <2>1, BoundsAssumption DEF Blocks
  <2>3. WasThere(due[a][t], Len(chain'), reorgs')
    BY <1>2, <2>1, <2>2 DEF WasThere
  <2>4. mined'[t] = due[a][t] => mined[t] = due[a][t]
    BY <2>1, NotMinedAgain DEF Own
  <2> QED BY <2>1, <2>3, <2>4
<1>4. \A R : DueMet(a, R) => \A t \in DOMAIN due[a] : mined'[t] = due[a][t] =>
                                t \in DOMAIN R /\ R[t] = mined'[t]
  BY <1>3 DEF DueMet
<1>5. pc'[a] = "page" /\ ~more'[a] => DueMet(a, Over(page[a], rows))'
  <2>1. Over(page[a], rows)' = Over(page[a], rows)
    BY <1>1 DEF jobVars, Over
  <2> QED BY <1>1, <1>4, <2>1 DEF DueSound, DueMet, jobVars
<1>6. pc'[a] \in {"stored", "mempool"} => DueMet(a, rows)'
  BY <1>1, <1>4 DEF DueSound, DueMet, jobVars
<1> QED BY <1>1, <1>3, <1>5, <1>6 DEF DueSound, jobVars

\* The last page of a listing has everything from the starting block on, and
\* nothing below it was skipped.
LEMMA AnswerMeetsDue ==
    ASSUME TypeOK, unmined = {}, NEW a \in Accounts, SkipsNothing(a), DueSound(a),
           AnswerTransactions(a)
    PROVE  DueSound(a)'
<1> DEFINE from == state[a].block
           list == Listed(a, from)
<1>1. /\ from \in ChainBlocks \cup {NoBlock} /\ pc'[a] = "page"
      /\ UNCHANGED <<chain, mined, reorgs, rows, due>>
  BY DEF AnswerTransactions, explorerVars, databaseVars, Goto, TypeOK
<1>2. PICK S \in SUBSET DOMAIN list :
        /\ page' = [page EXCEPT ![a] = [t \in S |-> list[t]]]
        /\ more' = [more EXCEPT ![a] = S # DOMAIN list]
  BY DEF AnswerTransactions
<1>3. /\ \A t \in Own(a) : mined[t] # NoBlock /\ mined[t][1] >= from[1] => t \in DOMAIN list
      /\ \A t \in DOMAIN list : list[t] = mined[t]
  BY DEF Listed
<1>4. Complete(from, rows, ChainBlocks, Mined)
  BY DEF SkipsNothing, RowsCover, Covers, Starts
<1>5. from[1] \in Nat /\ NoBlock[1] = 0
  BY HeightsAre
<1> HIDE DEF list, from
<1>6. page'[a] = [t \in S |-> list[t]] /\ more'[a] = (S # DOMAIN list)
  BY <1>2 DEF TypeOK
<1>7. ASSUME ~more'[a], NEW t \in DOMAIN due[a], mined[t] = due[a][t]
      PROVE  t \in DOMAIN Over(page'[a], rows) /\ Over(page'[a], rows)[t] = mined[t]
  <2>1. t \in Own(a) /\ t \in Txs /\ mined[t] \in Blocks
    BY <1>7 DEF DueSound, Own
  <2>2. mined[t][1] \in Nat /\ mined[t] # NoBlock
    BY <2>1, BoundsAssumption DEF Blocks, NoBlock
  <2>3. CASE t \in DOMAIN list
    BY <1>3, <1>6, <1>7, <2>3 DEF Over
  <2>4. CASE t \notin DOMAIN list
    <3>1. mined[t][1] < from[1]
      BY <1>3, <1>5, <2>1, <2>2, <2>4
    <3>2. from \in ChainBlocks
      BY <1>1, <1>5, <2>2, <3>1
    <3>3. t \in DOMAIN Mined /\ Mined[t] = mined[t]
      BY <2>1, <2>2, MinedType
    <3>4. t \in DOMAIN rows /\ rows[t] = mined[t]
      BY <1>4, <3>1, <3>2, <3>3 DEF Complete
    <3>5. t \notin DOMAIN page'[a]
      BY <1>6, <2>4
    <3> QED BY <3>4, <3>5 DEF Over
  <2> QED BY <2>3, <2>4
<1>8. ~more'[a] => DueMet(a, Over(page[a], rows))'
  BY <1>1, <1>7 DEF DueMet
<1> QED BY <1>1, <1>8 DEF DueSound

LEMMA PerformMeetsDue ==
    ASSUME TypeOK, NEW a \in Accounts, SkipsNothing(a), PerformSynchronization(a)
    PROVE  DueSound(a)'
<1>1. /\ UNCHANGED <<chain, reorgs>> /\ pc'[a] = "fetch"
      /\ due'[a] = [t \in {u \in Own(a) : mined[u] # NoBlock} |-> mined[t]]
  BY DEF PerformSynchronization, explorerVars, Goto, TypeOK
<1>2. ASSUME NEW t \in Own(a), mined[t] # NoBlock
      PROVE  mined[t] \in Blocks /\ WasThere(mined[t], Len(chain), reorgs)
  <2>1. mined[t] \in ChainBlocks /\ mined[t] \in Blocks
    BY <1>2 DEF SkipsNothing, ExplorerSound, Own, TypeOK, BlockRefs
  <2>2. \A b \in ChainBlocks : WasThere(b, Len(chain), reorgs)
    BY ChainTop DEF ChainBlocks, SkipsNothing, ExplorerSound, WasThere
  <2> QED BY <2>1, <2>2
<1>3. \A t \in DOMAIN due'[a] :
        /\ t \in Own(a) /\ due'[a][t] \in Blocks
        /\ WasThere(due'[a][t], Len(chain), reorgs)
  BY <1>1, <1>2
<1> QED BY <1>1, <1>3 DEF DueSound

\* The other steps of a job.
LEMMA JobMeetsDue ==
    ASSUME TypeOK, ClientReportsBlock, NEW a \in Accounts, DueSound(a),
           RefuseBlock(a) \/ InsertPage(a) \/ SaveState(a)
              \/ RecoverFromReorganization(a)
    PROVE  DueSound(a)'
<1>1. UNCHANGED <<chain, mined, reorgs, due>>
  BY DEF RefuseBlock, InsertPage, SaveState, RecoverFromReorganization, explorerVars
<1>2. \A t \in DOMAIN due'[a] :
        /\ t \in Own(a) /\ due'[a][t] \in Blocks
        /\ WasThere(due'[a][t], Len(chain'), reorgs')
  BY <1>1 DEF DueSound
<1>3. CASE pc'[a] \in {"reorganized", "fetch"}
  BY <1>2, <1>3 DEF DueSound
<1>4. CASE InsertPage(a) /\ ~more[a]
  <2>1. pc[a] = "page" /\ pc'[a] = "stored" /\ rows' = Over(page[a], rows)
    BY <1>4 DEF InsertPage, BulkInsert, Goto, TypeOK
  <2>2. DueMet(a, rows)'
    BY <1>1, <1>4, <2>1 DEF DueSound, DueMet
  <2> QED BY <1>2, <2>1, <2>2 DEF DueSound
<1>5. CASE SaveState(a)
  <2>1. pc[a] = "stored" /\ pc'[a] = "mempool" /\ rows' = rows
    BY <1>5 DEF SaveState, databaseVars, Goto, TypeOK
  <2>2. DueMet(a, rows)'
    BY <1>1, <2>1 DEF DueSound, DueMet
  <2> QED BY <1>2, <2>1, <2>2 DEF DueSound
<1> QED BY <1>3, <1>4, <1>5
        DEF RefuseBlock, InsertPage, RecoverFromReorganization, Goto, TypeOK

LEMMA IdleMeetsDue ==
    ASSUME NEW a \in Accounts, pc'[a] = "idle", DOMAIN due'[a] = {}
    PROVE  DueSound(a)'
BY DEF DueSound

\* A broadcast that is handled takes no operation out of a block.
LEMMA OptimisticKeepsDue ==
    ASSUME TypeOK, NEW a \in Accounts, DueSound(a), NEW t \in Txs, OptimisticUpdate(t),
           unmined' = {}
    PROVE  DueSound(a)'
<1>1. /\ UNCHANGED <<chain, mined, reorgs, jobVars>>
      /\ rows' = Over([u \in {t} |-> NoBlock], rows)
      /\ t \in DOMAIN rows => rows[t] = NoBlock
  BY DEF OptimisticUpdate, BulkInsert, explorerVars
<1>2. /\ DOMAIN rows' = DOMAIN rows \cup {t} /\ rows'[t] = NoBlock
      /\ \A u \in DOMAIN rows : u # t => rows'[u] = rows[u]
  BY <1>1 DEF Over
<1>3. \A u \in DOMAIN due[a] : due[a][u] # NoBlock
  BY BoundsAssumption DEF DueSound, Blocks, NoBlock
<1>4. DueMet(a, rows) => DueMet(a, rows)'
  BY <1>1, <1>2, <1>3 DEF DueMet, jobVars
<1>5. DueMet(a, Over(page[a], rows)) => DueMet(a, Over(page[a], rows))'
  <2>1. \A u \in DOMAIN due[a] :
          u \in DOMAIN Over(page[a], rows) /\ Over(page[a], rows)[u] = due[a][u] =>
            u \in DOMAIN Over(page[a], rows') /\ Over(page[a], rows')[u] = due[a][u]
    BY <1>1, <1>2, <1>3 DEF Over
  <2>2. Over(page[a], rows)' = Over(page[a], rows')
    BY <1>1 DEF jobVars
  <2> QED BY <1>1, <2>1, <2>2 DEF DueMet, jobVars
<1> QED BY <1>1, <1>4, <1>5 DEF DueSound, jobVars

LEMMA SameDue ==
    ASSUME NEW a \in Accounts, DueSound(a), UNCHANGED <<chain, mined, reorgs, rows, jobVars>>
    PROVE  DueSound(a)'
<1>1. Over(page[a], rows)' = Over(page[a], rows)
  BY DEF jobVars, Over
<1> QED BY <1>1 DEF DueSound, DueMet, jobVars

LEMMA QuietBefore == ASSUME TypeOK, [Next]_vars, Quiet' PROVE Quiet
<1>1. CASE UNCHANGED <<failures, unmined>>
  BY <1>1 DEF Quiet
<1>2. ASSUME NEW t \in Txs, Appear(t) \/ Evict(t) \/ PushTransaction(t)
      PROVE  UNCHANGED <<failures, unmined>>
  BY <1>2 DEF Appear, Evict, PushTransaction, pushVars, boundVars
<1>3. ASSUME NEW t \in Txs, OptimisticUpdate(t)
      PROVE  Quiet
  BY <1>3 DEF OptimisticUpdate, boundVars, Quiet
<1>4. ASSUME NEW a \in Accounts,
             PerformSynchronization(a) \/ Continue(a) \/ AnswerCurrentBlock(a)
             \/ UpdateCurrentBlock(a)
      PROVE  UNCHANGED <<failures, unmined>>
  BY <1>4
  DEF PerformSynchronization, Continue, AnswerTransactions, RefuseBlock,
      InsertPage, SaveState, RecoverFromReorganization, SwallowError,
      SynchronizeMempool, AnswerCurrentBlock, UpdateCurrentBlock,
      pushVars, boundVars
<1>5. ASSUME NEW a \in Accounts
      PROVE  ~RequestFails(a) /\ ~InsertFails(a)
  BY DEF RequestFails, InsertFails, Quiet, TypeOK
<1>6. ASSUME NEW a \in Accounts,
             \/ CrashInInsert(a) \/ CrashInRecovery(a)
             \/ \E h \in 1..MaxHeight : EraseDataSince(a, h)
      PROVE  UNCHANGED <<failures, unmined>>
  BY <1>6 DEF CrashInInsert, CrashInRecovery, Die, EraseDataSince, pushVars
<1>7. CASE Mine \/ Reorganize \/ Crash \/ UNCHANGED vars
  BY <1>1, <1>7 DEF Mine, Reorganize, Crash, Die, vars, pushVars, boundVars
<1> QED BY <1>1, <1>2, <1>3, <1>4, <1>5, <1>6, <1>7 DEF Next

LEMMA DueSoundNext ==
    ASSUME TypeOK, NEW a, Accounts = {a}, EraseDuringSync = FALSE, ClientReportsBlock,
           SkipsNothing(a), Quiet => DueSound(a), [Next]_vars, Quiet'
    PROVE  DueSound(a)'
<1>1. /\ a \in Accounts /\ \A c \in Accounts : c = a
      /\ DueSound(a) /\ unmined = {} /\ unmined' = {}
  BY QuietBefore DEF Quiet
<1>2. CASE Mine \/ Reorganize
  BY <1>1, <1>2, NetworkKeepsDue
<1>3. CASE UNCHANGED <<chain, mined, reorgs, rows, jobVars>>
  BY <1>1, <1>3, SameDue
<1>4. ASSUME NEW t \in Txs, Appear(t) \/ Evict(t) \/ PushTransaction(t)
      PROVE  UNCHANGED <<chain, mined, reorgs, rows, jobVars>>
  BY <1>4 DEF Appear, Evict, PushTransaction, databaseVars
<1>5. ASSUME AnswerCurrentBlock(a) \/ UpdateCurrentBlock(a) \/ UNCHANGED vars
      PROVE  UNCHANGED <<chain, mined, reorgs, rows, jobVars>>
  BY <1>5 DEF AnswerCurrentBlock, UpdateCurrentBlock, vars, databaseVars, explorerVars
<1>6. ASSUME NEW t \in Txs, OptimisticUpdate(t)
      PROVE  DueSound(a)'
  BY <1>1, <1>6, OptimisticKeepsDue
<1>7. CASE PerformSynchronization(a)
  BY <1>1, <1>7, PerformMeetsDue
<1>8. CASE AnswerTransactions(a)
  BY <1>1, <1>8, AnswerMeetsDue
<1>9. CASE RefuseBlock(a) \/ InsertPage(a) \/ SaveState(a) \/ RecoverFromReorganization(a)
  BY <1>1, <1>9, JobMeetsDue
<1>10. ~SwallowError(a) /\ ~RequestFails(a) /\ ~InsertFails(a)
  BY <1>1 DEF SwallowError, RequestFails, InsertFails, Quiet, DueSound, TypeOK
<1>11. CASE SynchronizeMempool(a)
  <2>1. pc'[a] = "idle" /\ DOMAIN due'[a] = {}
    BY <1>1, <1>11 DEF SynchronizeMempool, FreeBuddy, Goto, TypeOK, NoRows
  <2> QED BY <1>1, <2>1, IdleMeetsDue
<1>12. CASE Crash \/ CrashInInsert(a) \/ CrashInRecovery(a)
  <2>1. Die
    BY <1>12 DEF Crash, CrashInInsert, CrashInRecovery
  <2>2. pc'[a] = "idle" /\ DOMAIN due'[a] = {}
    BY <1>1, <2>1 DEF Die, FreeBuddy, NoRows
  <2> QED BY <1>1, <2>2, IdleMeetsDue
<1>13. ASSUME NEW h \in 1..MaxHeight, EraseDataSince(a, h)
       PROVE  DueSound(a)'
  <2>1. pc[a] = "idle" /\ UNCHANGED <<chain, reorgs, jobVars>>
    BY <1>13 DEF EraseDataSince, explorerVars
  <2> QED BY <1>1, <2>1 DEF DueSound, jobVars
<1> QED BY <1>1, <1>2, <1>3, <1>4, <1>5, <1>6, <1>7, <1>8, <1>9, <1>10, <1>11, <1>12, <1>13
        DEF Next, Continue

\* In a pool with one account whose HTTP client reports an unknown block, as long
\* as no request or insertion fails and no operation is taken out of its block by
\* the late answer to its broadcast: a job that reports success has stored what
\* was mined when it began and still is in the same block, however the chain was
\* reorganized meanwhile.  A failure is swallowed, and success is reported all
\* the same; so is a status 404.
THEOREM SuccessIsTrue ==
    ASSUME NEW one, Accounts = {one}, EraseDuringSync = FALSE, ClientReportsBlock
    PROVE  Spec /\ []Quiet => SuccessMeansSynchronized
<1> DEFINE IInv == TypeOK /\ BlocksPresent /\ SkipsNothing(one) /\ (Quiet => DueSound(one))
<1>1. Init => IInv
  <2> SUFFICES ASSUME Init PROVE DueSound(one)
    BY TypeInit, InitSkipsNothing DEF Init, NoRows, BlocksPresent
  <2> QED BY DEF Init, DueSound, NoRows
<1>2. IInv /\ [Next]_vars => IInv'
  BY TypeNext, BlocksPresentNext, SkipsNothingNext, DueSoundNext
<1>3. IInv /\ Quiet =>
        [\A a \in Accounts : SynchronizeMempool(a) =>
            \A t \in DOMAIN due[a] : mined[t] = due[a][t] =>
                t \in DOMAIN rows' /\ rows'[t] = mined[t]]_vars
  <2> SUFFICES ASSUME IInv, Quiet, NEW a \in Accounts, SynchronizeMempool(a),
                      NEW t \in DOMAIN due[a], mined[t] = due[a][t]
               PROVE  t \in DOMAIN rows' /\ rows'[t] = mined[t]
    OBVIOUS
  <2>1. a = one /\ DueSound(a) /\ pc[a] = "mempool" /\ rows' = Without(rows, Dropped(a))
    BY DEF SynchronizeMempool
  <2>2. t \in DOMAIN rows /\ rows[t] = mined[t]
    BY <2>1 DEF DueSound, DueMet
  <2>3. mined[t] # NoBlock
    BY <2>1, BoundsAssumption DEF DueSound, Blocks, NoBlock
  <2>4. t \notin Dropped(a)
    BY <2>2, <2>3 DEF Dropped, SkipsNothing, JobSound
  <2> QED BY <2>1, <2>2, <2>4 DEF Without
<1> HIDE DEF IInv
<1> QED BY <1>1, <1>2, <1>3, PTL DEF Spec, SuccessMeansSynchronized

=============================================================================
