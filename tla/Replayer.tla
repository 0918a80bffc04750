------------------------------ MODULE Replayer ------------------------------
(***************************************************************************)
(* The replay of a chain into the state database: run_pipeline consumes a  *)
(* stream of blocks and replay_block executes each one in a CacheDB        *)
(* overlay, then flushes the overlay (crates/replayer).                    *)
(*                                                                         *)
(* One action per step of the code that another step, a failure or a crash *)
(* can fall between: reading the head, taking a block from the stream,     *)
(* each transaction, each database commit, the progress callback.          *)
(*                                                                         *)
(* The EVM is external: EvmReplay and EvmSystemCall are constant operators *)
(* that return EvmError or the changes revm hands to CacheDB::commit.  So  *)
(* is the network: Post and Canon are its states after each block and each *)
(* transaction.                                                            *)
(***************************************************************************)
EXTENDS Network, Sequences

CONSTANTS
  Blocks,              \* the chain has blocks 1..Blocks on top of genesis
  Chain,               \* Chain[n]: the transactions and state diffs of block n
  Zero,                \* the zero address, sender of system transactions
  BlockGas,            \* the block gas limit
  EvmReplay(_, _),     \* evm.replay(): the changes of a transaction to a view
  EvmSystemCall(_, _), \* run_system_call(): the same, without validation
  EvmError,            \* returned by either one instead of changes
  Post,                \* Post[n]: the network's state after block n
  Canon,               \* Canon[n][i]: its state after transaction i of block n
  CrashPoints,         \* the values of pc at which the process may die
  FirstBlockContiguous \* whether a stream starts at or below head + 1

IsSystemTx(tx) == tx.from = Zero /\ tx.gas = 0
HasStateDiffs(block) == block.diffs # <<>>

----------------------------------------------------------------------------
\* The CacheDB overlay of the block being replayed.  "Unmodified" covers an
\* account not loaded and one loaded and left alone (AccountState::None).
Caches == [state: [Addr -> {"Unmodified", "Touched", "StorageCleared", "NotExisting"}],
           info: [Addr -> AccountInfo \cup {None}],
           slot: [Addr -> [Slot -> Nat \cup {Keep}]],
           code: SUBSET Code]

EmptyCache == [state |-> [a \in Addr |-> "Unmodified"],
               info |-> [a \in Addr |-> None],
               slot |-> [a \in Addr |-> [s \in Slot |-> Keep]],
               code |-> {}]

\* What the EVM reads: the overlay first, then the database below it.  The
\* database is not asked for the storage of an account that does not exist or
\* was created in this block.
View(db, cache) ==
  [acct |-> [a \in Addr |->
     Resolve(db.code \cup cache.code,
             IF cache.state[a] = "Unmodified" THEN db.acct[a] ELSE cache.info[a])],
   slot |-> [a \in Addr |-> [s \in Slot |->
     IF cache.slot[a][s] # Keep THEN cache.slot[a][s]
     ELSE IF \/ cache.state[a] \in {"StorageCleared", "NotExisting"}
             \/ cache.state[a] = "Unmodified" /\ db.acct[a] = None
          THEN 0
          ELSE ReadSlot(db.slot[a][s])]]]

\* CacheDB::commit merges the changes of one transaction into the overlay.
CommitTx(cache, ch) ==
  [state |-> [a \in Addr |->
     CASE ch[a].status = "untouched" -> cache.state[a]
       [] ch[a].status = "destroyed" -> "NotExisting"
       [] ch[a].status = "created"   -> "StorageCleared"
       [] ch[a].status = "touched"   ->
            IF cache.state[a] = "StorageCleared" THEN "StorageCleared" ELSE "Touched"],
   info |-> [a \in Addr |->
     CASE ch[a].status = "untouched" -> cache.info[a]
       [] ch[a].status = "destroyed" -> None
       [] ch[a].status \in {"created", "touched"} -> ch[a].info],
   slot |-> [a \in Addr |-> [s \in Slot |->
     CASE ch[a].status = "untouched" -> cache.slot[a][s]
       [] ch[a].status = "destroyed" -> Keep
       [] ch[a].status = "created"   -> ch[a].slot[s]
       [] ch[a].status = "touched"   ->
            IF ch[a].slot[s] = Keep THEN cache.slot[a][s] ELSE ch[a].slot[s]]],
   code |-> cache.code \cup
     {c \in Code : \E a \in Addr : /\ ch[a].status \in {"created", "touched"}
                                   /\ ch[a].info.code = c}]

\* The EVM never sees a system transaction's zero gas limit.
TxEnv(tx) == IF IsSystemTx(tx) THEN [tx EXCEPT !.gas = BlockGas] ELSE tx

RunTx(tx, view) ==
  IF IsSystemTx(tx) THEN EvmSystemCall(TxEnv(tx), view) ELSE EvmReplay(TxEnv(tx), view)

----------------------------------------------------------------------------
\* Mutant: the bytecode rows are not flushed.
FlushBatch_m(cache, head) ==
  [acct |-> [a \in Addr |->
     CASE cache.state[a] = "NotExisting" -> None
       [] cache.state[a] \in {"Touched", "StorageCleared"} -> cache.info[a]
       [] cache.state[a] = "Unmodified" -> Keep],
   slot |-> [a \in Addr |-> [s \in Slot |->
     IF cache.state[a] \in {"Touched", "StorageCleared"} THEN cache.slot[a][s] ELSE Keep]],
   code |-> {},
   head |-> head]

\* flush_cache_to_db: the overlay as one batch.  The rows of slots that the
\* overlay does not hold are left alone, whatever the state of the account.
FlushBatch(cache, head) ==
  [acct |-> [a \in Addr |->
     CASE cache.state[a] = "NotExisting" -> None
       [] cache.state[a] \in {"Touched", "StorageCleared"} -> cache.info[a]
       [] cache.state[a] = "Unmodified" -> Keep],
   slot |-> [a \in Addr |-> [s \in Slot |->
     IF cache.state[a] \in {"Touched", "StorageCleared"} THEN cache.slot[a][s] ELSE Keep]],
   code |-> cache.code,
   head |-> head]

\* The diffs of one key of one account that carry a next value, and the value they
\* give to a field: the last one in the list.  Without one a field keeps its value.
DiffsOf(diffs, a, key) ==
  {i \in DOMAIN diffs : diffs[i].address = a /\ diffs[i].key = key /\ diffs[i].next # None}
NextOf(diffs, a, key, old) ==
  IF DiffsOf(diffs, a, key) = {} THEN old ELSE diffs[Latest(DiffsOf(diffs, a, key))].next

\* One deletion of a field, anywhere in the list, deletes the account.
Deleted(diffs, a) ==
  \E i \in DOMAIN diffs :
    diffs[i].address = a /\ diffs[i].kind = "-" /\ diffs[i].key \in AccountFields

NewAccount == [nonce |-> 0, balance |-> 0, code |-> NoCode]

\* Mutant: the fields that no diff names start from zero.
Patched_m(diffs, a, info) ==
  [nonce   |-> NextOf(diffs, a, "nonce", 0),
   balance |-> NextOf(diffs, a, "balance", 0),
   code    |-> NextOf(diffs, a, "code", NoCode)]

\* The account row that the diffs leave, starting from the one in the database.
Patched(diffs, a, info) ==
  [nonce   |-> NextOf(diffs, a, "nonce", info.nonce),
   balance |-> NextOf(diffs, a, "balance", info.balance),
   code    |-> NextOf(diffs, a, "code", info.code)]

\* apply_state_diffs: one batch for all the diffs of a block, and the new head.
DiffBatch(db, diffs, head) ==
  [acct |-> [a \in Addr |->
     IF ~ \E i \in DOMAIN diffs : diffs[i].address = a THEN Keep
     ELSE IF Deleted(diffs, a) THEN None
     ELSE Patched(diffs, a, IF db.acct[a] = None THEN NewAccount ELSE db.acct[a])],
   slot |-> [a \in Addr |-> [s \in Slot |->
     IF Deleted(diffs, a) \/ DiffsOf(diffs, a, s) = {} THEN Keep
     ELSE IF diffs[Latest(DiffsOf(diffs, a, s))].kind = "-" THEN None
     ELSE NextOf(diffs, a, s, Keep)]],
   code |-> {c \in Code : \E a \in Addr : /\ ~ Deleted(diffs, a)
                                          /\ \E i \in DiffsOf(diffs, a, "code") : diffs[i].next = c},
   head |-> head]

----------------------------------------------------------------------------
VARIABLES
  db,      \* the durable rows
  pc,      \* where the process is; "down" when no replay runs
  head0,   \* the head that run_pipeline read when it started
  stats,   \* PipelineStats: blocks processed, the first and the last of them
  block,   \* the block being replayed, 0 when there is none
  txi,     \* how many of its transactions the loop has gone through
  cache,   \* its overlay
  result   \* how the last run ended

memory == <<head0, stats, block, txi, cache>>
vars == <<db, pc, head0, stats, block, txi, cache, result>>

Pcs == {"down", "poll", "exec", "apply_diffs", "progress"}
Results == {"none", "done", "stopped", "source_error", "gap", "evm_error", "crashed"}
NoStats == [processed |-> 0, first |-> 0, last |-> 0]

\* Loading a genesis file leaves the state of block 0 and head 0.
GenesisRows ==
  [acct |-> Post[0].acct,
   slot |-> Post[0].slot,
   code |-> {c \in Code : \E a \in Addr : Post[0].acct[a] # None /\ Post[0].acct[a].code = c},
   head |-> 0]

Init ==
  /\ db = GenesisRows
  /\ pc = "down" /\ result = "none"
  /\ head0 = 0 /\ stats = NoStats /\ block = 0 /\ txi = 0 /\ cache = EmptyCache

\* The process ends and its memory is gone.
Exit(r) ==
  /\ pc' = "down" /\ result' = r
  /\ head0' = 0 /\ stats' = NoStats /\ block' = 0 /\ txi' = 0 /\ cache' = EmptyCache

\* A new process opens the database; run_pipeline reads the head, once.
Start ==
  /\ pc = "down"
  /\ pc' = "poll" /\ head0' = db.head /\ result' = "none"
  /\ UNCHANGED <<db, stats, block, txi, cache>>

SourceError == pc = "poll" /\ Exit("source_error") /\ UNCHANGED db

\* The stream ends: the last requested block was read, or the portal has no more.
SourceEnd == pc = "poll" /\ Exit("done") /\ UNCHANGED db

\* The numbers the stream may yield next.
Yields(n) == FirstBlockContiguous /\ stats.processed = 0 => n <= db.head + 1

\* A block at or below the head that this run started from is passed over.
Skip(n) ==
  /\ pc = "poll" /\ Yields(n)
  /\ n <= head0
  /\ UNCHANGED vars

\* Mutant: the continuity check is gone.
IsGap_m(n) == FALSE

\* After its first block a run accepts only the successor of the last one.
IsGap(n) == stats.processed > 0 /\ n # stats.last + 1

Gap(n) ==
  /\ pc = "poll" /\ Yields(n)
  /\ n > head0 /\ IsGap(n)
  /\ Exit("gap") /\ UNCHANGED db

\* Mutants: blocks that are already in are not passed over; the block after the
\* head is passed over too.
Accept_m(n) ==
  /\ pc = "poll" /\ Yields(n)
  /\ ~ IsGap(n)
  /\ pc' = "exec" /\ block' = n /\ txi' = 0 /\ cache' = EmptyCache
  /\ UNCHANGED <<db, head0, stats, result>>

Accept_m2(n) ==
  /\ pc = "poll" /\ Yields(n)
  /\ n > head0 + 1 /\ ~ IsGap(n)
  /\ pc' = "exec" /\ block' = n /\ txi' = 0 /\ cache' = EmptyCache
  /\ UNCHANGED <<db, head0, stats, result>>

Accept(n) ==
  /\ pc = "poll" /\ Yields(n)
  /\ n > head0 /\ ~ IsGap(n)
  /\ pc' = "exec" /\ block' = n /\ txi' = 0 /\ cache' = EmptyCache
  /\ UNCHANGED <<db, head0, stats, result>>

NextTx == Chain[block].txs[txi + 1]
MoreTxs == pc = "exec" /\ txi < Len(Chain[block].txs)
NoMoreTxs == pc = "exec" /\ txi = Len(Chain[block].txs)
SkipsTx == IsSystemTx(NextTx) /\ HasStateDiffs(Chain[block])

\* With state diffs at hand, a system transaction is not executed.
SkipSystemTx ==
  /\ MoreTxs /\ SkipsTx
  /\ txi' = txi + 1
  /\ UNCHANGED <<db, pc, head0, stats, block, cache, result>>

ExecTx ==
  /\ MoreTxs /\ ~ SkipsTx
  /\ LET ch == RunTx(NextTx, View(db, cache))
     IN  /\ ch # EvmError
         /\ cache' = CommitTx(cache, ch)
  /\ txi' = txi + 1
  /\ UNCHANGED <<db, pc, head0, stats, block, result>>

\* The EVM refuses the transaction; nothing of the block is written.
TxFails ==
  /\ MoreTxs /\ ~ SkipsTx
  /\ RunTx(NextTx, View(db, cache)) = EvmError
  /\ Exit("evm_error") /\ UNCHANGED db

\* Without state diffs: one commit, the head included.
FlushBlock ==
  /\ NoMoreTxs /\ ~ HasStateDiffs(Chain[block])
  /\ db' = CommitBatch(db, FlushBatch(cache, block))
  /\ pc' = "progress"
  /\ UNCHANGED <<memory, result>>

\* Mutant: the first of the two commits moves the head already.
FlushOverlay_m ==
  /\ NoMoreTxs /\ HasStateDiffs(Chain[block])
  /\ db' = CommitBatch(db, FlushBatch(cache, block))
  /\ pc' = "apply_diffs"
  /\ UNCHANGED <<memory, result>>

\* With state diffs: first the overlay, without the head ...
FlushOverlay ==
  /\ NoMoreTxs /\ HasStateDiffs(Chain[block])
  /\ db' = CommitBatch(db, FlushBatch(cache, Keep))
  /\ pc' = "apply_diffs"
  /\ UNCHANGED <<memory, result>>

\* Mutant: the second commit leaves the head where it was.
ApplyStateDiffs_m ==
  /\ pc = "apply_diffs"
  /\ db' = CommitBatch(db, DiffBatch(db, Chain[block].diffs, Keep))
  /\ pc' = "progress"
  /\ UNCHANGED <<memory, result>>

\* ... then, in a second commit, the diffs and the head.
ApplyStateDiffs ==
  /\ pc = "apply_diffs"
  /\ db' = CommitBatch(db, DiffBatch(db, Chain[block].diffs, block))
  /\ pc' = "progress"
  /\ UNCHANGED <<memory, result>>

\* Mutant: every block is the first.
Counted_m == [processed |-> stats.processed + 1, first |-> block, last |-> block]

Counted ==
  [processed |-> stats.processed + 1,
   first |-> IF stats.processed = 0 THEN block ELSE stats.first,
   last |-> block]

\* The statistics move on, then the callback says whether to go on.
Continue ==
  /\ pc = "progress"
  /\ pc' = "poll" /\ stats' = Counted
  /\ block' = 0 /\ txi' = 0 /\ cache' = EmptyCache
  /\ UNCHANGED <<db, head0, result>>

Stop == pc = "progress" /\ Exit("stopped") /\ UNCHANGED db

\* The process dies, or a failed write makes replay_block return early.
Crash ==
  /\ pc \in CrashPoints
  /\ Exit("crashed") /\ UNCHANGED db

Next ==
  \/ Start \/ SourceError \/ SourceEnd
  \/ \E n \in 1..Blocks : Skip(n) \/ Gap(n) \/ Accept(n)
  \/ SkipSystemTx \/ ExecTx \/ TxFails
  \/ FlushBlock \/ FlushOverlay \/ ApplyStateDiffs
  \/ Continue \/ Stop \/ Crash

Spec == Init /\ [][Next]_vars
----------------------------------------------------------------------------
\* The program keeps taking steps, is started again when it has stopped, and
\* its block source keeps offering the next block.
Progress ==
  \/ Start \/ (db.head < Blocks /\ Accept(db.head + 1))
  \/ SkipSystemTx \/ ExecTx \/ TxFails
  \/ FlushBlock \/ FlushOverlay \/ ApplyStateDiffs \/ Continue

FairSpec == Spec /\ WF_vars(Progress)

\* What ends a run early.
Interrupt ==
  \/ SourceError \/ SourceEnd \/ Stop \/ Crash
  \/ \E n \in 1..Blocks : Gap(n)

----------------------------------------------------------------------------
\* Every variable has its type: the rows and the overlay are well-formed.
TypeOK ==
  /\ db \in Rows /\ db.head \in 0..Blocks
  /\ pc \in Pcs /\ result \in Results
  /\ head0 \in 0..Blocks /\ block \in 0..Blocks /\ txi \in Nat
  /\ stats \in [processed: Nat, first: 0..Blocks, last: 0..Blocks]
  /\ cache \in Caches

\* The rows are the network's state after the block that the head names, except
\* between the two commits of a block with state diffs (lib.rs:177-187).  It
\* covers every code row: an account whose code is missing differs.
DbAgreesWithHead ==
  pc # "apply_diffs" => Visible(db) = Post[db.head]

\* A block of the network always replays: the EVM never refuses one of its
\* transactions, after any number of crashes, restarts and stream faults
\* (lib.rs:146-162).
CanonicalBlocksReplay == result # "evm_error"

\* What a run reports agrees with what is durable: it counted exactly the
\* blocks from its first one to the head, whatever the stream repeated or
\* skipped (pipeline.rs:152-157).
StatsMatchHead ==
  (pc = "poll" /\ stats.processed > 0) =>
    /\ stats.last = db.head
    /\ stats.first = head0 + 1
    /\ stats.processed = stats.last - head0

\* "Either all changes from a block are committed, or none are"
\* (crates/replayer/README.md:15), at every moment, for whoever opens the
\* database after a crash.
BlockAtomic == Visible(db) = Post[db.head]

\* A crash between the two commits leaves the transactions of the next block
\* applied without its diffs, and no later replay makes that worse: the rows
\* are those of the head, or those plus the executed transactions once.
TornAtWorst ==
  \/ Visible(db) = Post[db.head]
  \/ /\ db.head < Blocks
     /\ LET n == db.head + 1
        IN  \E i \in 0..Len(Chain[n].txs) :
              /\ Visible(db) = Canon[n][i]
              /\ \A j \in 1..Len(Chain[n].txs) : IsSystemTx(Chain[n].txs[j]) <=> j > i

\* "Gap detection - returns an error if blocks are not consecutive"
\* (crates/replayer/README.md:52): the head never jumps over a block.
NoBlockMissed == [][db'.head \in {db.head, db.head + 1}]_vars

\* Hiding the moment between the two commits, the database implements the ledger
\* that moves one whole block at a time.
ShownWorld == IF pc = "apply_diffs" THEN Post[db.head] ELSE Visible(db)
Durable == INSTANCE BlockLedger WITH head <- db.head, world <- ShownWorld
ImplementsLedger == Durable!Spec

\* When interruptions end, the last block of the chain is eventually replayed.
CatchesUp == (<>[][~ Interrupt]_vars) => <>(db.head = Blocks)
=============================================================================
