-------------------------- MODULE ReplayerCorrect --------------------------
(***************************************************************************)
(* What the replayer needs from the network and from the data portal to be *)
(* correct, and the inductive invariant that shows it is.                  *)
(*                                                                         *)
(* The assumptions are about the constants Chain, Post and Canon: TLC      *)
(* evaluates them for the chain of every run that extends this module.     *)
(***************************************************************************)
EXTENDS Replayer

BlockNumbers == 1..Blocks
Size(n) == Len(Chain[n].txs)
TxOf(n, i) == Chain[n].txs[i]

\* Transaction i of block n is executed here, not described by state diffs.
Executed(n, i) == ~ (IsSystemTx(TxOf(n, i)) /\ HasStateDiffs(Chain[n]))
ChangesOf(n, i) == RunTx(TxOf(n, i), Canon[n][i - 1])

\* How many transactions of a block come before its system transactions.
Regulars(n) == CHOOSE k \in 0..Size(n) : \A i \in 1..Size(n) : IsSystemTx(TxOf(n, i)) <=> i > k

\* How many transactions are in the overlay after the loop has seen i of them.
Replayed(n, i) == IF HasStateDiffs(Chain[n]) /\ i > Regulars(n) THEN Regulars(n) ELSE i

ASSUME ChainType ==
  /\ Blocks \in Nat
  /\ \A n \in BlockNumbers : /\ Chain[n].txs \in Seq(Txs)
                             /\ Chain[n].diffs \in Seq(StateDiffs)

ASSUME WorldTypes ==
  /\ \A n \in 0..Blocks : Post[n] \in World
  /\ \A n \in BlockNumbers : \A i \in 0..Size(n) : Canon[n][i] \in World

\* The chain is one that the network executed with this EVM.  The program has no block
\* hashes and answers zero (revm_db.rs:56-58), so no transaction of it reads one.
ASSUME ChainIsValid ==
  \A n \in BlockNumbers :
    /\ Canon[n][0] = Post[n - 1]
    /\ Canon[n][Size(n)] = Post[n]
    /\ \A i \in 1..Size(n) :
         Executed(n, i) =>
           /\ ChangesOf(n, i) # EvmError
           /\ ChangesOf(n, i) \in Changes
           /\ \A a \in Addr : ChangesOf(n, i)[a].status \in {"created", "touched"} =>
                                ChangesOf(n, i)[a].info \in AccountInfo
           /\ Canon[n][i] = ApplyTx(Canon[n][i - 1], ChangesOf(n, i))

\* State sync transactions come at the end of their block (POLYGON_BOR.md:28).
ASSUME SystemTxsLast ==
  \A n \in BlockNumbers : HasStateDiffs(Chain[n]) =>
    \E k \in 0..Size(n) : \A i \in 1..Size(n) : IsSystemTx(TxOf(n, i)) <=> i > k

\* A diff gives a value of the type of its key; only a diff of a field may come
\* without one, when it deletes the account.  Nothing follows the deletion of an
\* account in the block, as the code lets a deletion win wherever it stands.
PlainDiffs(diffs) ==
  \A i \in DOMAIN diffs :
    LET d == diffs[i]
    IN  /\ d.key \in Slot => d.next \in Nat
        /\ d.key \in {"nonce", "balance"} /\ d.kind # "-" => d.next \in Nat
        /\ d.key = "code" /\ d.kind # "-" => d.next \in Code \cup {NoCode}
        /\ \A j \in Deletions(diffs, d.address) : j < i => i \in Deletions(diffs, d.address)

\* The portal's diffs are what the system transactions did; an account that they
\* delete had no storage, whose rows would stay.
ASSUME DiffsAreFaithful ==
  \A n \in BlockNumbers : HasStateDiffs(Chain[n]) =>
    LET before == Canon[n][Regulars(n)]
    IN  /\ PlainDiffs(Chain[n].diffs)
        /\ Post[n] = ApplyDiffs(before, Chain[n].diffs)
        /\ \A a \in Addr : Deletions(Chain[n].diffs, a) # {} =>
             \A s \in Slot : before.slot[a][s] = 0

\* An account that does not exist has no storage.
ASSUME NoOrphanStorage ==
  \A n \in 0..Blocks : \A a \in Addr :
    Post[n].acct[a] = None => \A s \in Slot : Post[n].slot[a][s] = 0

\* No transaction destroys an account, and a contract is created where no storage
\* was.  The database keeps the storage rows of a deleted account, so without this
\* the replayer is not correct (see the runs on deletion).
ASSUME NothingDestroyed ==
  \A n \in BlockNumbers :
    \A i \in 1..Size(n) : Executed(n, i) => \A a \in Addr :
         /\ ChangesOf(n, i)[a].status # "destroyed"
         /\ ChangesOf(n, i)[a].status = "created" =>
              \A s \in Slot : Post[n - 1].slot[a][s] = 0

\* A transaction spends its sender's nonce: the EVM refuses the first transaction
\* of a hybrid block where the regular ones of the block have been applied.
ASSUME NoncesAreSpent ==
  \A n \in BlockNumbers : HasStateDiffs(Chain[n]) /\ Regulars(n) > 0 =>
    RunTx(TxOf(n, 1), Canon[n][Regulars(n)]) = EvmError

\* A stream starts at or below head + 1, as the CLI asks for by default.
ASSUME StreamsStartContiguous == FirstBlockContiguous = TRUE

\* The process is not killed between the two commits of a hybrid block.  Not an
\* assumption of every theorem: without it the replayer can get stuck, as below.
NoCrashBetweenCommits ==
  "apply_diffs" \in CrashPoints => \A n \in BlockNumbers : ~ HasStateDiffs(Chain[n])

----------------------------------------------------------------------------
\* Every account row points to code that has a row.
CodeRowsPresent(d) ==
  \A a \in Addr : d.acct[a] # None => d.acct[a].code \in d.code \cup {NoCode}

\* No storage row of an absent account holds anything.
NoOrphanRows(d) ==
  \A a \in Addr : d.acct[a] = None => \A s \in Slot : ReadSlot(d.slot[a][s]) = 0

\* The overlay of a chain that deletes nothing, over the rows below it.
OverlayConsistent(d, c) ==
  \A a \in Addr :
    /\ c.state[a] # "NotExisting"
    /\ c.state[a] # "Unmodified" =>
         /\ c.info[a] \in AccountInfo
         /\ c.info[a].code \in c.code \cup {NoCode}
    /\ c.state[a] = "Unmodified" => \A s \in Slot : c.slot[a][s] = Keep
    /\ c.state[a] = "StorageCleared" => \A s \in Slot : ReadSlot(d.slot[a][s]) = 0

\* Where the run stands, and what the database and the overlay hold there.
PhaseInv ==
  /\ pc = "down" => stats = NoStats
  /\ pc = "poll" =>
       /\ stats.processed = 0 => head0 = db.head
       /\ head0 <= db.head
  /\ pc = "exec" =>
       /\ block = db.head + 1
       /\ txi <= Size(block)
       /\ View(db, cache) = Canon[block][Replayed(block, txi)]
       /\ OverlayConsistent(db, cache)
  /\ pc = "apply_diffs" =>
       /\ block = db.head + 1
       /\ HasStateDiffs(Chain[block])
       /\ NoOrphanRows(db)
       /\ Visible(db) = Canon[block][Regulars(block)]
  /\ pc = "progress" => block = db.head
  /\ pc \in {"exec", "apply_diffs", "progress"} =>
       /\ block \in BlockNumbers
       /\ head0 < block
       /\ stats.processed = 0 => block = head0 + 1
       /\ stats.processed > 0 => /\ stats.last + 1 = block
                                 /\ stats.first = head0 + 1
                                 /\ stats.processed = stats.last - head0

\* The inductive invariant, as long as no crash falls between two commits.
IInv ==
  /\ TypeOK
  /\ DbAgreesWithHead
  /\ CanonicalBlocksReplay
  /\ StatsMatchHead
  /\ CodeRowsPresent(db)
  /\ PhaseInv

----------------------------------------------------------------------------
\* After a crash between the two commits of a block that has regular transactions:
\* they are in the rows, the diffs and the head are not.
Torn(d) ==
  /\ d.head < Blocks
  /\ HasStateDiffs(Chain[d.head + 1]) /\ Regulars(d.head + 1) > 0
  /\ Visible(d) = Canon[d.head + 1][Regulars(d.head + 1)]

\* The replay is stuck at that block: the rows stay as they are, and a run that
\* takes the block has executed none of its transactions and never will.
Stuck ==
  /\ TypeOK
  /\ CodeRowsPresent(db) /\ NoOrphanRows(db) /\ Torn(db)
  /\ pc \in {"down", "poll", "exec"}
  /\ stats = NoStats
  /\ pc = "poll" => head0 = db.head
  /\ pc = "exec" => block = db.head + 1 /\ txi = 0 /\ cache = EmptyCache

\* The inductive invariant wherever the process is killed.
CrashInv == IInv \/ Stuck

\* Once stuck, always stuck: no restart, stream or number of tries moves the
\* database again.
StaysStuck == [][Stuck => Stuck' /\ db' = db]_vars
=============================================================================
