# rpc-evm-state in TLA+

A verification project for `rpc-evm-state`, a program that builds the state of an EVM chain by replaying blocks and serves it to clients that re-execute calls locally.
It holds TLA+ modules of the program's parts, TLC runs on small instances, and theorems that TLAPS checks for every value of the constants.
`PROJECT.json` maps each definition to the source lines that it models.

- [The system](#the-system)
- [The modules](#the-modules)
- [From code to model](#from-code-to-model)
- [The runs](#the-runs)
- [Fairness](#fairness)
- [The proofs](#the-proofs)
- [What the code does otherwise than its documents say](#what-the-code-does-otherwise-than-its-documents-say)
- [What is not modelled](#what-is-not-modelled)
- [Plan](#plan)

## The system

```
 data portal (external)                       archive node (external)
      |  NDJSON pages                              |  JSON-RPC
      v                                            v
 sqd-fetcher --blocks--> replayer ---+        validation
 (stream)               (pipeline,   |             | reads
                         EVM, flush) |             |
 snapshot file <--export/import------+-------> state-db (RocksDB)
                                     |             ^
 genesis file -----------------------+             | reads
                                                  api (HTTP) <---- client (native), client-wasm
```

One process at a time opens a database (RocksDB locks the directory).
On one directory, a replay, an import, a genesis load, an export, a validation and a server therefore follow one another and never overlap.
Commands on different directories do overlap, and meet at the snapshot file, which nothing locks: one may truncate it while another reads it.
What else goes on at the same time is the portal, the archive node, the tasks of a server, and the threads of a client.

| Component | State it keeps | Operations | What makes it hard | What makes it correct |
|---|---|---|---|---|
| state-db | accounts, storage, code, head block | reads, write batch, commit | atomicity is per batch, and absent rows have meanings | a reader sees a world state of the network |
| replayer, `replay_block` | the overlay of one block (revm `CacheDB`) | execute, flush, apply state diffs | two commits in a hybrid block; a failure in any transaction; deletion | rows and head always agree; no valid block is refused |
| replayer, `run_pipeline` | head at the start, statistics | resume, skip, gap check, stop | a stream that repeats, skips, fails; restarts anywhere | the head moves from one block to the next |
| sqd-fetcher | position in range, page and body | page, retry, end | a growing portal, bodies that break off, bounded retries | consecutive blocks, the whole range, an end |
| cli, `replay` | arguments | choose the first block, run | composes the three above over many runs | no hole, no block twice, completion means caught up |
| cli, all commands | options of the command line and the configuration file | replay, genesis, import, export, validate, serve, compact | processes that are killed and repeated, on databases of unknown history, around one shared file | a database with a head holds the state after that block |
| snapshot import | sidecar file, batch, head from metadata | import, resume | death between any two file or database operations | success and a head mean the whole snapshot |
| snapshot export | the file it writes | export | may be cut off | an export can be imported again |
| validation | none | sample, compare, binary search | float arithmetic; history that turns back; two hashes of no code | reports and blocks found are right |
| api | connections (a database opened for reading) | account, storage, code, head, prefetch, batch, websocket | code takes two reads, a request in a batch may fail, the database moves between a server and the next | the answers of a server are of one state, each to its query |
| client | three LRU caches, shared by threads | call, prefetch, verify, read with fall-back | no invalidation, eviction during a run, several requests for one value | an honest server is verified; caches hold what the server had |
| client-wasm | three maps | call, prefetch, verify | no fall-back | as above |
| chain-spec | constants | rules at a block | two kinds of fork condition | rules only move forward |
| common, data-types, metrics, bench, packages | none | conversions, counters, programs | | |

The hazards of the code, at their lines and are the list `hazards` in `PROJECT.json`, each with the properties that would catch it, or a note that says why none does.

## The modules

```
StateDb <- Network <- Replayer <- ReplayerCorrect <- ReplayerCorrect_proofs
   ^                     |  \
   |                     |   +- ReplayerChains (with ToyEvm) <- MCReplayer, MCReplayerCrash, MCReplayerFaults
   |                     +- BlockLedger  (INSTANCE: what the replayer implements)
   +-- EvmCall <- StateApi (with ChainSpec) <- Client <- ClientCorrect <- Client_proofs, MCClient

Commands <- Server <- MCServer
Commands <- Commands_proofs <- Server_proofs -> Server

SqdFetcher <- ReplayRun <- MCReplayRun        Snapshot <- SnapshotExport <- MCSnapshot
SqdFetcher <- MCSqdFetcher                    SnapshotExport <- Snapshot_proofs
ReplayRun <- ReplayRun_proofs (the stream's theorems, then the command's)
Divergence <- Divergence_proofs, MCDivergence Validation <- Validation_proofs, MCValidation
```

| Module | Models |
|---|---|
| `StateDb` | rows of the four column families, the write batch, what readers make of absent rows |
| `Network` | the network (external): what a transaction's changes and the portal's state diffs mean to a full node |
| `Replayer` | `replay_block` and `run_pipeline`: every step between which another step, a failure or a crash can fall |
| `BlockLedger` | the abstract specification of the replayer: a head and a world that move one whole block at a time |
| `ReplayerCorrect` | what the replayer needs of chain and portal, as assumptions, and its two inductive invariants |
| `ReplayerChains`, `ToyEvm` | the chains of the runs, and an EVM small enough for TLC |
| `SqdFetcher` | the block stream, page by page, with retries |
| `ReplayRun` | the replay command: stream, pipeline and head together, over any number of runs |
| `Snapshot`, `SnapshotExport` | import with its sidecar file, and the file that an export writes, whole or cut off |
| `Validation`, `Divergence` | sampled comparison with an archive node; the binary search for a divergence |
| `Commands` | all commands as processes over several directories and one snapshot file: locks, option merging, kills, repetition |
| `Server` | the HTTP server beside the commands: single requests, batches, web sockets |
| `EvmCall` | a read-only call (external EVM) as a sequence of reads |
| `ChainSpec`, `StateApi` | the rules in force at a block; the handlers of the server and its prefetch |
| `Client` | the native and the browser client: prefetch, caches, reads that fall back on the server, verification |
| `ClientCorrect` | the three inductive invariants of the clients |
| `*_proofs` | the theorems and their proofs |
| `MC*` | the instances for TLC |

The replayer is composed with its stream twice.
`Replayer` has every detail of replaying and a stream that may repeat, skip, fail or end at any time; all it assumes is that a stream's first block is no further than head + 1 (`FirstBlockContiguous`).
`ReplayRun` has every detail of the stream and replays a block in one step; its property `FirstOfferContiguous` is that assumption, checked and proved.

The commands are composed in the same way.
`Replayer`, `Snapshot` and `SnapshotExport` have every step of one command on one database; `Commands` has all of them at once, on several databases, with coarser steps.
`Server` adds the requests to `Commands` and changes nothing of it: it implements `Commands!Spec`, which is proved.

## From code to model

**Database.**
A row is a value or `None`; a code hash is the code itself, as Keccak is injective for the purpose.
`CommitBatch` is a RocksDB write: whole or not at all.
A write that fails is the action `Crash` at that point: the function returns early and the process ends.
Power loss that takes back an acknowledged write is left out.

**Replayer.**
`pc` says where the process is: `poll` (waiting for a block), `exec` (in the transaction loop, `txi` done), `apply_diffs` (between the two commits of a hybrid block), `progress` (before the callback).
`Start`, `Skip`, `Gap`, `Accept`, `Continue`, `Stop`, `SourceError`, `SourceEnd` are the branches of `run_pipeline`; `SkipSystemTx`, `ExecTx`, `TxFails`, `FlushBlock`, `FlushOverlay`, `ApplyStateDiffs` those of `replay_block`.
The EVM is a pair of constant operators from a transaction and a view to the changes that revm hands to `CacheDB::commit`, or an error; `View` and `CommitTx` are `CacheDB` (external).
The overlay's state `Unmodified` covers accounts that are not loaded and those loaded and left alone.
The state diffs of a block are a list, several of one key among them: the last one counts, and a deletion of an account wins wherever it stands, as in `apply_state_diffs`.
`Network` says what the list means to a full node, in the order it stands; that both agree on the chains considered is assumed by `PlainDiffs` and `DiffsAreFaithful`.
The database starts from genesis with head 0; a database without a head is in `ReplayRun` and `Commands`.

**Fetcher.**
A page is a run of consecutive blocks that starts where the request asked, as long as the portal likes.
The portal's height grows up to `MaxHeight`; the portal never takes a block back.
`Retry`, `GiveUp` and `Refused` are the outcomes of a request that fails, `BodyError` a body that breaks off or a line that is no block.

**Replay command.**
Runs follow one another with any `--from` and `--to` of small sets, fail or are killed anywhere.
A `--from` beyond the block after the head makes a hole, and nothing in the code checks it: the properties say so (`BeyondNext`).
`PortalDrops` is a portal that leaves out blocks.
It spares the first block that a run would replay, because the gap check compares only with this run's own last block and would not see it.

**Snapshot.**
The sidecar is 0 when it is missing or does not parse, as `unwrap_or(0)` makes it; rewriting it truncates it first.
One action per line, commit and file operation.

**Commands.**
`Free` is the lock: a command that finds its database open fails and changes nothing, so it is no step.
`Begin` opens it; `End` closes it; `Stop` is any end before the work is done, the kill between two steps among them.
`Setting` merges command line, configuration file and default, option by option; the steps of each command follow.
The steps are coarse where another module has the detail: an import commits line by line, and a block's transactions are one step.
A block's commits are not: a block of `Hybrid`, one with transactions and state diffs, is committed in two steps, `CommitOverlay` without the head and `CommitDiffs` with it, and any other in one, `ReplayBlock`.
A process may be killed between the two, and a run that comes back to the block finds its nonces spent: `CommitOverlay` is not enabled on the rows that it left, and the run can only stop.
A replay starts at its `--from`, if it is given one, and passes over blocks up to the head (`SkipBlock`).
A value in a row stands for the block that wrote it, and `Wrong` for what a block makes of rows that are not those it ran on.
On its own rows a commit does what the network did (`Changed`): that the replayer does, and on which chains, is the matter of `ReplayerCorrect` and its assumptions.
Rows may vanish, as accounts do in the flush.
Four history variables say which databases the program can answer for.
`tainted` holds the directories, and "file", that were put to a use which the code neither checks nor can serve; each such use is a condition in the action that makes it, and `HeadTellsRows` lists them: a `--from` beyond the next block is one.
Nothing is claimed of a tainted database.
`torn` holds the directories, and "file", whose rows are those between the two commits of a block; of these `HeadTellsRows` and `ExportOfOneState` say exactly which rows they hold under which head (`RowsOf`).
`loading` says whether an import into a directory is unfinished, and whether the file is still the one it began with; `recorded` says whose import wrote the sidecar.
No guard reads them.

**Server.**
A query is the row it asks for.
A connection is a single request, a batch, or a socket to which texts are sent one by one; it answers in order.
The code of an account is two reads, `ReadAccount` and `ReadCode`, with the steps of every other process in between.
A query that fails, or does not parse, is answered with its own error.
`opened` is history: the database as the process found it.

**Validation.**
Sample positions come from a product of floats: a product that should be whole may fall just short, and `SamplesOf` allows each such set of shortfalls.
Balances are compared the way nonces are and are left out.
`AlarmHasReason` is about each mismatch, at all times: it is of a sampled row, and the row differs in just that field (`Differs`) or holds the second hash of no code (`OtherEmptyHash`); and an invalid report leaves out no sampled field that differs.

**Search.**
`find_divergence_block` takes any two blocks, also a low one above the high one, and so does `Init`.
The properties are about ranges: for a low block above the high one the code may answer the low block although the node agrees there.

**Prefetch and clients.**
A call is the sequence of the reads that its bytecodes make, and its output is what they returned.
Writes stay in revm's journal and are left out, as are the call's value and the fee recipient.
`BALANCE`, `SELFBALANCE` and the `EXTCODE` opcodes are one kind of read.
A server's database moves only between requests, when the server is down and a replay has run; the client keeps its caches meanwhile.
`Preload` is a prefetch without a run: the prefetch alone, or a call of a client that trusts the server.
The clients run without a block: number 0 and rules of their own.
When the code of an account is found in the cache, or the server answers for it, is one step (`GetItsCode`), though the code lets go of the cache's lock in between; a second thread may then only ask for the same code once more.
A call that runs out of gas returns nothing, as in the code.
The gas itself is a bound on the reads, the same for server and client; that the server caps a call's gas and its block's at 30 million, while a client runs under revm's defaults, is left out.
The order in which a slice enters the LRU caches is a hash map's in the code, and one fixed order here.

## The runs

Each passing run also has mutants, listed in `PROJECT.json`: for each property a plausible bug that it catches.

| Run | Instance | States | Shows |
|---|---|---|---|
| `replay` | eleven blocks, crashes anywhere but between the two commits | 422 | each block is applied whole and once, rows equal the network's at each boundary, no valid block is refused; the ledger is implemented; the last block is reached |
| `replay_crash` | the same, crashes there too | 446 | how far such a crash damages the rows, that it stays there, and that no block is missed |
| `import` | eleven files and cut-off exports, batches of two, crashes | 589 | success and a head mean the whole snapshot, the sidecar never runs ahead; an export comes back; imports complete |
| `fetch` | eight ranges, five attempts, height up to 4 | 8,550 | consecutive blocks in the range, nothing left out, an end |
| `command` | any runs, `--from` and `--to` of three values, height up to 3 | 43,334 | no hole, no block twice, completion means caught up |
| `divergence` | all histories of two values in seven blocks, all pairs of a low and a high block | 49,856 | the block found is a turn, and the first if the difference lasts |
| `validate` | four writers of rows, nodes that differ in one field, eight sample counts | 8,000 | samples are spread, valid reports are right, each mismatch is a sampled field that differs, and none of these is left out |
| `client` | five kinds of client, two threads, two calls, three histories | 175,626 | when an honest server fails verification, and what caches may hold |
| `service` | two directories, two processes, any four commands, a connection | 1,517,201 | a database with a head holds that block's state, or just what the first commit of the next block left, a snapshot file that names a head holds its rows, a server's answers are of one state |
| `crash_safe`, `destroyed`, `import_head` | as above | | three properties that the documents state and the code does not have |

**Why the bounds are enough.**
`MixedChain` has every kind of block that the code treats differently: deployments, calls by two senders and by the system, transfers, an empty block, and five hybrid blocks.
These give two diffs of one slot, change one field of an account whose slot or balance a transaction just changed, create a contract out of diffs alone with two diffs of its slot, follow another hybrid block, and delete a contract, in whose place the next block creates another.
The toy contract counts its calls, so a transaction applied twice or not at all shows.
Snapshot files have up to five lines with a batch size of two, so there is a full, a partial and an empty last batch, with keys written in one batch or in several and metadata in each place.
The fetcher's five attempts are the code's; four blocks give pages of all sizes with a boundary between them and growth in each place.
`command` has two attempts and three blocks; the attempts are `fetch`'s concern.
Seven blocks give the search three rounds and all parities.
The client's caches hold one, two or three entries per tier, against three accounts, three codes and three slots that there are; two calls are enough for one to spoil the caches of the other; the heads lie on both sides of a fork of Polygon.
`service` needs two directories for a sidecar of one import to meet another's database, and four commands for the longest stories that go well or wrong: a genesis, an export, an import that is killed, and one that resumes, or anything in the place of each.
Its chain has three blocks, so that a resumed replay, a row that a block leaves alone, an account that gets its code late and one that is deleted all occur; its last block is hybrid, so that a process is killed between two commits, and the next one exports, serves, replays or imports what is there; two texts on a socket are enough for one answer to spoil the next.
Four sets of options choose either directory, a chain other than the network's, and a `--from` behind, at or beyond the next block.
TLC has also checked the invariants of the proofs that no run lists on these instances: `Commands!IInv` and `Server!ServerInv` here, `RunInv` in `command`, `Validation!IInv` in `validate`, `HeadIsRead` in `import`, and `IInv`, `StillInv` and `SliceInv` of `ClientCorrect` in `client`.

**Deadlock** is checked except in `client`, which stops when all calls are made, and `service`, which stops when all commands are.

## Fairness

Weak fairness is given to the program's own steps, and to what the code cannot do without.

- `Replayer`: `Progress`, the steps of a running replay, a restart, and a source that offers the next block. `CatchesUp` starts from the moment when interruptions end.
- `Snapshot`: `Step`, the import's own steps and its repetition until it reports success. `Completes` assumes that crashes end and the file parses.
- `SqdFetcher`: `Client`, the stream's steps, and `Answer`, some outcome of a request. The code sets no HTTP timeout, so an answer is the portal's to give.
- `ReplayRun`: the command's steps with the portal's answers, someone who starts the command without arguments, and a portal that grows.
- `Divergence`: the calls of the search.
- `Commands`, `Server`: none; the promise is safety under any schedule.
- `Client`: the steps of each thread with the server's answers, and none for new calls or for the server's moves.

No property needs strong fairness.

## The proofs

| Theorem | States, for every value of the constants |
|---|---|
| `ReplayerCorrect_proofs!CrashInvariance`, `TypeCorrect` | the inductive invariant `CrashInv`, wherever the process is killed |
| `DamageBounded` | wherever the process is killed, the rows hold at most the transactions of one block too many |
| `NoWayOut` | a replay that was killed between two commits of a block with transactions never moves the database again |
| `StatsAgreement` | statistics name the blocks that became durable |
| `HeadAdvances` | the head moves from a block to the next |
| `Invariance` | the inductive invariant `IInv`; it and the next three assume `NoCrashBetweenCommits` |
| `HeadAgreement` | rows equal the network's state after block head, except between two commits of a block |
| `Replayability` | no block of a valid chain is refused |
| `Refinement` | `Replayer` implements `BlockLedger` |
| `PlainChainsAtomic` | without state diffs, whole blocks at every moment, wherever the process is killed |
| `Snapshot_proofs!Invariance`, `SuccessIsWhole`, `NothingPassedOver`, `HeadComesLast` | the import's invariant and its three safety properties |
| `ExportsComeBack` | an imported export is the exported database, and an export that was cut off never sets a head |
| `Client_proofs!Invariance`, `TypeCorrect` | the invariant of caches and callers, for any history of the server's database and any number of threads |
| `CachesGenuine` | a cached row is one that the server had |
| `CodesUnderTheirHashes` | a code is cached under its own hash, where no account changes its code |
| `HonestServersVerified` | why an honest server can fail verification: three reasons and no other |
| `OwnSlicesStay` | a call that is alone and fits into the caches keeps the slice that it was given |
| `RulesAdvance`, `PrefetchRulesLag` | on a schedule of forks in order, rules never go back, and a prefetch's are never newer than the block's, and the same where no fork by timestamp is active |
| `ReplayRun_proofs!Invariance`, `Contiguity`, `StaysWithinRange`, `NothingLeftOut` | the stream's invariant, consecutive blocks, none out of range, nothing left out |
| `RunInvariance`, `HeadLeavesNoHole`, `StreamsStartAtTheHead`, `NoFalseGap`, `CompletionIsTrue` | the replay command's invariant and its four safety properties, over any sequence of runs |
| `Commands_proofs!Invariance`, `Typing` | the invariant of all commands together, for any number of processes, directories and rows |
| `HeadIsOfItsRows` | a database with a head and no unchecked use holds the state after its head block, or, killed between two commits, what the first of them left |
| `SnapshotIsOfItsHead` | a snapshot file that names a head holds the rows that go with it, in the same sense, and no other |
| `Server_proofs!ServerOnlyReads` | `Server` implements `Commands` |
| `ServerInvariance`, `ServerTyping`, `ServerIsSteady` | all answers of a server are of the state that it opened |
| `Validation_proofs!Invariance`, `SamplesDiffer`, `ValidReportIsRight`, `AlarmsHaveReasons` | samples are different rows, and reports are right |
| `Divergence_proofs!Invariance`, `FoundBlockTurns`, `LastingDivergence` | the search's invariant and what it finds |

**Replayer.**
Chain, EVM and sizes are arbitrary.
The assumptions are named in `ReplayerCorrect`, and TLC evaluates them for the chain of the runs `replay` and `replay_crash`.

- `ChainType`, `WorldTypes`, `ChainIsValid`: the network executed the chain with the same EVM.
- `SystemTxsLast`: a hybrid block's system transactions are its last ones.
- `DiffsAreFaithful`: the diffs, applied in their order, give the network's state after the block; values have the type of their key; nothing follows an account's deletion in its block; and a deleted account had no storage, as its rows would stay.
- `NoOrphanStorage`: an account that does not exist has no storage.
- `NothingDestroyed`: no transaction destroys an account, and contracts are created where no storage was. The run `destroyed` shows that this is needed.
- `NoncesAreSpent`: the EVM refuses the first transaction of a hybrid block whose regular transactions have been applied. Only what happens after a crash between two commits rests on it.
- `NoCrashBetweenCommits`: hybrid blocks are not cut off between their commits. It is a hypothesis of the four theorems that need it and no assumption of the module; the run `crash_safe` shows that they do.
- `StreamsStartContiguous`: streams start at or below head + 1, which `command` checks and `StreamsStartAtTheHead` proves, unless a `--from` lies beyond.

`DbAgreesWithHead` is not inductive: nothing in it says what the overlay holds in the middle of a block.
`IInv` adds that the overlay over the rows reads as the network's state after the transactions so far (`PhaseInv`).
That is kept by a transaction only if the overlay and the rows fit together.
`OverlayConsistent` says how: an account that is not in the overlay has no slots there, and one that was created had none below.
And the flush gives the same world only if every account's code has a row (`CodeRowsPresent`).
The lemmas on `View`, `CommitTx`, `FlushBatch` and `DiffBatch` are proved apart and cited by the step of each action.
Every step keeps `IInv` but one, the crash between two commits.
After that one `Stuck` holds, if the block has regular transactions: the rows are those after them, and every run that takes the block again is refused at its first transaction, before it writes anything.
So `CrashInv`, which is `IInv` or `Stuck`, is inductive wherever the process is killed.
If the block has none, nothing was committed, the crash falls back on `IInv`, and the block is replayed.
The refinement maps the moment between two commits to the old world, so that the second commit is the ledger's step and every other step a stutter.

**Import.**
A row is what some prefix of the file makes of it, and prefixes differ from row to row after a crash.
`IInv` says that rows with nothing queued are those of a prefix that reaches beyond the line read, and that queued values are those of the lines so far.
The round trip needs two facts about the file an export writes: each row is on one line, so the last value for its key is that row's, and only its last line is metadata, so a file that was cut off has none.
`HeadIsRead` says that a head comes from a metadata line.
It assumes that the iterators of the database list every row once (`OrderType`).

**Fetcher.** `Position` ties the number of the next request, or of the next block in the body, to the count of blocks yielded.

**Commands.**
The assumptions are about the constants only: types (`StatesType`, `OptionsType`, `NoneIsNothing`, `DirsAreThere`), iterators that list each row once (`OrderListsRows`), and transactions of a hybrid block that change a row at least, as a nonce does (`OverlayType`).
`HeadTellsRows` and `ExportOfOneState` prove each other: the export of a right database is a right file, and the import of a right file a right database.
In between stand the parts of `IInv`.
`Exclusive` is the lock; without it no other part survives a step of a second process.
`ReplayFollows`: a replay that is under way is at the block behind the head, or at one up to the head, which it passes over; between two commits its database is torn.
`ExportInv`: the lines written so far are exactly the rows read so far, which do not change meanwhile; the file is torn if the database is.
`LoadingInv` and `ImportInv`: an import that was begun and has not ended leaves no head and no row but the file's, and the lines that its sidecar or its process counts are in the rows; so it may be killed and repeated.
`OneValueEach` makes it harmless that a line is imported twice.

**Server.**
It also assumes the types of its queries and of `CodeRow` (`QueriesType`, `CodeRowType`, `RowsRead`).
`OpenedStays`, that no command changes a database while a server has it open, follows from `Exclusive` of the commands, which hold by refinement.
`InTurn` says of the two reads of a code query that the first one is still what the database says.

**Replay command.**
`RunInv` has the stream's own invariant as long as no block can have been left out, which is until a run has replayed its first one if the portal is faulty (`Faithful`).
`HandInv` ties stream and pipeline together: the first block that is not handled yet follows the last one replayed, and before there is one, all blocks so far were skipped and lie at or below the head.
`HeadInv` says that the head is the one that the run read until it replays a block, and that block from then on, so that the stale copy `head0` does no harm.
The stream's steps are not proved again: the lemma `InvariantStep` of the stream's part is cited.

**Validation.**
`SamplesAreRows` is about the positions alone: the quotients of two samples differ, and by more than one if the later product is whole and may fall short.
`IInv` says that the checks made are the first ones of the list, and that the mismatches are those among them that do not match.
Assumed are the types of rows and answers (`RowsType`, `NodesType`), and that no contract has one of the hashes of no code (`HashesDiffer`).

The checks are of sampled rows and of all of them (`OfSamples`, `EachChecked`), so mismatches are right and, in a report, complete.

**Search.** `Bracket`: in a range, the upper end differs and the block below the lower end agrees.

**Clients.**
Histories, calls, bytecodes, rules and numbers of threads are arbitrary.
Assumed are types (`ClientsType`, `HistoriesType`, `RequestsType`, `BodyType`, `GasType`, `MaxCallsType`), that there are finitely many rows to ask for (`PlacesAreFinite`), and that the browser client's maps have room for all of them, as nothing bounds them (`BrowserHasRoom`).
`IInv` says what a cache can hold: entries that the server once said, one for a place, within the capacity.
It relates a code to the world in which its hash was read and to the one in which the code was, which may be two.
`StillInv` is about a database that stays as it is.
Its core is `Faithful`: a local run is, step for step, the server's own run of the call, unless one of the reasons to differ is in its log already.
`RoomInv` says why a cache large enough excludes a lost code: a code is cached before the account that names it.
`SliceInv` follows the LRU order: whatever was used more recently than an entry of the call's own slice was used by this call, so as long as what it uses fits, the entry evicted is another one.
The attempt to prove it showed that the places counted must include the codes that come with the accounts, which `Touched` now does, and that `CodeUnderItsHash` needs codes that stay over any two moments, not only successive ones, as a thread may sleep over several.
A run and the storing of a slice are recursive functions.
Their values are unrolled step by step: `SetInduction` gives induction for a set of numbers, from the well-foundedness of finite sets, and `Iteration` the function of all intermediate values.
Neither takes an operator as a parameter.
The two theorems about rules stand here because the prefetch applies them; that the code's two schedules are in order is the assumption `SchedulesAdvance` of `ChainSpec`, which TLC evaluates.

**Only model-checked.**
Liveness, that is `CatchesUp` of the replayer and of the command, `Completes`, `Terminates` of the stream and of the search, and `CallsEnd`, which is beyond the prover; and the three properties that the code does not have.
Every safety property of the runs is also a theorem.

## What the code does otherwise than its documents say

Three runs show one each; `PROJECT.json` quotes the documents.

- `crash_safe`: after a crash between the two commits of a hybrid block, the block cannot be replayed, as the senders' nonces are spent. The comment says that it will be.
- `destroyed`: a destroyed contract's storage rows stay, and a contract created at its address reads them.
- `import_head`: an import that resumes behind the metadata line never sets the head.

Others were met while modelling, and have no run.

- Targets of calls and delegate calls are missing from the state slice, as the inspector does not record them. The native client asks the server again; the browser client reports that an honest server is not verified. `HonestServerVerifies` names this case.
- Loading a genesis file into a replayed database sets the head back to 0 and clears no row (`cli/src/main.rs:754-755`).
- The replay of a database that has rows and no head starts at block 0 (`main.rs:373`).
- The data set and the chain rules are options on their own, and nothing compares them with the database: with a data set in the configuration file and `--chain-id` on the command line, the blocks of one chain run under the rules of another (`main.rs:355-373`).
- The sidecar is found by the path of the snapshot file alone, so an import of another file at that path, or into another database, passes over lines that it has not written (`snapshot/src/lib.rs:98-103`). `HeadTellsRows` names this case and the three above.
- A `--from` beyond the block after the head leaves blocks out under a head that does not tell (`main.rs:373`); `HeadTellsRows` and `NoHole` name it too.
- An export of a database that was killed between the two commits of a hybrid block writes rows of the next block's transactions under the old head, and an import of the file brings them back. `ExportOfOneState` says which rows these are.
- `BLOCKHASH` is always zero (`state-db/src/revm_db.rs:56-58`): a block whose transactions read it is replayed otherwise than on the network. `ChainIsValid` assumes that none does.
- `find_divergence_block` does not check that its low block is not above its high one.
- A deletion diff without a next value is dropped before its kind is looked at (`replayer/src/lib.rs:253`), so slots deleted by a diff stay.
- An account without code that the EVM wrote holds the hash of empty code, which validation reports as a mismatch (`validation/src/lib.rs:254`). `AlarmHasReason` allows this case by name.
- The gap check does not see a gap before a run's first block (`pipeline.rs:131`, `replayer/README.md:52`).
- The progress report of a resumed import leaves out the entries of earlier runs (`snapshot/src/lib.rs:63`, `173`).
- A block in `find_divergence_block` is "the first" only if the difference lasts (`validation/src/lib.rs:270`). `FoundTurns` and `FirstIfItLasts` say what holds.
- The sampling called random is deterministic.
- The storage key sent to the node is made by `format!("0x{slot}")` (`validation/src/lib.rs:86`), and the type `B256` prints with a prefix of its own, so the prefix is there twice.
- The prefetch runs with timestamp 0, so forks that a chain activates by timestamp are never in force (`api/src/lib.rs:303`). `PrefetchRulesLag` says what is left: rules as old or older, and the right ones on Polygon.
- The clients run with block number 0, so the result of a call that reads `NUMBER` is not verified.
- The client asks for code by address and stores it under the hash it read before (`client/src/lib.rs:251-278`); if the code changed meanwhile, it is stored under another's hash. `CodeUnderItsHash` excludes such histories by name.
- A caller whose nonce is not 0 gets an error from prefetch, as the call's nonce is 0.
- `sqd-fetcher/README.md` says three retries and a JSON array; the code makes five attempts and reads NDJSON.

## What is not modelled

- Conversions: hexadecimal, the row codecs, serde attributes, headers and transactions into EVM environments. They are pure, and the repository tests them by round trips. The malformed hexadecimal that reads as 0 is one of them.
- Block hashes: `block_hash_ref` and `block_hash` answer zero, and no module has them. The chains of `ReplayerCorrect` are those that do not read them.
- Logging, progress displays and reports, metrics counters and their middleware: no behaviour depends on them.
- The writes of single rows in state-db, which only tests make.
- Benchmarks, the browser demonstration and the TypeScript wrapper.
- EIP-3607's refusal of callers with code.
- Loss of unsynced writes when the machine loses power; a process that is killed loses none.
- A request to the portal that is never answered: the code sets no timeout, so it waits, and the liveness properties assume an answer.

## Plan

The project was ordered by importance: the replayer and its proof; its stream and command; import; validation; server and clients; then all commands together, with the server beside them.
What is left, in order:

1. **A reorganisation at the portal.** Blocks carry parent hashes that nobody compares, so blocks of two branches may follow one another; the portal model never takes a block back.
2. **Forks by timestamp.** The prefetch's rules are computed with timestamp 0; a run that follows Ethereum would show which calls they change.
3. **Proofs.** That `Replayer`, `Snapshot` and `SnapshotExport` implement the commands of `Commands`, whose steps are coarser.
