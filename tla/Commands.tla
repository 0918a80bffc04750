------------------------------ MODULE Commands ------------------------------
(***************************************************************************)
(* The commands of the program (crates/cli), run by several processes over *)
(* several database directories and one snapshot file: who holds which     *)
(* database, what each one leaves behind when it is killed, and what the   *)
(* next one makes of it.                                                   *)
(*                                                                         *)
(* Coarser than Replayer, Snapshot and SnapshotExport: on the rows that it *)
(* ran on there, a block changes rows as it did on the network, in one     *)
(* commit or in two (what that needs of chain and diffs is in              *)
(* ReplayerCorrect), an import commits line by line, and a value stands    *)
(* for the block that wrote it.                                            *)
(* RocksDB locks a database for the process that has opened it, so a       *)
(* second command on it fails at once and does nothing.                    *)
(***************************************************************************)
EXTENDS Naturals, Sequences

CONSTANTS
  Dirs,        \* database directories
  Procs,       \* processes of the program
  Rows,        \* row keys
  Order,       \* the row keys as the iterators give them: accounts, storage, code
  Blocks,      \* the network has blocks 0..Blocks
  StateAt,     \* StateAt[n]: its rows after block n, None for an absent one
  Overlay,     \* Overlay[n]: its rows when block n's transactions have run and its
               \* state diffs have not been applied, for each block that has both
  Network,     \* its chain ID
  Wrong,       \* what a block leaves in a row when it runs on other rows than its own
  None,        \* an absent row, head, option or owner
  Config,      \* the configuration file: options or None
  Cli,         \* the option sets that a command may be given on its command line
  MaxCommands  \* a bound on the commands run

Values == 0..Blocks \cup {Wrong}
Hybrid == DOMAIN Overlay
Options == [db: Dirs \cup {None}, chain: Nat \cup {None}, dataset: STRING \cup {None},
            from: Nat \cup {None}]

ASSUME StatesType ==
  Blocks \in Nat /\ StateAt \in [0..Blocks -> [Rows -> 0..Blocks \cup {None}]]
\* A transaction raises its sender's nonce at least, so the overlay changes rows.
ASSUME OverlayType ==
  /\ Overlay \in [Hybrid -> [Rows -> 0..Blocks \cup {None}]] /\ Hybrid \subseteq 1..Blocks
  /\ \A n \in Hybrid : Overlay[n] # StateAt[n - 1]
ASSUME OrderListsRows ==
  /\ Order \in Seq(Rows)
  /\ \A r \in Rows : \E i \in DOMAIN Order : Order[i] = r
  /\ \A i, j \in DOMAIN Order : Order[i] = Order[j] => i = j
ASSUME NoneIsNothing == None \notin Nat \cup Dirs \cup {Wrong, "same", "other"}
ASSUME OptionsType == Config \in Options /\ Config.from = None /\ Cli \subseteq Options
ASSUME DirsAreThere == Dirs # {} /\ "file" \notin Dirs /\ MaxCommands \in Nat

----------------------------------------------------------------------------
\* An option of the command line comes before the configuration file, and that
\* before the default, each option on its own.
Setting(option, args, default) ==
  IF args[option] # None THEN args[option]
  ELSE IF Config[option] # None THEN Config[option] ELSE default

DefaultDir == CHOOSE d \in Dirs : TRUE
Dir(args) == Setting("db", args, DefaultDir)
ChainId(args) == Setting("chain", args, 137)

\* The chains that have a specification and a data set of their own.
DatasetForChain(chain) ==
  CASE chain = 1 -> "ethereum-mainnet" [] chain = 137 -> "polygon-mainnet" [] OTHER -> None
Dataset(args) == Setting("dataset", args, DatasetForChain(ChainId(args)))
Supported(args) == ChainId(args) \in {1, 137}

\* Lines of the snapshot file; the last one may be cut off.
Lines == [kind: {"entry"}, row: Rows, value: Values]
           \cup [kind: {"metadata"}, head: 0..Blocks] \cup [kind: {"cut"}]

Tasks == {"none", "replay", "import", "export", "serve", "read"}
Steps == {"go", "diffs", "record", "cleanup"}
Jobs == [cmd: Tasks, dir: Dirs \cup {None},
         own: BOOLEAN,            \* replay: the data and the rules are the network's
         at: Nat, skip: Nat,      \* the next block, or the lines read, written and skipped
         meta: 0..Blocks \cup {None}, \* import: the head block read
         step: Steps]
NoJob == [cmd |-> "none", dir |-> None, own |-> TRUE, at |-> 0, skip |-> 0,
          meta |-> None, step |-> "go"]

VARIABLES
  db,        \* db[d]: the rows and the head block of the database in directory d
  jobs,      \* what each process is doing
  file,      \* the snapshot file
  sidecar,   \* the .progress file beside it: lines imported, 0 when there is none
  commands,  \* how many commands were run
  \* history, for the properties
  tainted,   \* directories, or "file", that were put to a use the program does not
             \* check and cannot serve
  torn,      \* directories, or "file", with the rows of a block's transactions whose
             \* state diffs have not been applied
  loading,   \* loading[d]: an import into d that was started has not ended; of the
             \* file as it is ("same") or as it was before it was written again
  recorded   \* the directory whose import wrote the sidecar

disk == <<db, file, sidecar>>
history == <<tainted, torn, loading, recorded>>
vars == <<disk, jobs, commands, history>>

EmptyRows == [r \in Rows |-> None]

Init ==
  /\ db = [d \in Dirs |-> [rows |-> EmptyRows, head |-> None]]
  /\ jobs = [p \in Procs |-> NoJob]
  /\ file = <<>> /\ sidecar = 0 /\ commands = 0
  /\ tainted = {} /\ torn = {} /\ loading = [d \in Dirs |-> None] /\ recorded = None

----------------------------------------------------------------------------
\* Mutant: nothing locks a database.
Free_m(d) == TRUE

Free(d) == \A p \in Procs : jobs[p].dir # d

\* A process starts a command, which opens its database first.
Begin(p, job) ==
  /\ jobs[p] = NoJob /\ commands < MaxCommands /\ Free(job.dir)
  /\ jobs' = [jobs EXCEPT ![p] = job] /\ commands' = commands + 1

Job(cmd, d) == [NoJob EXCEPT !.cmd = cmd, !.dir = d]
End(p) == jobs' = [jobs EXCEPT ![p] = NoJob]
Runs(p, cmd) == jobs[p].cmd = cmd
Doing(p, cmd, step) == jobs[p].cmd = cmd /\ jobs[p].step = step

\* The program does not know which chain a database holds, nor that rows are missing,
\* nor that --from leaves blocks out.
StartReplay(p, args) ==
  LET d == Dir(args)
      head == db[d].head
      own == ChainId(args) = Network /\ Dataset(args) = DatasetForChain(Network)
      next == IF head = None THEN 0 ELSE head + 1
      start == IF args.from # None THEN args.from ELSE next
  IN  /\ Supported(args) /\ Dataset(args) # None
      /\ Begin(p, [Job("replay", d) EXCEPT !.own = own, !.at = start])
      /\ tainted' = IF own /\ head # None /\ start <= next THEN tainted ELSE tainted \cup {d}
      /\ UNCHANGED <<disk, torn, loading, recorded>>

Replaying(p) == Doing(p, "replay", "go") /\ jobs[p].at <= Blocks
Behind(p) == db[jobs[p].dir].head # None /\ jobs[p].at <= db[jobs[p].dir].head

\* Blocks up to the head are passed over.
SkipBlock(p) ==
  /\ Replaying(p) /\ Behind(p)
  /\ jobs' = [jobs EXCEPT ![p].at = @ + 1]
  /\ UNCHANGED <<disk, commands, history>>

\* A commit changes the rows that it changed on the network, and to the same values if
\* it runs on the rows it ran on there, under the same rules.
Changed(rows, before, after, own) ==
  IF own /\ rows = before THEN after
  ELSE [r \in Rows |-> IF after[r] # before[r] THEN Wrong ELSE rows[r]]

\* Block 0 has no transactions.
AfterBlock(rows, n, own) ==
  IF n = 0 THEN rows ELSE Changed(rows, StateAt[n - 1], StateAt[n], own)

\* A block without state diffs, or with no transactions beside them, is one commit.
\* Whether the data of another chain has diffs is unknown.
ReplayBlock(p) ==
  LET d == jobs[p].dir
      n == jobs[p].at
  IN  /\ Replaying(p) /\ ~ Behind(p) /\ (jobs[p].own => n \notin Hybrid)
      /\ db' = [db EXCEPT ![d] = [rows |-> AfterBlock(db[d].rows, n, jobs[p].own), head |-> n]]
      /\ jobs' = [jobs EXCEPT ![p].at = n + 1]
      /\ torn' = torn \ {d}
      /\ UNCHANGED <<file, sidecar, commands, tainted, loading, recorded>>

\* Mutant: the overlay's commit sets the head.
CommitOverlay_m(p) ==
  LET d == jobs[p].dir
      n == jobs[p].at
  IN  /\ Replaying(p) /\ ~ Behind(p) /\ n \in Hybrid /\ db[d].rows # Overlay[n]
      /\ db' = [db EXCEPT ![d] = [rows |-> Changed(db[d].rows, StateAt[n - 1], Overlay[n], jobs[p].own),
                                  head |-> n]]
      /\ jobs' = [jobs EXCEPT ![p].step = "diffs"]
      /\ torn' = torn \cup {d}
      /\ UNCHANGED <<file, sidecar, commands, tainted, loading, recorded>>

\* A block with both is two commits: what the transactions did, without the head ...
\* On rows they ran on before they fail, for their nonces are spent.
CommitOverlay(p) ==
  LET d == jobs[p].dir
      n == jobs[p].at
  IN  /\ Replaying(p) /\ ~ Behind(p) /\ n \in Hybrid /\ db[d].rows # Overlay[n]
      /\ db' = [db EXCEPT ![d].rows = Changed(@, StateAt[n - 1], Overlay[n], jobs[p].own)]
      /\ jobs' = [jobs EXCEPT ![p].step = "diffs"]
      /\ torn' = torn \cup {d}
      /\ UNCHANGED <<file, sidecar, commands, tainted, loading, recorded>>

\* ... and the state diffs with the head.
CommitDiffs(p) ==
  LET d == jobs[p].dir
      n == jobs[p].at
  IN  /\ Doing(p, "replay", "diffs") /\ n \in Hybrid
      /\ db' = [db EXCEPT ![d] =
           [rows |-> Changed(db[d].rows, Overlay[n], StateAt[n], jobs[p].own), head |-> n]]
      /\ jobs' = [jobs EXCEPT ![p].at = n + 1, ![p].step = "go"]
      /\ torn' = torn \ {d}
      /\ UNCHANGED <<file, sidecar, commands, tainted, loading, recorded>>

\* Loading a genesis file is one batch: it clears no rows, and sets the head to 0.
Genesis(args) ==
  LET d == Dir(args)
      old == db[d].rows
  IN  /\ Free(d) /\ commands < MaxCommands
      /\ db' = [db EXCEPT ![d] =
           [rows |-> [r \in Rows |-> IF StateAt[0][r] = None THEN old[r] ELSE StateAt[0][r]],
            head |-> 0]]
      /\ commands' = commands + 1
      /\ tainted' = IF \A r \in Rows : old[r] \in {None, StateAt[0][r]} THEN tainted
                    ELSE tainted \cup {d}
      /\ torn' = torn \ {d}
      /\ loading' = [loading EXCEPT ![d] = None]
      /\ UNCHANGED <<jobs, file, sidecar, recorded>>

----------------------------------------------------------------------------
\* The sidecar lies beside the file and names neither the database nor the contents
\* of the file: only an import that goes on where it stopped, or one into an empty
\* database without a sidecar, brings the file's rows and no others.
GoesOn(d) == loading[d] = "same" /\ (sidecar = 0 \/ recorded = d)
StartsAnew(d) == db[d].rows = EmptyRows /\ db[d].head = None /\ sidecar = 0

StartImport(p, args) ==
  LET d == Dir(args)
  IN  /\ Begin(p, [Job("import", d) EXCEPT !.skip = sidecar])
      /\ tainted' = IF (GoesOn(d) \/ StartsAnew(d)) /\ "file" \notin tainted THEN tainted
                    ELSE tainted \cup {d}
      /\ loading' = [loading EXCEPT ![d] = "same"]
      /\ UNCHANGED <<disk, torn, recorded>>

Importing(p) == Doing(p, "import", "go")
NextLine(p) == file[jobs[p].at + 1]
MoreLines(p) == Importing(p) /\ jobs[p].at < Len(file)
Fresh(p) == jobs[p].at + 1 > jobs[p].skip

PassOver(p) ==
  /\ MoreLines(p) /\ ~ Fresh(p)
  /\ jobs' = [jobs EXCEPT ![p].at = @ + 1]
  /\ UNCHANGED <<disk, commands, history>>

ImportEntry(p) ==
  /\ MoreLines(p) /\ Fresh(p) /\ NextLine(p).kind = "entry"
  /\ db' = [db EXCEPT ![jobs[p].dir].rows[NextLine(p).row] = NextLine(p).value]
  /\ jobs' = [jobs EXCEPT ![p].at = @ + 1, ![p].step = "record"]
  /\ UNCHANGED <<file, sidecar, commands, history>>

Record(p) ==
  /\ Doing(p, "import", "record")
  /\ sidecar' = jobs[p].at /\ recorded' = jobs[p].dir
  /\ jobs' = [jobs EXCEPT ![p].step = "go"]
  /\ UNCHANGED <<db, file, commands, tainted, torn, loading>>

ImportMetadata(p) ==
  /\ MoreLines(p) /\ Fresh(p) /\ NextLine(p).kind = "metadata"
  /\ jobs' = [jobs EXCEPT ![p].at = @ + 1, ![p].meta = NextLine(p).head]
  /\ UNCHANGED <<disk, commands, history>>

\* The head is written at the end of the file, in the last commit.
ImportHead(p) ==
  LET d == jobs[p].dir
  IN  /\ Importing(p) /\ jobs[p].at >= Len(file)
      /\ db' = [db EXCEPT ![d].head = IF jobs[p].meta = None THEN @ ELSE jobs[p].meta]
      /\ jobs' = [jobs EXCEPT ![p].step = "cleanup"]
      /\ torn' = IF "file" \in torn THEN torn \cup {d} ELSE torn \ {d}
      /\ loading' = [loading EXCEPT ![d] = None]
      /\ UNCHANGED <<file, sidecar, commands, tainted, recorded>>

\* An error of the removal is ignored.
Cleanup(p) ==
  /\ Doing(p, "import", "cleanup")
  /\ sidecar' \in {0, sidecar}
  /\ End(p)
  /\ UNCHANGED <<db, file, commands, history>>

----------------------------------------------------------------------------
ImportersNow == {jobs[p].dir : p \in {q \in Procs : Runs(q, "import")}}
Exporters == {p \in Procs : Runs(p, "export")}

\* The file is truncated under whoever reads or writes it; its sidecar stays.
StartExport(p, args) ==
  LET d == Dir(args)
  IN  /\ Begin(p, Job("export", d))
      /\ file' = <<>>
      /\ tainted' = IF d \in tainted \/ Exporters # {} THEN tainted \cup ImportersNow \cup {"file"}
                    ELSE (tainted \cup ImportersNow) \ {"file"}
      /\ torn' = IF d \in torn THEN torn \cup {"file"} ELSE torn \ {"file"}
      /\ loading' = [e \in Dirs |-> IF loading[e] = None THEN None ELSE "other"]
      /\ recorded' = None
      /\ UNCHANGED <<db, sidecar>>

\* Mutant: absent rows are written as rows of block 0.
ExportRow_m(p) ==
  LET r == Order[jobs[p].at + 1]
      value == db[jobs[p].dir].rows[r]
  IN  /\ Runs(p, "export") /\ jobs[p].at < Len(Order)
      /\ file' = Append(file, [kind |-> "entry", row |-> r, value |-> IF value = None THEN 0 ELSE value])
      /\ jobs' = [jobs EXCEPT ![p].at = @ + 1]
      /\ UNCHANGED <<db, sidecar, commands, history>>

\* Each column family is read by an iterator of its own.
ExportRow(p) ==
  LET r == Order[jobs[p].at + 1]
      value == db[jobs[p].dir].rows[r]
  IN  /\ Runs(p, "export") /\ jobs[p].at < Len(Order)
      /\ file' = IF value = None THEN file
                 ELSE Append(file, [kind |-> "entry", row |-> r, value |-> value])
      /\ jobs' = [jobs EXCEPT ![p].at = @ + 1]
      /\ UNCHANGED <<db, sidecar, commands, history>>

ExportHead(p) ==
  LET head == db[jobs[p].dir].head
  IN  /\ Runs(p, "export") /\ jobs[p].at = Len(Order)
      /\ file' = IF head = None THEN file ELSE Append(file, [kind |-> "metadata", head |-> head])
      /\ End(p)
      /\ UNCHANGED <<db, sidecar, commands, history>>

----------------------------------------------------------------------------
\* Compaction and validation hold the database and change no row; validation asks
\* for a head block first.
Compact(p, args) ==
  /\ Begin(p, Job("read", Dir(args)))
  /\ UNCHANGED <<disk, history>>

Validate(p, args) ==
  /\ db[Dir(args)].head # None
  /\ Begin(p, Job("read", Dir(args)))
  /\ UNCHANGED <<disk, history>>

Serve(p, args) ==
  /\ Supported(args)
  /\ Begin(p, Job("serve", Dir(args)))
  /\ UNCHANGED <<disk, history>>

\* The stream of a replay ends, a block or a commit fails, a line of an import does not
\* parse, a server is stopped; or the process is killed: between the two commits of a
\* block, in the middle of a line that it writes, or between the truncation of the
\* sidecar and the number written to it.
Stop(p) ==
  /\ jobs[p] # NoJob /\ End(p)
  /\ file' \in IF Runs(p, "export") THEN {file, Append(file, [kind |-> "cut"])} ELSE {file}
  /\ sidecar' \in IF Doing(p, "import", "record") THEN {sidecar, 0} ELSE {sidecar}
  /\ UNCHANGED <<db, commands, history>>

Work(p) ==
  \/ SkipBlock(p) \/ ReplayBlock(p) \/ CommitOverlay(p) \/ CommitDiffs(p)
  \/ PassOver(p) \/ ImportEntry(p) \/ Record(p) \/ ImportMetadata(p) \/ ImportHead(p) \/ Cleanup(p)
  \/ ExportRow(p) \/ ExportHead(p)

Start(p) == \E args \in Cli :
  \/ StartReplay(p, args) \/ StartImport(p, args) \/ StartExport(p, args)
  \/ Compact(p, args) \/ Validate(p, args) \/ Serve(p, args)

Next ==
  \/ \E args \in Cli : Genesis(args)
  \/ \E p \in Procs : Start(p) \/ Work(p) \/ Stop(p)

Spec == Init /\ [][Next]_vars
----------------------------------------------------------------------------
\* Every variable has its type, and an idle process has nothing in hand.
TypeOK ==
  /\ db \in [Dirs -> [rows: [Rows -> Values \cup {None}], head: 0..Blocks \cup {None}]]
  /\ jobs \in [Procs -> Jobs]
  /\ \A p \in Procs : Runs(p, "none") => jobs[p] = NoJob
  /\ file \in Seq(Lines) /\ sidecar \in Nat /\ commands \in 0..MaxCommands
  /\ tainted \subseteq Dirs \cup {"file"} /\ torn \subseteq Dirs \cup {"file"}
  /\ loading \in [Dirs -> {None, "same", "other"}] /\ recorded \in Dirs \cup {None}

\* The rows that go with a head: the network's after that block; or, when the next
\* block has run and its state diffs have not been applied, the rows of its overlay.
RowsOf(head, midway) ==
  IF midway /\ head + 1 \in Hybrid THEN Overlay[head + 1] ELSE StateAt[head]

\* A database that has a head holds the network's state after that block, whichever
\* commands were run on it, killed and run again, at the same time as others; except
\* that one in which a process is, or was killed, between the two commits of the next
\* block holds just what the first of them left (replayer lib.rs:182-183), and so does
\* one that was loaded from a snapshot of it.  Nothing is said of a database that was
\* put to one of the uses that nothing checks: a genesis file over later rows
\* (main.rs:755), a replay of a database without a head, of another chain's data, or
\* with a --from beyond the next block (main.rs:355-373), an import over other rows or
\* with a sidecar of another file or of another database (snapshot lib.rs:98-103).
HeadTellsRows ==
  \A d \in Dirs \ tainted : db[d].head # None => db[d].rows = RowsOf(db[d].head, d \in torn)

\* The rows that a snapshot file names, and their values.
EntryLines == {i \in DOMAIN file : file[i].kind = "entry"}
HeadLines == {i \in DOMAIN file : file[i].kind = "metadata"}
Holds(rows) ==
  \A r \in Rows : {file[i].value : i \in {j \in EntryLines : file[j].row = r}}
                    = IF rows[r] = None THEN {} ELSE {rows[r]}

\* A snapshot file that names a head block holds the rows that go with it, no row more
\* and none less, although every column family is read by an iterator of its own and
\* the head last (snapshot lib.rs:242-288): the network's state after that block, or,
\* if the database it was written from was left between two commits, that one's rows.
ExportOfOneState ==
  "file" \notin tainted =>
    \A i \in HeadLines : i = Len(file) /\ Holds(RowsOf(file[i].head, "file" \in torn))

----------------------------------------------------------------------------
\* The inductive invariant: what is true between any two steps.

\* A database is held by one process at most, and a process without a command by none.
Exclusive ==
  /\ \A p \in Procs : jobs[p].dir = None <=> jobs[p].cmd = "none"
  /\ \A p, q \in Procs : jobs[p].dir = jobs[q].dir => p = q \/ jobs[p].dir = None

\* A replay is at the block behind the head, or at one before it that it will skip.
ReplayFollows ==
  \A p \in Procs : Runs(p, "replay") /\ jobs[p].dir \notin tainted =>
    LET head == db[jobs[p].dir].head
    IN  /\ jobs[p].own /\ head # None /\ jobs[p].at <= head + 1
        /\ jobs[p].step = "diffs" =>
             jobs[p].at = head + 1 /\ jobs[p].at \in Hybrid /\ jobs[p].dir \in torn

\* The lines of a file give a row one value. Those of an export that goes on are the
\* rows that were read, and nothing else.
OneValueEach ==
  \A i, j \in EntryLines : file[i].row = file[j].row => file[i].value = file[j].value
WrittenSoFar(p) ==
  LET rows == db[jobs[p].dir].rows
  IN  /\ \A i \in DOMAIN file : i \in EntryLines /\ file[i].value = rows[file[i].row]
      /\ \A k \in 1..jobs[p].at : rows[Order[k]] # None =>
            \E i \in EntryLines : file[i].row = Order[k]
ExportInv ==
  "file" \notin tainted =>
    /\ OneValueEach
    /\ \A p \in Exporters : jobs[p].dir \notin tainted /\ WrittenSoFar(p)
                            /\ (jobs[p].dir \in torn <=> "file" \in torn)
    /\ \A p, q \in Exporters : p = q

\* Lines that are in, and rows that come from the file.
LinesIn(d, n) == \A i \in EntryLines : i <= n => db[d].rows[file[i].row] = file[i].value
FromFile(d) ==
  \A r \in Rows : db[d].rows[r] # None =>
    \E i \in EntryLines : file[i].row = r /\ file[i].value = db[d].rows[r]

\* An import that was started and has not ended: no head, no row but the file's, and
\* the lines that the sidecar counts are in.
LoadingInv ==
  \A d \in Dirs \ tainted : loading[d] = "same" =>
    /\ "file" \notin tainted /\ db[d].head = None /\ FromFile(d)
    /\ recorded = d => sidecar <= Len(file) /\ LinesIn(d, sidecar)

\* The same of the process that imports: the lines it read or passed over are in.
ImportInv ==
  \A p \in Procs : Runs(p, "import") /\ jobs[p].step # "cleanup" /\ jobs[p].dir \notin tainted =>
    /\ loading[jobs[p].dir] = "same"
    /\ jobs[p].at <= Len(file) /\ LinesIn(jobs[p].dir, jobs[p].at)
    /\ jobs[p].skip <= Len(file) /\ LinesIn(jobs[p].dir, jobs[p].skip)
    /\ jobs[p].meta # None =>
         jobs[p].at = Len(file) /\ Len(file) \in HeadLines /\ jobs[p].meta = file[Len(file)].head

IInv ==
  /\ TypeOK /\ Exclusive /\ ReplayFollows /\ ExportInv /\ LoadingInv /\ ImportInv
  /\ HeadTellsRows /\ ExportOfOneState
=============================================================================
