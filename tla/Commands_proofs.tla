--------------------------- MODULE Commands_proofs ---------------------------
(***************************************************************************)
(* Proofs about the commands of the program, for any number of processes,  *)
(* directories and rows and any chain: what a database with a head and a   *)
(* snapshot file with a head hold.                                         *)
(***************************************************************************)
EXTENDS Commands, TLAPS

----------------------------------------------------------------------------
\* Constants and types.

LEMMA DirOfOptions ==
  ASSUME NEW args \in Cli
  PROVE  Dir(args) \in Dirs
<1>1. args.db \in Dirs \cup {None} /\ Config.db \in Dirs \cup {None}
  BY OptionsType DEF Options
<1>2. DefaultDir \in Dirs
  BY DirsAreThere DEF DefaultDir
<1> QED BY <1>1, <1>2 DEF Dir, Setting

LEMMA NoneIsOther ==
  /\ None \notin Dirs /\ None # "same" /\ None # "other" /\ None \notin Values
  /\ None \notin 0..Blocks /\ "file" \notin Dirs
<1>1. Blocks \in Nat
  BY StatesType
<1>2. None \notin Nat \cup Dirs \cup {Wrong, "same", "other"}
  BY NoneIsNothing
<1>3. "file" \notin Dirs
  BY DirsAreThere
<1>4. None # "same" /\ None # "other"
  BY <1>2
<1>5. None \notin 0..Blocks
  BY <1>1, <1>2
<1> QED BY <1>2, <1>3, <1>4, <1>5 DEF Values

LEMMA StatesTyped ==
  /\ \A n \in 0..Blocks : StateAt[n] \in [Rows -> Values \cup {None}]
  /\ \A n \in Hybrid : Overlay[n] \in [Rows -> Values \cup {None}]
BY StatesType, OverlayType DEF Values

LEMMA RowsOfTyped ==
  ASSUME NEW midway, NEW head \in 0..Blocks
  PROVE  RowsOf(head, midway) \in [Rows -> Values \cup {None}]
BY StatesTyped DEF RowsOf

LEMMA LineTyped ==
  ASSUME NEW l \in Lines
  PROVE  /\ l.kind \in {"entry", "metadata", "cut"}
         /\ l.kind = "entry" => l.row \in Rows /\ l.value \in Values
         /\ l.kind = "metadata" => l.head \in 0..Blocks
BY DEF Lines

LEMMA FileTyped ==
  ASSUME TypeOK
  PROVE  /\ Len(file) \in Nat /\ DOMAIN file = 1..Len(file)
         /\ \A i \in 1..Len(file) : file[i] \in Lines
BY DEF TypeOK

LEMMA JobTyped ==
  ASSUME TypeOK, NEW p \in Procs
  PROVE  /\ jobs[p].cmd \in Tasks /\ jobs[p].dir \in Dirs \cup {None}
         /\ jobs[p].at \in Nat /\ jobs[p].skip \in Nat
         /\ jobs[p].meta \in 0..Blocks \cup {None}
         /\ jobs[p].step \in Steps
BY DEF TypeOK, Jobs

LEMMA JobHasDir ==
  ASSUME TypeOK, Exclusive, NEW p \in Procs, jobs[p].cmd # "none"
  PROVE  jobs[p].dir \in Dirs
BY JobTyped DEF Exclusive

LEMMA NewJobTyped ==
  ASSUME NEW d \in Dirs, NEW cmd \in Tasks \ {"none"}
  PROVE  /\ Job(cmd, d) \in Jobs /\ Job(cmd, d).cmd = cmd /\ Job(cmd, d).dir = d
         /\ Job(cmd, d).at = 0 /\ Job(cmd, d).skip = 0 /\ Job(cmd, d).meta = None
         /\ Job(cmd, d).step = "go"
BY DEF Job, NoJob, Jobs, Tasks, Steps

----------------------------------------------------------------------------
\* A line more.

LEMMA OneLineMore ==
  ASSUME TypeOK, NEW l \in Lines, file' = Append(file, l)
  PROVE  /\ file' \in Seq(Lines) /\ Len(file') = Len(file) + 1
         /\ DOMAIN file' = 1..(Len(file) + 1)
         /\ \A i \in 1..Len(file) : file'[i] = file[i]
         /\ file'[Len(file) + 1] = l
BY FileTyped DEF TypeOK

LEMMA EntriesMore ==
  ASSUME TypeOK, NEW l \in Lines, file' = Append(file, l)
  PROVE  /\ EntryLines \subseteq EntryLines' /\ HeadLines \subseteq HeadLines'
         /\ EntryLines' \subseteq EntryLines \cup {Len(file) + 1}
         /\ HeadLines' \subseteq HeadLines \cup {Len(file) + 1}
         /\ Len(file) + 1 \in EntryLines' <=> l.kind = "entry"
         /\ Len(file) + 1 \in HeadLines' <=> l.kind = "metadata"
<1>1. DOMAIN file = 1..Len(file) /\ Len(file) \in Nat
  BY FileTyped
<1> QED BY <1>1, OneLineMore DEF EntryLines, HeadLines

----------------------------------------------------------------------------
\* Who holds what.

LEMMA BeginExclusive ==
  ASSUME TypeOK, Exclusive, NEW p \in Procs, NEW job \in Jobs, job.dir \in Dirs, job.cmd # "none",
         Begin(p, job)
  PROVE  Exclusive'
<1>1. \A q \in Procs : jobs'[q] = IF q = p THEN job ELSE jobs[q]
  BY DEF Begin, TypeOK
<1>2. \A q \in Procs : jobs[q].dir # job.dir
  BY DEF Begin, Free
<1> QED BY <1>1, <1>2, NoneIsOther DEF Exclusive

LEMMA EndExclusive ==
  ASSUME TypeOK, Exclusive, NEW p \in Procs, End(p)
  PROVE  Exclusive'
<1>1. \A q \in Procs : jobs'[q] = IF q = p THEN NoJob ELSE jobs[q]
  BY DEF End, TypeOK
<1> QED BY <1>1 DEF Exclusive, NoJob

LEMMA SameJobExclusive ==
  ASSUME Exclusive,
         \A q \in Procs : jobs'[q].cmd = jobs[q].cmd /\ jobs'[q].dir = jobs[q].dir
  PROVE  Exclusive'
BY DEF Exclusive

----------------------------------------------------------------------------
\* What a step leaves alone keeps what is said of it.

LEMMA RowsStand ==
  ASSUME HeadTellsRows, db' = db,
         \A d \in Dirs : (d \in tainted => d \in tainted') /\ (d \in torn' <=> d \in torn)
  PROVE  HeadTellsRows'
BY DEF HeadTellsRows, RowsOf

LEMMA FileStands ==
  ASSUME ExportOfOneState, file' = file, "file" \in tainted => "file" \in tainted',
         "file" \in torn' <=> "file" \in torn
  PROVE  ExportOfOneState'
<1>1. HeadLines' = HeadLines /\ EntryLines' = EntryLines
  BY DEF HeadLines, EntryLines
<1>2. ASSUME NEW i \in HeadLines
      PROVE  Holds(RowsOf(file[i].head, "file" \in torn))' <=> Holds(RowsOf(file[i].head, "file" \in torn))
  <2>1. ("file" \in torn') = ("file" \in torn)
    OBVIOUS
  <2> QED BY <1>1, <2>1 DEF Holds
<1> QED BY <1>1, <1>2 DEF ExportOfOneState

LEMMA ReplayStands ==
  ASSUME ReplayFollows, \A d \in Dirs : d \in tainted => d \in tainted',
         TypeOK, Exclusive,
         \A q \in Procs : Runs(q, "replay")' =>
           /\ jobs'[q] = jobs[q] /\ db'[jobs[q].dir] = db[jobs[q].dir]
           /\ jobs[q].dir \in torn => jobs[q].dir \in torn'
  PROVE  ReplayFollows'
<1> SUFFICES ASSUME NEW q \in Procs, jobs'[q].cmd = "replay", jobs'[q].dir \notin tainted'
             PROVE  /\ jobs'[q].own /\ db'[jobs'[q].dir].head # None
                    /\ jobs'[q].at <= db'[jobs'[q].dir].head + 1
                    /\ jobs'[q].step = "diffs" =>
                         /\ jobs'[q].at = db'[jobs'[q].dir].head + 1
                         /\ jobs'[q].at \in Hybrid /\ jobs'[q].dir \in torn'
  BY DEF ReplayFollows, Runs
<1>1. jobs'[q] = jobs[q] /\ db'[jobs[q].dir] = db[jobs[q].dir]
  BY DEF Runs
<1>2. jobs[q].dir \in Dirs
  BY <1>1, JobHasDir
<1>3. jobs[q].dir \notin tainted
  BY <1>1, <1>2
<1> QED BY <1>1, <1>3 DEF ReplayFollows, Runs

LEMMA ExportStands ==
  ASSUME ExportInv, TypeOK, Exclusive, file' = file,
         "file" \in tainted => "file" \in tainted', "file" \in torn' <=> "file" \in torn,
         \A q \in Procs : Runs(q, "export")' =>
           /\ jobs'[q] = jobs[q] /\ db'[jobs[q].dir] = db[jobs[q].dir]
           /\ jobs[q].dir \in tainted' => jobs[q].dir \in tainted
           /\ jobs[q].dir \in torn' <=> jobs[q].dir \in torn
  PROVE  ExportInv'
<1> SUFFICES ASSUME "file" \notin tainted'
             PROVE  /\ OneValueEach'
                    /\ \A q \in Exporters' : jobs'[q].dir \notin tainted' /\ WrittenSoFar(q)'
                                             /\ (jobs'[q].dir \in torn' <=> "file" \in torn')
                    /\ \A p, q \in Exporters' : p = q
  BY DEF ExportInv
<1>1. /\ OneValueEach
      /\ \A q \in Exporters : jobs[q].dir \notin tainted /\ WrittenSoFar(q)
                              /\ (jobs[q].dir \in torn <=> "file" \in torn)
      /\ \A p, q \in Exporters : p = q
  BY DEF ExportInv
<1>2. OneValueEach'
  BY <1>1 DEF OneValueEach, EntryLines
<1>3. \A q \in Exporters' : q \in Procs /\ q \in Exporters /\ jobs'[q] = jobs[q]
  BY DEF Exporters, Runs
<1>4. ASSUME NEW q \in Exporters'
      PROVE  jobs'[q].dir \notin tainted' /\ WrittenSoFar(q)' /\ (jobs'[q].dir \in torn' <=> "file" \in torn')
  <2>1. q \in Procs /\ Runs(q, "export")' /\ jobs'[q] = jobs[q] /\ q \in Exporters
    BY <1>3 DEF Exporters
  <2>2. db'[jobs'[q].dir] = db[jobs[q].dir]
    BY <2>1
  <2>3. WrittenSoFar(q)'
    BY <1>1, <2>1, <2>2 DEF WrittenSoFar, EntryLines
  <2> QED BY <1>1, <2>1, <2>3
<1> QED BY <1>1, <1>2, <1>3, <1>4

LEMMA ImportStands ==
  ASSUME ImportInv, TypeOK, Exclusive, file' = file,
         \A d \in Dirs : d \in tainted => d \in tainted',
         \A q \in Procs : Runs(q, "import")' =>
           /\ jobs'[q] = jobs[q] /\ db'[jobs[q].dir] = db[jobs[q].dir]
           /\ loading'[jobs[q].dir] = loading[jobs[q].dir]
  PROVE  ImportInv'
<1> SUFFICES ASSUME NEW q \in Procs, jobs'[q].cmd = "import", jobs'[q].step # "cleanup",
                    jobs'[q].dir \notin tainted'
             PROVE  /\ loading'[jobs'[q].dir] = "same"
                    /\ jobs'[q].at <= Len(file') /\ LinesIn(jobs[q].dir, jobs[q].at)'
                    /\ jobs'[q].skip <= Len(file') /\ LinesIn(jobs[q].dir, jobs[q].skip)'
                    /\ jobs'[q] = jobs[q]
                    /\ jobs'[q].meta # None =>
                         /\ jobs'[q].at = Len(file') /\ Len(file') \in HeadLines'
                         /\ jobs'[q].meta = file'[Len(file')].head
  BY DEF ImportInv, Runs, LinesIn
<1>1. /\ jobs'[q] = jobs[q] /\ db'[jobs[q].dir] = db[jobs[q].dir]
      /\ loading'[jobs[q].dir] = loading[jobs[q].dir]
  BY DEF Runs
<1>2. jobs[q].dir \in Dirs
  BY <1>1, JobHasDir
<1>3. jobs[q].dir \notin tainted
  BY <1>1, <1>2
<1>4. /\ loading[jobs[q].dir] = "same"
      /\ jobs[q].at <= Len(file) /\ LinesIn(jobs[q].dir, jobs[q].at)
      /\ jobs[q].skip <= Len(file) /\ LinesIn(jobs[q].dir, jobs[q].skip)
      /\ jobs[q].meta # None =>
           jobs[q].at = Len(file) /\ Len(file) \in HeadLines /\ jobs[q].meta = file[Len(file)].head
  BY <1>1, <1>3 DEF ImportInv, Runs
<1>5. HeadLines' = HeadLines
  BY DEF HeadLines
<1>6. LinesIn(jobs[q].dir, jobs[q].at)' /\ LinesIn(jobs[q].dir, jobs[q].skip)'
  BY <1>1, <1>4 DEF LinesIn, EntryLines
<1> QED BY <1>1, <1>4, <1>5, <1>6

LEMMA LoadingStands ==
  ASSUME LoadingInv, file' = file, sidecar' = sidecar, recorded' = recorded,
         "file" \in tainted' => "file" \in tainted,
         \A d \in Dirs : d \in tainted => d \in tainted',
         \A d \in Dirs : loading'[d] = "same" /\ d \notin tainted' =>
           loading[d] = "same" /\ db'[d] = db[d]
  PROVE  LoadingInv'
<1> SUFFICES ASSUME NEW d \in Dirs, d \notin tainted', loading'[d] = "same"
             PROVE  /\ "file" \notin tainted' /\ db'[d].head = None /\ FromFile(d)'
                    /\ recorded' = d => sidecar' <= Len(file') /\ LinesIn(d, sidecar)'
  BY DEF LoadingInv
<1>1. d \notin tainted /\ loading[d] = "same" /\ db'[d] = db[d]
  OBVIOUS
<1>2. /\ "file" \notin tainted /\ db[d].head = None /\ FromFile(d)
      /\ recorded = d => sidecar <= Len(file) /\ LinesIn(d, sidecar)
  BY <1>1 DEF LoadingInv
<1>3. FromFile(d)'
  BY <1>1, <1>2 DEF FromFile, EntryLines
<1>4. recorded' = d => LinesIn(d, sidecar)'
  BY <1>1, <1>2 DEF LinesIn, EntryLines
<1> QED BY <1>1, <1>2, <1>3, <1>4

----------------------------------------------------------------------------
\* The steps: each keeps the invariant.

LEMMA BeginTyped ==
  ASSUME TypeOK, Exclusive, NEW p \in Procs, NEW job \in Jobs, job.dir \in Dirs, job.cmd # "none",
         Begin(p, job)
  PROVE  /\ jobs' \in [Procs -> Jobs] /\ commands' \in 0..MaxCommands
         /\ \A q \in Procs : Runs(q, "none")' => jobs'[q] = NoJob
         /\ \A q \in Procs : jobs'[q] = IF q = p THEN job ELSE jobs[q]
         /\ \A q \in Procs : jobs[q].dir # job.dir
         /\ jobs[p] = NoJob
         /\ Exclusive'
<1>1. jobs' = [jobs EXCEPT ![p] = job] /\ commands' = commands + 1 /\ commands < MaxCommands
  BY DEF Begin
<1>2. MaxCommands \in Nat
  BY DirsAreThere
<1>3. /\ jobs \in [Procs -> Jobs] /\ commands \in 0..MaxCommands
      /\ \A q \in Procs : Runs(q, "none") => jobs[q] = NoJob
  BY DEF TypeOK
<1>4. \A q \in Procs : jobs'[q] = IF q = p THEN job ELSE jobs[q]
  BY <1>1, <1>3
<1>5. \A q \in Procs : Runs(q, "none")' => jobs'[q] = NoJob
  BY <1>3, <1>4 DEF Runs
<1>6. commands' \in 0..MaxCommands /\ jobs' \in [Procs -> Jobs]
  BY <1>1, <1>2, <1>3
<1>7. \A q \in Procs : jobs[q].dir # job.dir
  BY DEF Begin, Free
<1> QED BY <1>4, <1>5, <1>6, <1>7, BeginExclusive DEF Begin

LEMMA StartReplayKeeps ==
  ASSUME IInv, NEW p \in Procs, NEW args \in Cli, StartReplay(p, args)
  PROVE  IInv'
<1> DEFINE d == Dir(args)
           own == ChainId(args) = Network /\ Dataset(args) = DatasetForChain(Network)
           next == IF db[d].head = None THEN 0 ELSE db[d].head + 1
           start == IF args.from # None THEN args.from ELSE next
           job == [Job("replay", d) EXCEPT !.own = own, !.at = start]
<1> USE DEF IInv
<1>1. d \in Dirs
  BY DirOfOptions
<1>2. /\ Begin(p, job) /\ UNCHANGED <<db, file, sidecar, torn, loading, recorded>>
      /\ tainted' = IF own /\ db[d].head # None /\ start <= next THEN tainted ELSE tainted \cup {d}
  BY DEF StartReplay, disk
<1>3. db[d].head \in 0..Blocks \cup {None} /\ Blocks \in Nat
  BY <1>1, StatesType DEF TypeOK
<1>4. start \in Nat
  <2>1. args.from \in Nat \cup {None}
    BY OptionsType DEF Options
  <2> QED BY <1>3, <2>1
<1>5. own \in BOOLEAN
  OBVIOUS
<1> HIDE DEF own, start, next
<1>6. /\ job \in Jobs /\ job.dir = d /\ job.cmd = "replay" /\ job.own = own /\ job.at = start
      /\ job.step = "go"
  BY <1>1, <1>4, <1>5 DEF Job, NoJob, Jobs, Tasks, Steps
<1> HIDE DEF job, d
<1>7. /\ jobs' \in [Procs -> Jobs] /\ commands' \in 0..MaxCommands
      /\ \A q \in Procs : Runs(q, "none")' => jobs'[q] = NoJob
      /\ \A q \in Procs : jobs'[q] = IF q = p THEN job ELSE jobs[q]
      /\ \A q \in Procs : jobs[q].dir # d
      /\ Exclusive'
  BY <1>1, <1>2, <1>6, BeginTyped
<1>8. TypeOK'
  BY <1>1, <1>2, <1>7 DEF TypeOK
<1>9. HeadTellsRows' /\ ExportOfOneState' /\ LoadingInv'
  <2>1. "file" \in tainted' <=> "file" \in tainted
    BY <1>1, <1>2, NoneIsOther
  <2>2. \A e \in Dirs : e \in tainted => e \in tainted'
    BY <1>2
  <2> QED BY <1>2, <2>1, <2>2, RowsStand, FileStands, LoadingStands
<1>10. ReplayFollows'
  <2> SUFFICES ASSUME NEW q \in Procs, jobs'[q].cmd = "replay", jobs'[q].dir \notin tainted'
               PROVE  /\ jobs'[q].own /\ db'[jobs'[q].dir].head # None
                      /\ jobs'[q].at <= db'[jobs'[q].dir].head + 1
                      /\ jobs'[q].step = "diffs" =>
                           /\ jobs'[q].at = db'[jobs'[q].dir].head + 1
                           /\ jobs'[q].at \in Hybrid /\ jobs'[q].dir \in torn'
    BY DEF ReplayFollows, Runs
  <2>1. CASE q = p
    <3>1. jobs'[q] = job /\ d \notin tainted'
      BY <2>1, <1>7, <1>6
    <3>2. own /\ db[d].head # None /\ start <= next
      BY <3>1, <1>2
    <3>3. start <= db[d].head + 1
      BY <3>2 DEF next
    <3> QED BY <3>1, <3>2, <3>3, <1>2, <1>6
  <2>2. CASE q # p
    BY <2>2, <1>7, <1>2 DEF ReplayFollows, Runs
  <2> QED BY <2>1, <2>2
<1>11. ExportInv'
  <2>1. \A q \in Procs : Runs(q, "export")' => jobs'[q] = jobs[q] /\ jobs[q].dir # d
    BY <1>6, <1>7 DEF Runs
  <2>2. "file" \in tainted => "file" \in tainted'
    BY <1>2
  <2> QED BY <1>2, <2>1, <2>2, ExportStands
<1>12. ImportInv'
  <2>1. \A q \in Procs : Runs(q, "import")' => jobs'[q] = jobs[q]
    BY <1>6, <1>7 DEF Runs
  <2>2. \A e \in Dirs : e \in tainted => e \in tainted'
    BY <1>2
  <2> QED BY <1>2, <2>1, <2>2, ImportStands
<1> QED BY <1>7, <1>8, <1>9, <1>10, <1>11, <1>12

\* Commands that change nothing but the list of jobs.
LEMMA ReaderKeeps ==
  ASSUME IInv, NEW p \in Procs, NEW args \in Cli, NEW cmd \in {"read", "serve"},
         Begin(p, Job(cmd, Dir(args))), UNCHANGED <<disk, history>>
  PROVE  IInv'
<1> DEFINE d == Dir(args)
           job == Job(cmd, d)
<1> USE DEF IInv
<1>1. d \in Dirs
  BY DirOfOptions
<1>2. job \in Jobs /\ job.dir = d /\ job.cmd = cmd
  BY <1>1, NewJobTyped DEF Tasks
<1>3. Begin(p, job)
  OBVIOUS
<1> HIDE DEF job, d
<1>4. /\ jobs' \in [Procs -> Jobs] /\ commands' \in 0..MaxCommands
      /\ \A q \in Procs : Runs(q, "none")' => jobs'[q] = NoJob
      /\ \A q \in Procs : jobs'[q] = IF q = p THEN job ELSE jobs[q]
      /\ Exclusive'
  BY <1>1, <1>2, <1>3, BeginTyped
<1>5. UNCHANGED <<db, file, sidecar, tainted, torn, loading, recorded>>
  BY DEF disk, history
<1>6. TypeOK'
  BY <1>4, <1>5 DEF TypeOK
<1>7. HeadTellsRows' /\ ExportOfOneState' /\ LoadingInv'
  BY <1>5, RowsStand, FileStands, LoadingStands
<1>8. \A q \in Procs : \A c \in {"replay", "import", "export"} : Runs(q, c)' => jobs'[q] = jobs[q]
  BY <1>2, <1>4 DEF Runs
<1>9. ReplayFollows'
  BY <1>5, <1>8, ReplayStands
<1>10. ExportInv'
  BY <1>5, <1>8, ExportStands
<1>11. ImportInv'
  BY <1>5, <1>8, ImportStands
<1> QED BY <1>4, <1>6, <1>7, <1>9, <1>10, <1>11

LEMMA StartImportKeeps ==
  ASSUME IInv, NEW p \in Procs, NEW args \in Cli, StartImport(p, args)
  PROVE  IInv'
<1> DEFINE d == Dir(args)
           job == [Job("import", d) EXCEPT !.skip = sidecar]
           clean == (GoesOn(d) \/ StartsAnew(d)) /\ "file" \notin tainted
<1> USE DEF IInv
<1>1. d \in Dirs
  BY DirOfOptions
<1>2. /\ Begin(p, job) /\ UNCHANGED <<db, file, sidecar, torn, recorded>>
      /\ tainted' = IF clean THEN tainted ELSE tainted \cup {d}
      /\ loading' = [loading EXCEPT ![d] = "same"]
  BY DEF StartImport, disk
<1>3. /\ job \in Jobs /\ job.dir = d /\ job.cmd = "import" /\ job.at = 0
      /\ job.skip = sidecar /\ job.meta = None /\ job.step = "go"
  BY <1>1 DEF Job, NoJob, Jobs, Tasks, Steps, TypeOK
<1> HIDE DEF job, d, clean
<1>4. /\ jobs' \in [Procs -> Jobs] /\ commands' \in 0..MaxCommands
      /\ \A q \in Procs : Runs(q, "none")' => jobs'[q] = NoJob
      /\ \A q \in Procs : jobs'[q] = IF q = p THEN job ELSE jobs[q]
      /\ \A q \in Procs : jobs[q].dir # d
      /\ Exclusive'
  BY <1>1, <1>2, <1>3, BeginTyped
<1>5. /\ loading' \in [Dirs -> {None, "same", "other"}]
      /\ \A e \in Dirs : loading'[e] = IF e = d THEN "same" ELSE loading[e]
  BY <1>1, <1>2 DEF TypeOK
<1>6. TypeOK'
  BY <1>1, <1>2, <1>4, <1>5 DEF TypeOK
<1>7. /\ "file" \in tainted' <=> "file" \in tainted
      /\ \A e \in Dirs : e \in tainted => e \in tainted'
      /\ \A e \in Dirs : e # d => (e \in tainted' <=> e \in tainted)
  BY <1>1, <1>2, NoneIsOther
<1>8. HeadTellsRows' /\ ExportOfOneState'
  BY <1>2, <1>7, RowsStand, FileStands
<1>9. ReplayFollows'
  <2>1. \A q \in Procs : Runs(q, "replay")' => jobs'[q] = jobs[q]
    BY <1>3, <1>4 DEF Runs
  <2> QED BY <1>2, <1>7, <2>1, ReplayStands
<1>10. ExportInv'
  <2>1. \A q \in Procs : Runs(q, "export")' => jobs'[q] = jobs[q] /\ jobs[q].dir # d
    BY <1>3, <1>4 DEF Runs
  <2>2. \A q \in Procs : Runs(q, "export")' => jobs[q].dir \in Dirs
    BY <2>1, JobHasDir DEF Runs
  <2> QED BY <1>2, <1>7, <2>1, <2>2, ExportStands
\* An import that may go on finds its lines in, and one that starts anew finds no row.
<1>11. ASSUME d \notin tainted'
       PROVE  /\ "file" \notin tainted /\ db[d].head = None /\ FromFile(d)
              /\ sidecar <= Len(file) /\ LinesIn(d, sidecar)
  <2>1. "file" \notin tainted /\ d \notin tainted /\ (GoesOn(d) \/ StartsAnew(d))
    BY <1>2, <1>11 DEF clean
  <2>2. DOMAIN file = 1..Len(file) /\ Len(file) \in Nat
    BY FileTyped
  <2>3. LinesIn(d, 0) /\ 0 <= Len(file)
    BY <2>2 DEF LinesIn, EntryLines
  <2>4. CASE GoesOn(d)
    BY <2>1, <2>3, <2>4, <1>1 DEF GoesOn, LoadingInv
  <2>5. CASE StartsAnew(d)
    <3>1. db[d].head = None /\ sidecar = 0 /\ \A r \in Rows : db[d].rows[r] = None
      BY <2>5 DEF StartsAnew, EmptyRows
    <3> QED BY <2>1, <2>3, <3>1 DEF FromFile
  <2> QED BY <2>1, <2>4, <2>5
<1>12. LoadingInv'
  <2> SUFFICES ASSUME NEW e \in Dirs, e \notin tainted', loading'[e] = "same"
               PROVE  /\ "file" \notin tainted' /\ db'[e].head = None /\ FromFile(e)'
                      /\ recorded' = e => sidecar' <= Len(file') /\ LinesIn(e, sidecar)'
    BY DEF LoadingInv
  <2>1. /\ "file" \notin tainted /\ db[e].head = None /\ FromFile(e)
        /\ recorded = e => sidecar <= Len(file) /\ LinesIn(e, sidecar)
    <3>1. CASE e = d
      BY <3>1, <1>11
    <3>2. CASE e # d
      BY <3>2, <1>5, <1>7 DEF LoadingInv
    <3> QED BY <3>1, <3>2
  <2>2. FromFile(e)' /\ (LinesIn(e, sidecar)' <=> LinesIn(e, sidecar))
    BY <1>2, <2>1 DEF FromFile, LinesIn, EntryLines
  <2> QED BY <1>2, <1>7, <2>1, <2>2
<1>13. ImportInv'
  <2> SUFFICES ASSUME NEW q \in Procs, jobs'[q].cmd = "import", jobs'[q].step # "cleanup",
                      jobs'[q].dir \notin tainted'
               PROVE  /\ loading'[jobs'[q].dir] = "same"
                      /\ jobs'[q].at <= Len(file') /\ LinesIn(jobs[q].dir, jobs[q].at)'
                      /\ jobs'[q].skip <= Len(file') /\ LinesIn(jobs[q].dir, jobs[q].skip)'
                      /\ jobs'[q].meta # None =>
                           /\ jobs'[q].at = Len(file') /\ Len(file') \in HeadLines'
                           /\ jobs'[q].meta = file'[Len(file')].head
    BY DEF ImportInv, Runs, LinesIn
  <2>1. CASE q = p
    <3>1. jobs'[q] = job /\ d \notin tainted'
      BY <2>1, <1>4, <1>3
    <3>2. DOMAIN file = 1..Len(file) /\ Len(file) \in Nat
      BY FileTyped
    <3>3. LinesIn(d, 0)' /\ LinesIn(d, sidecar)'
      BY <1>2, <1>11, <3>1, <3>2 DEF LinesIn, EntryLines
    <3>4. LinesIn(jobs[q].dir, jobs[q].at)' /\ LinesIn(jobs[q].dir, jobs[q].skip)'
      BY <1>2, <1>3, <3>1, <3>3 DEF LinesIn
    <3> QED BY <1>1, <1>2, <1>3, <1>5, <1>11, <3>1, <3>2, <3>4
  <2>2. CASE q # p
    <3>1. jobs'[q] = jobs[q] /\ jobs[q].dir # d /\ jobs[q].dir \in Dirs
      BY <2>2, <1>4, JobHasDir
    <3>2. jobs[q].dir \notin tainted /\ loading'[jobs[q].dir] = loading[jobs[q].dir]
      BY <3>1, <1>5, <1>7
    <3>3. LinesIn(jobs[q].dir, jobs[q].at) /\ LinesIn(jobs[q].dir, jobs[q].skip)
      BY <3>1, <3>2 DEF ImportInv, Runs
    <3>4. LinesIn(jobs[q].dir, jobs[q].at)' /\ LinesIn(jobs[q].dir, jobs[q].skip)'
      BY <1>2, <3>1, <3>3 DEF LinesIn, EntryLines
    <3>5. HeadLines' = HeadLines
      BY <1>2 DEF HeadLines
    <3> QED BY <1>2, <3>1, <3>2, <3>4, <3>5 DEF ImportInv, Runs
  <2> QED BY <2>1, <2>2
<1> QED BY <1>4, <1>6, <1>8, <1>9, <1>10, <1>12, <1>13

LEMMA Alone ==
  ASSUME TypeOK, Exclusive, NEW p \in Procs, jobs[p].cmd # "none"
  PROVE  /\ jobs[p].dir \in Dirs
         /\ \A q \in Procs : q # p => jobs[q].dir # jobs[p].dir
BY JobHasDir, NoneIsOther DEF Exclusive

\* A process works on: its job moves, the others' stay.
LEMMA WorkTyped ==
  ASSUME TypeOK, Exclusive, NEW p \in Procs, NEW job \in Jobs,
         job.cmd = jobs[p].cmd, job.dir = jobs[p].dir, job.cmd # "none",
         jobs' = [jobs EXCEPT ![p] = job]
  PROVE  /\ jobs' \in [Procs -> Jobs]
         /\ \A q \in Procs : Runs(q, "none")' => jobs'[q] = NoJob
         /\ \A q \in Procs : jobs'[q] = IF q = p THEN job ELSE jobs[q]
         /\ Exclusive'
<1>1. jobs \in [Procs -> Jobs] /\ \A q \in Procs : Runs(q, "none") => jobs[q] = NoJob
  BY DEF TypeOK
<1>2. \A q \in Procs : jobs'[q] = IF q = p THEN job ELSE jobs[q]
  BY <1>1
<1>3. \A q \in Procs : jobs'[q].cmd = jobs[q].cmd /\ jobs'[q].dir = jobs[q].dir
  BY <1>2
<1> QED BY <1>1, <1>2, <1>3, SameJobExclusive DEF Runs

LEMMA ChangedTyped ==
  ASSUME NEW rows \in [Rows -> Values \cup {None}], NEW own,
         NEW before, NEW after \in [Rows -> Values \cup {None}]
  PROVE  Changed(rows, before, after, own) \in [Rows -> Values \cup {None}]
<1>1. Wrong \in Values
  BY DEF Values
<1>2. CASE own /\ rows = before
  BY <1>2 DEF Changed
<1>3. CASE ~ (own /\ rows = before)
  BY <1>1, <1>3 DEF Changed
<1> QED BY <1>2, <1>3

LEMMA BlockTyped ==
  ASSUME NEW rows \in [Rows -> Values \cup {None}], NEW n \in 0..Blocks, NEW own
  PROVE  AfterBlock(rows, n, own) \in [Rows -> Values \cup {None}]
<1>1. StateAt[n] \in [Rows -> Values \cup {None}]
  BY StatesTyped
<1>2. CASE n = 0
  BY <1>2 DEF AfterBlock
<1>3. CASE n # 0
  BY <1>1, <1>3, ChangedTyped DEF AfterBlock
<1> QED BY <1>2, <1>3

\* A job with one field, or two, of its own.
LEMMA JobIsRecord ==
  ASSUME NEW j \in Jobs
  PROVE  /\ j = [cmd |-> j.cmd, dir |-> j.dir, own |-> j.own, at |-> j.at, skip |-> j.skip,
                meta |-> j.meta, step |-> j.step]
         /\ j.cmd \in Tasks /\ j.dir \in Dirs \cup {None} /\ j.own \in BOOLEAN /\ j.at \in Nat
         /\ j.skip \in Nat /\ j.meta \in 0..Blocks \cup {None}
         /\ j.step \in Steps
BY DEF Jobs

LEMMA JobMoves ==
  ASSUME NEW j \in Jobs, NEW n \in Nat, NEW job, job = [j EXCEPT !.at = n]
  PROVE  /\ job \in Jobs /\ job.cmd = j.cmd /\ job.dir = j.dir /\ job.own = j.own
         /\ job.at = n /\ job.skip = j.skip /\ job.meta = j.meta /\ job.step = j.step
<1>1. j = [cmd |-> j.cmd, dir |-> j.dir, own |-> j.own, at |-> j.at, skip |-> j.skip,
           meta |-> j.meta, step |-> j.step]
  BY JobIsRecord
<1>2. job = [cmd |-> j.cmd, dir |-> j.dir, own |-> j.own, at |-> n, skip |-> j.skip,
             meta |-> j.meta, step |-> j.step]
  BY <1>1
<1>3. /\ j.cmd \in Tasks /\ j.dir \in Dirs \cup {None} /\ j.own \in BOOLEAN /\ j.at \in Nat
      /\ j.skip \in Nat /\ j.meta \in 0..Blocks \cup {None}
      /\ j.step \in Steps
  BY JobIsRecord
<1> QED BY <1>2, <1>3 DEF Jobs

LEMMA JobSteps ==
  ASSUME NEW j \in Jobs, NEW step \in Steps, NEW job, job = [j EXCEPT !.step = step]
  PROVE  /\ job \in Jobs /\ job.cmd = j.cmd /\ job.dir = j.dir /\ job.own = j.own
         /\ job.at = j.at /\ job.skip = j.skip /\ job.meta = j.meta /\ job.step = step
<1>1. j = [cmd |-> j.cmd, dir |-> j.dir, own |-> j.own, at |-> j.at, skip |-> j.skip,
           meta |-> j.meta, step |-> j.step]
  BY JobIsRecord
<1>2. job = [cmd |-> j.cmd, dir |-> j.dir, own |-> j.own, at |-> j.at, skip |-> j.skip,
             meta |-> j.meta, step |-> step]
  BY <1>1
<1>3. /\ j.cmd \in Tasks /\ j.dir \in Dirs \cup {None} /\ j.own \in BOOLEAN /\ j.at \in Nat
      /\ j.skip \in Nat /\ j.meta \in 0..Blocks \cup {None}
      /\ j.step \in Steps
  BY JobIsRecord
<1> QED BY <1>2, <1>3 DEF Jobs

\* A process that replays touches its own database: what is left to say is said of it.
LEMMA ReplayerWorks ==
  ASSUME IInv, NEW p \in Procs, jobs[p].cmd = "replay", NEW d \in Dirs, d = jobs[p].dir,
         NEW job \in Jobs, job.cmd = "replay", job.dir = d, jobs' = [jobs EXCEPT ![p] = job],
         NEW new \in [rows: [Rows -> Values \cup {None}], head: 0..Blocks \cup {None}],
         db' = [db EXCEPT ![d] = new], torn' \subseteq Dirs \cup {"file"},
         \A e \in Dirs \cup {"file"} : e # d => (e \in torn' <=> e \in torn),
         UNCHANGED <<file, sidecar, commands, tainted, loading, recorded>>,
         d \notin tainted =>
           /\ db[d].head # None /\ new.head # None /\ new.rows = RowsOf(new.head, d \in torn')
           /\ job.own /\ job.at <= new.head + 1
           /\ job.step = "diffs" => job.at = new.head + 1 /\ job.at \in Hybrid /\ d \in torn'
  PROVE  IInv'
<1> USE DEF IInv
<1>1. "file" \in torn' <=> "file" \in torn
  BY NoneIsOther
<1>2. \A q \in Procs : q # p => jobs[q].dir # d
  BY Alone
<1>3. /\ jobs' \in [Procs -> Jobs]
      /\ \A q \in Procs : Runs(q, "none")' => jobs'[q] = NoJob
      /\ \A q \in Procs : jobs'[q] = IF q = p THEN job ELSE jobs[q]
      /\ Exclusive'
  BY WorkTyped
<1>4. /\ db' \in [Dirs -> [rows: [Rows -> Values \cup {None}], head: 0..Blocks \cup {None}]]
      /\ \A e \in Dirs : db'[e] = IF e = d THEN new ELSE db[e]
  BY DEF TypeOK
<1>5. TypeOK'
  BY <1>3, <1>4 DEF TypeOK
<1>6. HeadTellsRows'
  <2> SUFFICES ASSUME NEW e \in Dirs, e \notin tainted', db'[e].head # None
               PROVE  db'[e].rows = RowsOf(db'[e].head, e \in torn')
    BY DEF HeadTellsRows
  <2>1. CASE e = d
    BY <2>1, <1>4
  <2>2. CASE e # d
    <3>1. db'[e] = db[e] /\ (e \in torn' <=> e \in torn) /\ e \notin tainted
      BY <2>2, <1>4
    <3>2. db[e].rows = RowsOf(db[e].head, e \in torn)
      BY <3>1 DEF HeadTellsRows
    <3> QED BY <3>1, <3>2 DEF RowsOf
  <2> QED BY <2>1, <2>2
<1>7. ExportOfOneState'
  BY <1>1, FileStands
<1>8. LoadingInv'
  <2>1. \A e \in Dirs : loading[e] = "same" /\ e \notin tainted => db'[e] = db[e]
    BY <1>4 DEF LoadingInv
  <2> QED BY <2>1, LoadingStands
<1>9. ReplayFollows'
  <2> SUFFICES ASSUME NEW q \in Procs, jobs'[q].cmd = "replay", jobs'[q].dir \notin tainted'
               PROVE  /\ jobs'[q].own /\ db'[jobs'[q].dir].head # None
                      /\ jobs'[q].at <= db'[jobs'[q].dir].head + 1
                      /\ jobs'[q].step = "diffs" =>
                           /\ jobs'[q].at = db'[jobs'[q].dir].head + 1
                           /\ jobs'[q].at \in Hybrid /\ jobs'[q].dir \in torn'
    BY DEF ReplayFollows, Runs
  <2>1. CASE q = p
    <3>1. jobs'[q] = job /\ d \notin tainted /\ db'[d] = new
      BY <2>1, <1>3, <1>4
    <3> QED BY <3>1
  <2>2. CASE q # p
    <3>1. jobs'[q] = jobs[q] /\ jobs[q].dir # d /\ jobs[q].dir \in Dirs
      BY <2>2, <1>2, <1>3, JobHasDir
    <3>2. db'[jobs[q].dir] = db[jobs[q].dir] /\ (jobs[q].dir \in torn' <=> jobs[q].dir \in torn)
      BY <3>1, <1>4
    <3> QED BY <3>1, <3>2 DEF ReplayFollows, Runs
  <2> QED BY <2>1, <2>2
<1>10. \A q \in Procs : \A c \in {"import", "export"} : Runs(q, c)' =>
         /\ jobs'[q] = jobs[q] /\ db'[jobs[q].dir] = db[jobs[q].dir]
         /\ jobs[q].dir \in torn' <=> jobs[q].dir \in torn
  <2> SUFFICES ASSUME NEW q \in Procs, NEW c \in {"import", "export"}, jobs'[q].cmd = c
               PROVE  /\ jobs'[q] = jobs[q] /\ db'[jobs[q].dir] = db[jobs[q].dir]
                      /\ jobs[q].dir \in torn' <=> jobs[q].dir \in torn
    BY DEF Runs
  <2>1. q # p /\ jobs'[q] = jobs[q]
    BY <1>3
  <2>2. jobs[q].dir # d /\ jobs[q].dir \in Dirs
    BY <1>2, <2>1, JobHasDir
  <2> QED BY <1>4, <2>1, <2>2
<1>11. ExportInv'
  BY <1>1, <1>10, ExportStands
<1>12. ImportInv'
  BY <1>10, ImportStands
<1> QED BY <1>3, <1>5, <1>6, <1>7, <1>8, <1>9, <1>11, <1>12

\* What a process that replays into a directory in good standing may count on.
LEMMA ReplayerKnows ==
  ASSUME IInv, NEW p \in Procs, jobs[p].cmd = "replay", jobs[p].dir \notin tainted
  PROVE  LET d == jobs[p].dir
         IN  /\ d \in Dirs /\ jobs[p].own /\ db[d].head # None /\ db[d].head \in Nat
             /\ db[d].rows = RowsOf(db[d].head, d \in torn) /\ jobs[p].at <= db[d].head + 1
             /\ jobs[p].step = "diffs" =>
                  jobs[p].at = db[d].head + 1 /\ jobs[p].at \in Hybrid /\ d \in torn
<1> USE DEF IInv
<1>1. jobs[p].dir \in Dirs /\ Blocks \in Nat
  BY JobHasDir, StatesType
<1>2. /\ jobs[p].own /\ db[jobs[p].dir].head # None
      /\ jobs[p].at <= db[jobs[p].dir].head + 1
      /\ jobs[p].step = "diffs" =>
           /\ jobs[p].at = db[jobs[p].dir].head + 1
           /\ jobs[p].at \in Hybrid /\ jobs[p].dir \in torn
  BY DEF ReplayFollows, Runs
<1>3. db[jobs[p].dir].head \in Nat
  BY <1>1, <1>2 DEF TypeOK
<1>4. db[jobs[p].dir].rows = RowsOf(db[jobs[p].dir].head, jobs[p].dir \in torn)
  BY <1>1, <1>2 DEF HeadTellsRows
<1> QED BY <1>1, <1>2, <1>3, <1>4

LEMMA SkipBlockKeeps ==
  ASSUME IInv, NEW p \in Procs, SkipBlock(p)
  PROVE  IInv'
<1> DEFINE d == jobs[p].dir
           n == jobs[p].at
           new == db[d]
           job == [jobs[p] EXCEPT !.at = n + 1]
<1>1. /\ jobs[p].cmd = "replay" /\ jobs[p].step = "go" /\ n \in Nat /\ n <= db[d].head
      /\ jobs' = [jobs EXCEPT ![p] = job]
      /\ UNCHANGED <<db, file, sidecar, commands, tainted, torn, loading, recorded>>
  BY JobTyped DEF IInv, SkipBlock, Replaying, Behind, Doing, disk, history
<1>2. d \in Dirs
  BY <1>1, Alone DEF IInv
<1>3. /\ job \in Jobs /\ job.cmd = "replay" /\ job.dir = d /\ job.own = jobs[p].own
      /\ job.at = n + 1 /\ job.step = "go"
  <2>1. jobs[p] \in Jobs
    BY DEF IInv, TypeOK
  <2> QED BY <1>1, <2>1, JobMoves
<1>4. /\ new \in [rows: [Rows -> Values \cup {None}], head: 0..Blocks \cup {None}]
      /\ db' = [db EXCEPT ![d] = new] /\ torn' \subseteq Dirs \cup {"file"}
  BY <1>1, <1>2 DEF IInv, TypeOK
<1>5. ASSUME d \notin tainted
      PROVE  /\ db[d].head # None /\ new.head # None /\ new.rows = RowsOf(new.head, d \in torn')
             /\ job.own /\ job.at <= new.head + 1
  <2>1. /\ jobs[p].own /\ db[d].head # None /\ db[d].head \in Nat
        /\ db[d].rows = RowsOf(db[d].head, d \in torn)
    BY <1>1, <1>5, ReplayerKnows
  <2> QED BY <1>1, <1>3, <2>1 DEF RowsOf
<1>6. d = jobs[p].dir
  OBVIOUS
<1>7. \A e \in Dirs \cup {"file"} : e # d => (e \in torn' <=> e \in torn)
  BY <1>1
<1>8. job.step # "diffs"
  BY <1>3
<1> HIDE DEF new, job, d, n, IInv
<1>9. /\ UNCHANGED <<file, sidecar, commands, tainted, loading, recorded>>
      /\ jobs[p].cmd = "replay" /\ jobs' = [jobs EXCEPT ![p] = job]
  BY <1>1
<1> QED BY <1>2, <1>3, <1>4, <1>5, <1>6, <1>7, <1>8, <1>9, ReplayerWorks

LEMMA ReplayBlockKeeps ==
  ASSUME IInv, NEW p \in Procs, ReplayBlock(p)
  PROVE  IInv'
<1> DEFINE d == jobs[p].dir
           n == jobs[p].at
           new == [rows |-> AfterBlock(db[d].rows, n, jobs[p].own), head |-> n]
           job == [jobs[p] EXCEPT !.at = n + 1]
<1>1. /\ jobs[p].cmd = "replay" /\ jobs[p].step = "go" /\ n <= Blocks /\ n \in Nat /\ Blocks \in Nat
      /\ db[d].head = None \/ ~ (n <= db[d].head)
      /\ jobs[p].own => n \notin Hybrid
      /\ db' = [db EXCEPT ![d] = new] /\ jobs' = [jobs EXCEPT ![p] = job] /\ torn' = torn \ {d}
      /\ UNCHANGED <<file, sidecar, commands, tainted, loading, recorded>>
  BY StatesType, JobTyped DEF IInv, ReplayBlock, Replaying, Behind, Doing
<1>2. d \in Dirs
  BY <1>1, Alone DEF IInv
<1>3. /\ job \in Jobs /\ job.cmd = "replay" /\ job.dir = d /\ job.own = jobs[p].own
      /\ job.at = n + 1 /\ job.step = "go"
  <2>1. jobs[p] \in Jobs /\ n + 1 \in Nat
    BY <1>1 DEF IInv, TypeOK
  <2>2. job = [jobs[p] EXCEPT !.at = n + 1] /\ jobs[p].dir = d
    OBVIOUS
  <2> HIDE DEF job, n, d
  <2> QED BY <1>1, <2>1, <2>2, JobMoves
<1>4. /\ new \in [rows: [Rows -> Values \cup {None}], head: 0..Blocks \cup {None}]
      /\ new.head = n /\ new.rows = AfterBlock(db[d].rows, n, jobs[p].own)
  <2>1. n \in 0..Blocks /\ db[d].rows \in [Rows -> Values \cup {None}]
    BY <1>1, <1>2 DEF IInv, TypeOK
  <2>2. new = [rows |-> AfterBlock(db[d].rows, n, jobs[p].own), head |-> n]
    OBVIOUS
  <2> HIDE DEF new, n, d
  <2>3. AfterBlock(db[d].rows, n, jobs[p].own) \in [Rows -> Values \cup {None}]
    BY <2>1, BlockTyped
  <2> QED BY <2>1, <2>2, <2>3
<1>5. torn' \subseteq Dirs \cup {"file"} /\ \A e \in Dirs \cup {"file"} : e # d => (e \in torn' <=> e \in torn)
  BY <1>1 DEF IInv, TypeOK
<1>6. d = jobs[p].dir /\ n = jobs[p].at
  OBVIOUS
<1> HIDE DEF new, job, n, d
<1>7. ASSUME d \notin tainted
      PROVE  /\ db[d].head # None /\ new.head # None /\ new.rows = RowsOf(new.head, d \in torn')
             /\ job.own /\ job.at <= new.head + 1
  <2>1. /\ jobs[p].own /\ db[d].head # None /\ db[d].head \in Nat /\ n <= db[d].head + 1
        /\ db[d].rows = RowsOf(db[d].head, d \in torn)
    BY <1>1, <1>6, <1>7, ReplayerKnows
  <2>2. n = db[d].head + 1 /\ n # 0 /\ n - 1 = db[d].head
    BY <1>1, <2>1
  <2>3. db[d].rows = StateAt[n - 1]
    BY <1>1, <2>1, <2>2 DEF RowsOf
  <2>4. StateAt[n] \in [Rows -> Values \cup {None}] /\ db[d].rows \in [Rows -> Values \cup {None}]
    BY <1>1, <1>2, StatesTyped DEF IInv, TypeOK
  <2>5. new.rows = StateAt[n]
    <3>1. Changed(db[d].rows, StateAt[n - 1], StateAt[n], jobs[p].own) = StateAt[n]
      BY <2>1, <2>3 DEF Changed
    <3> QED BY <1>4, <2>2, <3>1 DEF AfterBlock
  <2>6. RowsOf(n, d \in torn') = StateAt[n]
    BY <1>1 DEF RowsOf
  <2>7. n # None
    BY <1>1, NoneIsNothing
  <2>8. new.head # None /\ new.rows = RowsOf(new.head, d \in torn')
    BY <1>4, <2>5, <2>6, <2>7
  <2>9. job.own /\ job.at <= new.head + 1
    BY <1>1, <1>3, <1>4, <2>1
  <2> QED BY <2>1, <2>8, <2>9
<1>8. job.step # "diffs"
  BY <1>3
<1> HIDE DEF IInv
<1> QED BY <1>1, <1>2, <1>3, <1>4, <1>5, <1>6, <1>7, <1>8, ReplayerWorks

\* Between the two commits the rows are the overlay's, and the head is the old one.
LEMMA CommitOverlayKeeps ==
  ASSUME IInv, NEW p \in Procs, CommitOverlay(p)
  PROVE  IInv'
<1> DEFINE d == jobs[p].dir
           n == jobs[p].at
           after == Changed(db[d].rows, StateAt[n - 1], Overlay[n], jobs[p].own)
           new == [db[d] EXCEPT !.rows = after]
           job == [jobs[p] EXCEPT !.step = "diffs"]
<1>1. /\ jobs[p].cmd = "replay" /\ n \in Nat /\ n \in Hybrid /\ db[d].rows # Overlay[n]
      /\ db[d].head = None \/ ~ (n <= db[d].head)
      /\ db' = [db EXCEPT ![d] = new] /\ jobs' = [jobs EXCEPT ![p] = job] /\ torn' = torn \cup {d}
      /\ UNCHANGED <<file, sidecar, commands, tainted, loading, recorded>>
  BY JobTyped DEF IInv, CommitOverlay, Replaying, Behind, Doing
<1>2. d \in Dirs
  BY <1>1, Alone DEF IInv
<1>3. /\ job \in Jobs /\ job.cmd = "replay" /\ job.dir = d /\ job.own = jobs[p].own
      /\ job.at = n /\ job.step = "diffs"
  <2>1. jobs[p] \in Jobs /\ "diffs" \in Steps
    BY DEF IInv, TypeOK, Steps
  <2> QED BY <1>1, <2>1, JobSteps
<1>4. Overlay[n] \in [Rows -> Values \cup {None}] /\ db[d].rows \in [Rows -> Values \cup {None}]
  BY <1>1, <1>2, StatesTyped DEF IInv, TypeOK
<1>5. after \in [Rows -> Values \cup {None}]
  BY <1>4, ChangedTyped
<1>6. /\ new \in [rows: [Rows -> Values \cup {None}], head: 0..Blocks \cup {None}]
      /\ new.head = db[d].head /\ new.rows = after
  <2>1. db[d] = [rows |-> db[d].rows, head |-> db[d].head] /\ db[d].head \in 0..Blocks \cup {None}
    BY <1>2 DEF IInv, TypeOK
  <2>2. new = [rows |-> after, head |-> db[d].head]
    BY <2>1
  <2> HIDE DEF new, after
  <2> QED BY <1>5, <2>1, <2>2
<1>7. torn' \subseteq Dirs \cup {"file"} /\ \A e \in Dirs \cup {"file"} : e # d => (e \in torn' <=> e \in torn)
  BY <1>1, <1>2 DEF IInv, TypeOK
<1>8. d = jobs[p].dir /\ n = jobs[p].at /\ after = Changed(db[d].rows, StateAt[n - 1], Overlay[n], jobs[p].own)
  OBVIOUS
<1> HIDE DEF new, job, n, d, after
<1>9. ASSUME d \notin tainted
      PROVE  /\ db[d].head # None /\ new.head # None /\ new.rows = RowsOf(new.head, d \in torn')
             /\ job.own /\ job.at = new.head + 1 /\ job.at <= new.head + 1
             /\ job.at \in Hybrid /\ d \in torn'
  <2>1. /\ jobs[p].own /\ db[d].head # None /\ db[d].head \in Nat /\ n <= db[d].head + 1
        /\ db[d].rows = RowsOf(db[d].head, d \in torn)
    BY <1>1, <1>8, <1>9, ReplayerKnows
  <2>2. n = db[d].head + 1 /\ n - 1 = db[d].head
    BY <1>1, <2>1
  <2>3. db[d].rows = StateAt[n - 1]
    BY <1>1, <2>1, <2>2 DEF RowsOf
  <2>4. new.rows = Overlay[n]
    BY <1>6, <1>8, <2>1, <2>3 DEF Changed
  <2>6. RowsOf(new.head, d \in torn') = Overlay[n]
    BY <1>1, <1>6, <2>2 DEF RowsOf
  <2> QED BY <1>1, <1>3, <1>6, <2>1, <2>2, <2>4, <2>6
<1> QED BY <1>1, <1>2, <1>3, <1>6, <1>7, <1>8, <1>9, ReplayerWorks

LEMMA CommitDiffsKeeps ==
  ASSUME IInv, NEW p \in Procs, CommitDiffs(p)
  PROVE  IInv'
<1> DEFINE d == jobs[p].dir
           n == jobs[p].at
           new == [rows |-> Changed(db[d].rows, Overlay[n], StateAt[n], jobs[p].own), head |-> n]
           mid == [jobs[p] EXCEPT !.at = n + 1]
           job == [jobs[p] EXCEPT !.at = n + 1, !.step = "go"]
<1>1. /\ jobs[p].cmd = "replay" /\ jobs[p].step = "diffs" /\ n \in Nat /\ n \in Hybrid
      /\ db' = [db EXCEPT ![d] = new] /\ jobs' = [jobs EXCEPT ![p] = job] /\ torn' = torn \ {d}
      /\ UNCHANGED <<file, sidecar, commands, tainted, loading, recorded>>
  BY JobTyped DEF IInv, CommitDiffs, Doing
<1>2. d \in Dirs /\ n \in 0..Blocks /\ Blocks \in Nat
  <2>1. d \in Dirs
    BY <1>1, Alone DEF IInv
  <2>2. n \in 1..Blocks /\ Blocks \in Nat
    BY <1>1, OverlayType, StatesType
  <2> QED BY <2>1, <2>2
<1>3. /\ job \in Jobs /\ job.cmd = "replay" /\ job.dir = d /\ job.own = jobs[p].own
      /\ job.at = n + 1 /\ job.step = "go"
  <2>1. jobs[p] \in Jobs /\ "go" \in Steps /\ n + 1 \in Nat
    BY <1>1 DEF IInv, TypeOK, Steps
  <2>2. job = [mid EXCEPT !.step = "go"]
    OBVIOUS
  <2>3. /\ mid \in Jobs /\ mid.cmd = jobs[p].cmd /\ mid.dir = jobs[p].dir /\ mid.at = n + 1
        /\ mid.own = jobs[p].own
    BY <2>1, JobMoves
  <2>4. /\ jobs[p].cmd = "replay" /\ jobs[p].dir = d
    BY <1>1
  <2> HIDE DEF job, mid, n, d
  <2> QED BY <2>1, <2>2, <2>3, <2>4, JobSteps
<1>4. /\ StateAt[n] \in [Rows -> Values \cup {None}]
      /\ db[d].rows \in [Rows -> Values \cup {None}]
  BY <1>2, StatesTyped DEF IInv, TypeOK
<1>5. /\ new \in [rows: [Rows -> Values \cup {None}], head: 0..Blocks \cup {None}]
      /\ new.head = n /\ new.rows = Changed(db[d].rows, Overlay[n], StateAt[n], jobs[p].own)
  BY <1>2, <1>4, ChangedTyped
<1>6. torn' \subseteq Dirs \cup {"file"} /\ \A e \in Dirs \cup {"file"} : e # d => (e \in torn' <=> e \in torn)
  BY <1>1 DEF IInv, TypeOK
<1>7. d = jobs[p].dir /\ n = jobs[p].at
  OBVIOUS
<1> HIDE DEF new, job, mid, n, d
<1>8. ASSUME d \notin tainted
      PROVE  /\ db[d].head # None /\ new.head # None /\ new.rows = RowsOf(new.head, d \in torn')
             /\ job.own /\ job.at <= new.head + 1
  <2>1. /\ jobs[p].own /\ db[d].head # None /\ db[d].head \in Nat /\ n = db[d].head + 1
        /\ db[d].rows = RowsOf(db[d].head, d \in torn) /\ d \in torn
    BY <1>1, <1>7, <1>8, ReplayerKnows
  <2>2. db[d].rows = Overlay[n]
    BY <1>1, <2>1 DEF RowsOf
  <2>3. new.rows = StateAt[n]
    BY <1>5, <2>1, <2>2 DEF Changed
  <2>4. RowsOf(n, d \in torn') = StateAt[n]
    BY <1>1 DEF RowsOf
  <2>5. n # None
    BY <1>1, NoneIsNothing
  <2>6. new.head # None /\ new.rows = RowsOf(new.head, d \in torn')
    BY <1>5, <2>3, <2>4, <2>5
  <2>7. job.own /\ job.at <= new.head + 1
    BY <1>1, <1>3, <1>5, <2>1
  <2> QED BY <2>1, <2>6, <2>7
<1> QED BY <1>1, <1>2, <1>3, <1>5, <1>6, <1>7, <1>8, ReplayerWorks

LEMMA GenesisKeeps ==
  ASSUME IInv, NEW args \in Cli, Genesis(args)
  PROVE  IInv'
<1> DEFINE d == Dir(args)
           old == db[d].rows
           new == [rows |-> [r \in Rows |-> IF StateAt[0][r] = None THEN old[r] ELSE StateAt[0][r]],
                   head |-> 0]
           clean == \A r \in Rows : old[r] \in {None, StateAt[0][r]}
<1> USE DEF IInv
<1>1. d \in Dirs /\ 0 \in 0..Blocks /\ MaxCommands \in Nat
  BY DirOfOptions, StatesType, DirsAreThere
<1>2. /\ Free(d) /\ commands < MaxCommands /\ commands' = commands + 1
      /\ db' = [db EXCEPT ![d] = new]
      /\ tainted' = IF clean THEN tainted ELSE tainted \cup {d}
      /\ torn' = torn \ {d}
      /\ loading' = [loading EXCEPT ![d] = None]
      /\ UNCHANGED <<jobs, file, sidecar, recorded>>
  BY DEF Genesis
<1>3. StateAt[0] \in [Rows -> Values \cup {None}]
  BY <1>1, StatesTyped
<1>4. db[d].rows \in [Rows -> Values \cup {None}]
  BY <1>1 DEF TypeOK
<1>5. /\ new \in [rows: [Rows -> Values \cup {None}], head: 0..Blocks \cup {None}]
      /\ new.head = 0
      /\ \A r \in Rows : new.rows[r] = IF StateAt[0][r] = None THEN old[r] ELSE StateAt[0][r]
      /\ new.rows = [r \in Rows |-> new.rows[r]]
  BY <1>1, <1>3, <1>4
<1>6. ASSUME clean PROVE new.rows = StateAt[0]
  <2>1. \A r \in Rows : new.rows[r] = StateAt[0][r]
    BY <1>5, <1>6
  <2> QED BY <1>3, <1>5, <2>1
<1> HIDE DEF new, clean, old, d
<1>7. /\ db' \in [Dirs -> [rows: [Rows -> Values \cup {None}], head: 0..Blocks \cup {None}]]
      /\ \A e \in Dirs : db'[e] = IF e = d THEN new ELSE db[e]
  BY <1>1, <1>2, <1>5 DEF TypeOK
<1>8. /\ loading' \in [Dirs -> {None, "same", "other"}]
      /\ \A e \in Dirs : loading'[e] = IF e = d THEN None ELSE loading[e]
  BY <1>1, <1>2 DEF TypeOK
<1>9. TypeOK'
  <2>1. commands' \in 0..MaxCommands
    BY <1>1, <1>2 DEF TypeOK
  <2>2. tainted' \subseteq Dirs \cup {"file"} /\ torn' \subseteq Dirs \cup {"file"}
    BY <1>1, <1>2 DEF TypeOK
  <2> QED BY <1>2, <1>7, <1>8, <2>1, <2>2 DEF TypeOK, Runs
<1>10. Exclusive'
  BY <1>2 DEF Exclusive
<1>11. /\ "file" \in tainted' <=> "file" \in tainted
       /\ \A e \in Dirs : e \in tainted => e \in tainted'
       /\ \A e \in Dirs : e # d => (e \in tainted' <=> e \in tainted) /\ (e \in torn' <=> e \in torn)
       /\ "file" \in torn' <=> "file" \in torn
  BY <1>1, <1>2, NoneIsOther
<1>12. HeadTellsRows'
  <2> SUFFICES ASSUME NEW e \in Dirs, e \notin tainted', db'[e].head # None
               PROVE  db'[e].rows = RowsOf(db'[e].head, e \in torn')
    BY DEF HeadTellsRows
  <2>1. CASE e = d
    <3>1. db'[e].rows = StateAt[0] /\ db'[e].head = 0
      BY <2>1, <1>2, <1>5, <1>6, <1>7
    <3> QED BY <2>1, <3>1, <1>2 DEF RowsOf
  <2>2. CASE e # d
    <3>1. db'[e] = db[e] /\ e \notin tainted /\ (e \in torn' <=> e \in torn)
      BY <2>2, <1>7, <1>11
    <3>2. db[e].rows = RowsOf(db[e].head, e \in torn)
      BY <3>1 DEF HeadTellsRows
    <3> QED BY <3>1, <3>2 DEF RowsOf
  <2> QED BY <2>1, <2>2
<1>13. ExportOfOneState'
  BY <1>2, <1>11, FileStands
<1>14. LoadingInv'
  <2>1. \A e \in Dirs : loading'[e] = "same" => loading[e] = "same" /\ db'[e] = db[e]
    BY <1>7, <1>8, NoneIsOther
  <2> QED BY <1>2, <1>11, <2>1, LoadingStands
<1>15. \A q \in Procs : jobs[q].dir # d
  BY <1>2 DEF Free
<1>16. \A q \in Procs : jobs[q].cmd # "none" =>
         /\ jobs'[q] = jobs[q] /\ db'[jobs[q].dir] = db[jobs[q].dir]
         /\ loading'[jobs[q].dir] = loading[jobs[q].dir]
         /\ jobs[q].dir \in tainted' => jobs[q].dir \in tainted
         /\ jobs[q].dir \in torn' <=> jobs[q].dir \in torn
  BY <1>2, <1>7, <1>8, <1>11, <1>15, JobHasDir
<1>17. ReplayFollows'
  BY <1>2, <1>11, <1>16, ReplayStands DEF Runs
<1>18. ExportInv'
  BY <1>2, <1>11, <1>16, ExportStands DEF Runs
<1>19. ImportInv'
  BY <1>2, <1>11, <1>16, ImportStands DEF Runs
<1> QED BY <1>9, <1>10, <1>12, <1>13, <1>14, <1>17, <1>18, <1>19

----------------------------------------------------------------------------
\* The steps of an import.

\* The files and the other processes know nothing of it: what is left to say is said
\* of the process that imports, and of what is loaded into its database.
LEMMA ImporterWorks ==
  ASSUME IInv, NEW p \in Procs, jobs[p].cmd = "import", NEW d \in Dirs, d = jobs[p].dir,
         NEW job \in Jobs, job.cmd = "import", job.dir = d, jobs' = [jobs EXCEPT ![p] = job],
         \A e \in Dirs : e # d => db'[e] = db[e] /\ loading'[e] = loading[e],
         \A e \in Dirs \cup {"file"} : e # d => (e \in torn' <=> e \in torn),
         UNCHANGED <<file, tainted>>,
         job.step # "cleanup" /\ d \notin tainted =>
           /\ loading'[d] = "same"
           /\ job.at <= Len(file) /\ job.skip <= Len(file)
           /\ \A i \in EntryLines : i <= job.at => db'[d].rows[file[i].row] = file[i].value
           /\ \A i \in EntryLines : i <= job.skip => db'[d].rows[file[i].row] = file[i].value
           /\ job.meta # None => /\ job.at = Len(file) /\ Len(file) \in HeadLines
                                 /\ job.meta = file[Len(file)].head
  PROVE  /\ jobs' \in [Procs -> Jobs]
         /\ \A q \in Procs : Runs(q, "none")' => jobs'[q] = NoJob
         /\ Exclusive' /\ ReplayFollows' /\ ExportInv' /\ ExportOfOneState' /\ ImportInv'
<1> USE DEF IInv
<1>1. /\ jobs' \in [Procs -> Jobs]
      /\ \A q \in Procs : Runs(q, "none")' => jobs'[q] = NoJob
      /\ \A q \in Procs : jobs'[q] = IF q = p THEN job ELSE jobs[q]
      /\ Exclusive'
  BY WorkTyped
<1>2. d \in Dirs /\ \A q \in Procs : q # p => jobs[q].dir # d
  BY Alone
<1>3. ASSUME NEW q \in Procs, q # p, jobs'[q].cmd # "none"
      PROVE  /\ jobs'[q] = jobs[q] /\ jobs[q].dir \in Dirs /\ jobs[q].dir # d
             /\ db'[jobs[q].dir] = db[jobs[q].dir]
             /\ loading'[jobs[q].dir] = loading[jobs[q].dir]
             /\ jobs[q].dir \in torn' <=> jobs[q].dir \in torn
  <2>1. jobs'[q] = jobs[q]
    BY <1>1, <1>3
  <2>2. jobs[q].dir \in Dirs /\ jobs[q].dir # d
    BY <1>2, <1>3, <2>1, JobHasDir
  <2> QED BY <2>1, <2>2
<1>4. \A q \in Procs : \A c \in {"replay", "export"} : jobs'[q].cmd = c =>
        /\ jobs'[q] = jobs[q] /\ db'[jobs[q].dir] = db[jobs[q].dir]
        /\ jobs[q].dir \in torn' <=> jobs[q].dir \in torn
  <2> SUFFICES ASSUME NEW q \in Procs, NEW c \in {"replay", "export"}, jobs'[q].cmd = c
               PROVE  /\ jobs'[q] = jobs[q] /\ db'[jobs[q].dir] = db[jobs[q].dir]
                      /\ jobs[q].dir \in torn' <=> jobs[q].dir \in torn
    OBVIOUS
  <2>1. q # p
    BY <1>1
  <2> QED BY <1>3, <2>1
<1>5. ReplayFollows'
  BY <1>4, ReplayStands DEF Runs
<1>6. "file" \in torn' <=> "file" \in torn
  BY NoneIsOther
<1>7. ExportInv' /\ ExportOfOneState'
  BY <1>4, <1>6, ExportStands, FileStands DEF Runs
<1>8. ImportInv'
  <2> SUFFICES ASSUME NEW q \in Procs, jobs'[q].cmd = "import", jobs'[q].step # "cleanup",
                      jobs'[q].dir \notin tainted'
               PROVE  /\ loading'[jobs'[q].dir] = "same"
                      /\ jobs'[q].at <= Len(file') /\ LinesIn(jobs[q].dir, jobs[q].at)'
                      /\ jobs'[q].skip <= Len(file') /\ LinesIn(jobs[q].dir, jobs[q].skip)'
                      /\ jobs'[q].meta # None =>
                           /\ jobs'[q].at = Len(file') /\ Len(file') \in HeadLines'
                           /\ jobs'[q].meta = file'[Len(file')].head
    BY DEF ImportInv, Runs
  <2>1. HeadLines' = HeadLines /\ EntryLines' = EntryLines
    BY DEF HeadLines, EntryLines
  <2>2. CASE q = p
    <3>1. jobs'[q] = job
      BY <2>2, <1>1
    <3>2. LinesIn(jobs[q].dir, jobs[q].at)' /\ LinesIn(jobs[q].dir, jobs[q].skip)'
      BY <2>1, <3>1 DEF LinesIn
    <3> QED BY <2>1, <3>1, <3>2
  <2>3. CASE q # p
    <3>1. /\ jobs'[q] = jobs[q] /\ db'[jobs[q].dir] = db[jobs[q].dir]
          /\ loading'[jobs[q].dir] = loading[jobs[q].dir]
      BY <2>3, <1>3
    <3>2. /\ loading[jobs[q].dir] = "same"
          /\ jobs[q].at <= Len(file) /\ LinesIn(jobs[q].dir, jobs[q].at)
          /\ jobs[q].skip <= Len(file) /\ LinesIn(jobs[q].dir, jobs[q].skip)
          /\ jobs[q].meta # None => /\ jobs[q].at = Len(file) /\ Len(file) \in HeadLines
                                    /\ jobs[q].meta = file[Len(file)].head
      BY <3>1 DEF ImportInv, Runs
    <3>3. LinesIn(jobs[q].dir, jobs[q].at)' /\ LinesIn(jobs[q].dir, jobs[q].skip)'
      BY <2>1, <3>1, <3>2 DEF LinesIn
    <3> QED BY <2>1, <3>1, <3>2, <3>3
  <2> QED BY <2>2, <2>3
<1> QED BY <1>1, <1>5, <1>7, <1>8

\* What a process that imports into a directory in good standing may count on.
LEMMA ImporterKnows ==
  ASSUME IInv, NEW p \in Procs, Importing(p), jobs[p].dir \notin tainted
  PROVE  LET d == jobs[p].dir
         IN  /\ d \in Dirs /\ loading[d] = "same" /\ "file" \notin tainted
             /\ db[d].head = None /\ FromFile(d) /\ OneValueEach
             /\ recorded = d => sidecar <= Len(file) /\ LinesIn(d, sidecar)
             /\ jobs[p].at <= Len(file) /\ LinesIn(d, jobs[p].at)
             /\ jobs[p].skip <= Len(file) /\ LinesIn(d, jobs[p].skip)
             /\ jobs[p].meta # None => /\ jobs[p].at = Len(file) /\ Len(file) \in HeadLines
                                       /\ jobs[p].meta = file[Len(file)].head
<1> USE DEF IInv
<1>1. jobs[p].cmd = "import" /\ jobs[p].step = "go"
  BY DEF Importing, Doing
<1>2. jobs[p].dir \in Dirs
  BY <1>1, JobHasDir
<1>3. /\ loading[jobs[p].dir] = "same"
      /\ jobs[p].at <= Len(file) /\ LinesIn(jobs[p].dir, jobs[p].at)
      /\ jobs[p].skip <= Len(file) /\ LinesIn(jobs[p].dir, jobs[p].skip)
      /\ jobs[p].meta # None => /\ jobs[p].at = Len(file) /\ Len(file) \in HeadLines
                                /\ jobs[p].meta = file[Len(file)].head
  BY <1>1 DEF ImportInv, Runs
<1>4. /\ "file" \notin tainted /\ db[jobs[p].dir].head = None /\ FromFile(jobs[p].dir)
      /\ recorded = jobs[p].dir => sidecar <= Len(file) /\ LinesIn(jobs[p].dir, sidecar)
  BY <1>2, <1>3 DEF LoadingInv
<1>5. OneValueEach
  BY <1>4 DEF ExportInv
<1> QED BY <1>2, <1>3, <1>4, <1>5

LEMMA PassOverKeeps ==
  ASSUME IInv, NEW p \in Procs, PassOver(p)
  PROVE  IInv'
<1> DEFINE d == jobs[p].dir
           n == jobs[p].at
           job == [jobs[p] EXCEPT !.at = n + 1]
<1> USE DEF IInv
<1>1. /\ jobs[p].cmd = "import" /\ Importing(p) /\ n < Len(file) /\ n \in Nat
      /\ n + 1 <= jobs[p].skip /\ jobs' = [jobs EXCEPT ![p] = job]
      /\ UNCHANGED <<db, file, sidecar, commands, tainted, torn, loading, recorded>>
  BY JobTyped DEF PassOver, MoreLines, Importing, Doing, Fresh, disk, history
<1>2. /\ job \in Jobs /\ job.cmd = "import" /\ job.dir = d /\ job.at = n + 1
      /\ job.skip = jobs[p].skip /\ job.meta = jobs[p].meta
  <2>1. jobs[p] \in Jobs /\ n + 1 \in Nat /\ jobs[p].cmd = "import" /\ jobs[p].dir = d
    BY <1>1 DEF TypeOK
  <2>2. job = [jobs[p] EXCEPT !.at = n + 1]
    OBVIOUS
  <2> HIDE DEF job, n, d
  <2> QED BY <2>1, <2>2, JobMoves
<1> HIDE DEF job, n
<1>3. ASSUME d \notin tainted
      PROVE  /\ loading'[d] = "same"
             /\ job.at <= Len(file) /\ job.skip <= Len(file) /\ job.meta = None
             /\ \A i \in EntryLines : i <= job.at => db'[d].rows[file[i].row] = file[i].value
             /\ \A i \in EntryLines : i <= job.skip => db'[d].rows[file[i].row] = file[i].value
  <2>1. /\ loading[d] = "same" /\ jobs[p].skip <= Len(file) /\ LinesIn(d, jobs[p].skip)
        /\ jobs[p].meta # None => jobs[p].at = Len(file)
    BY <1>1, <1>3, ImporterKnows
  <2>2. EntryLines \subseteq Nat /\ jobs[p].skip \in Nat /\ Len(file) \in Nat
    BY FileTyped, JobTyped DEF EntryLines
  <2>3. jobs[p].meta = None
    BY <1>1, <2>1, <2>2 DEF n
  <2>4. \A i \in EntryLines : i <= n + 1 => i <= jobs[p].skip
    BY <1>1, <2>2
  <2> QED BY <1>1, <1>2, <2>1, <2>2, <2>3, <2>4 DEF LinesIn
<1>4. /\ jobs' \in [Procs -> Jobs]
      /\ \A q \in Procs : Runs(q, "none")' => jobs'[q] = NoJob
      /\ Exclusive' /\ ReplayFollows' /\ ExportInv' /\ ExportOfOneState' /\ ImportInv'
  <2>1. d \in Dirs
    BY <1>1, Alone
  <2> HIDE DEF d, IInv
  <2> QED BY <1>1, <1>2, <1>3, <2>1, ImporterWorks DEF d
<1>5. TypeOK'
  BY <1>1, <1>4 DEF TypeOK
<1>6. HeadTellsRows' /\ LoadingInv'
  BY <1>1, RowsStand, LoadingStands
<1> QED BY <1>4, <1>5, <1>6

LEMMA ImportMetadataKeeps ==
  ASSUME IInv, NEW p \in Procs, ImportMetadata(p)
  PROVE  IInv'
<1> DEFINE d == jobs[p].dir
           n == jobs[p].at
           head == file[n + 1].head
           mid == [jobs[p] EXCEPT !.at = n + 1]
           job == [jobs[p] EXCEPT !.at = n + 1, !.meta = head]
<1> USE DEF IInv
<1>1. /\ jobs[p].cmd = "import" /\ Importing(p) /\ n < Len(file) /\ n \in Nat
      /\ jobs[p].skip < n + 1 /\ file[n + 1].kind = "metadata"
      /\ jobs' = [jobs EXCEPT ![p] = job]
      /\ UNCHANGED <<db, file, sidecar, commands, tainted, torn, loading, recorded>>
  BY JobTyped DEF ImportMetadata, MoreLines, Importing, Doing, Fresh, NextLine, disk, history
<1>2. n + 1 \in 1..Len(file) /\ n + 1 \in HeadLines /\ head \in 0..Blocks
  <2>1. n + 1 \in 1..Len(file) /\ DOMAIN file = 1..Len(file)
    BY <1>1, FileTyped
  <2>2. file[n + 1] \in Lines
    BY <2>1, FileTyped
  <2> QED BY <1>1, <2>1, <2>2, LineTyped DEF HeadLines
<1>3. /\ job \in Jobs /\ job.cmd = "import" /\ job.dir = d /\ job.at = n + 1
      /\ job.skip = jobs[p].skip /\ job.meta = head
  <2>1. jobs[p] \in Jobs /\ n + 1 \in Nat /\ jobs[p].cmd = "import" /\ jobs[p].dir = d
    BY <1>1 DEF TypeOK
  <2>2. job = [mid EXCEPT !.meta = head]
    OBVIOUS
  <2>3. /\ mid \in Jobs /\ mid.cmd = jobs[p].cmd /\ mid.dir = jobs[p].dir /\ mid.at = n + 1
        /\ mid.skip = jobs[p].skip /\ mid.meta = jobs[p].meta /\ mid.step = jobs[p].step
    BY <2>1, JobMoves
  <2> HIDE DEF job, mid, n, d, head
  <2>4. mid = [cmd |-> mid.cmd, dir |-> mid.dir, own |-> mid.own, at |-> mid.at,
               skip |-> mid.skip, meta |-> mid.meta, step |-> mid.step]
    BY <2>3, JobIsRecord
  <2>5. job = [cmd |-> mid.cmd, dir |-> mid.dir, own |-> mid.own, at |-> mid.at,
               skip |-> mid.skip, meta |-> head, step |-> mid.step]
    BY <2>2, <2>4
  <2>6. /\ mid.cmd \in Tasks /\ mid.dir \in Dirs \cup {None} /\ mid.own \in BOOLEAN /\ mid.at \in Nat
        /\ mid.skip \in Nat /\ head \in 0..Blocks \cup {None}
        /\ mid.step \in Steps
    BY <1>2, <2>3, JobIsRecord
  <2> QED BY <2>1, <2>3, <2>5, <2>6 DEF Jobs
<1>4. head = file[n + 1].head
  OBVIOUS
<1> HIDE DEF job, n, head
<1>5. ASSUME d \notin tainted
      PROVE  /\ loading'[d] = "same"
             /\ job.at = Len(file) /\ job.skip <= Len(file)
             /\ Len(file) \in HeadLines /\ head = file[Len(file)].head
             /\ \A i \in EntryLines : i <= job.at => db'[d].rows[file[i].row] = file[i].value
             /\ \A i \in EntryLines : i <= job.skip => db'[d].rows[file[i].row] = file[i].value
  <2>1. /\ loading[d] = "same" /\ "file" \notin tainted /\ LinesIn(d, n)
        /\ jobs[p].skip <= Len(file) /\ LinesIn(d, jobs[p].skip)
    BY <1>1, <1>5, ImporterKnows DEF n
  <2>2. EntryLines \subseteq Nat /\ n + 1 \notin EntryLines
    BY <1>1, FileTyped DEF EntryLines
  <2>3. n + 1 = Len(file)
    BY <1>2, <2>1 DEF ExportOfOneState
  <2>4. \A i \in EntryLines : i <= n + 1 => i <= n
    BY <1>1, <2>2
  <2> QED BY <1>1, <1>2, <1>3, <1>4, <2>1, <2>3, <2>4 DEF LinesIn
<1>6. /\ jobs' \in [Procs -> Jobs]
      /\ \A q \in Procs : Runs(q, "none")' => jobs'[q] = NoJob
      /\ Exclusive' /\ ReplayFollows' /\ ExportInv' /\ ExportOfOneState' /\ ImportInv'
  <2>1. d \in Dirs /\ (job.at = Len(file) => job.at <= Len(file))
    BY <1>1, Alone, FileTyped
  <2> HIDE DEF d, IInv
  <2> QED BY <1>1, <1>3, <1>5, <2>1, ImporterWorks DEF d
<1>7. TypeOK'
  BY <1>1, <1>6 DEF TypeOK
<1>8. HeadTellsRows' /\ LoadingInv'
  BY <1>1, RowsStand, LoadingStands
<1> QED BY <1>6, <1>7, <1>8

LEMMA ImportEntryKeeps ==
  ASSUME IInv, NEW p \in Procs, ImportEntry(p)
  PROVE  IInv'
<1> DEFINE d == jobs[p].dir
           n == jobs[p].at
           line == file[n + 1]
           new == [db[d] EXCEPT !.rows[line.row] = line.value]
           mid == [jobs[p] EXCEPT !.at = n + 1]
           job == [jobs[p] EXCEPT !.at = n + 1, !.step = "record"]
<1> USE DEF IInv
<1>1. /\ jobs[p].cmd = "import" /\ Importing(p) /\ n < Len(file) /\ n \in Nat
      /\ jobs[p].skip < n + 1 /\ line.kind = "entry"
      /\ jobs' = [jobs EXCEPT ![p] = job] /\ db' = [db EXCEPT ![d] = new]
      /\ UNCHANGED <<file, sidecar, commands, tainted, torn, loading, recorded>>
  BY JobTyped DEF ImportEntry, MoreLines, Importing, Doing, Fresh, NextLine, history
<1>2. d \in Dirs /\ \A q \in Procs : q # p => jobs[q].dir # d
  BY <1>1, Alone
<1>3. n + 1 \in 1..Len(file) /\ n + 1 \in EntryLines /\ line.row \in Rows /\ line.value \in Values
  <2>1. n + 1 \in 1..Len(file) /\ DOMAIN file = 1..Len(file)
    BY <1>1, FileTyped
  <2>2. file[n + 1] \in Lines
    BY <2>1, FileTyped
  <2> QED BY <1>1, <2>1, <2>2, LineTyped DEF EntryLines
<1>4. /\ job \in Jobs /\ job.cmd = "import" /\ job.dir = d /\ job.at = n + 1
      /\ job.skip = jobs[p].skip /\ job.meta = jobs[p].meta
  <2>1. jobs[p] \in Jobs /\ n + 1 \in Nat /\ jobs[p].cmd = "import" /\ jobs[p].dir = d
    BY <1>1 DEF TypeOK
  <2>2. job = [mid EXCEPT !.step = "record"]
    OBVIOUS
  <2>3. /\ mid \in Jobs /\ mid.cmd = jobs[p].cmd /\ mid.dir = jobs[p].dir /\ mid.at = n + 1
        /\ mid.skip = jobs[p].skip /\ mid.meta = jobs[p].meta /\ mid.step = jobs[p].step
    BY <2>1, JobMoves
  <2> HIDE DEF job, mid, n, d
  <2> QED BY <2>1, <2>2, <2>3, JobSteps DEF Steps
<1>5. db[d].rows \in [Rows -> Values \cup {None}] /\ db[d].head \in 0..Blocks \cup {None}
  BY <1>2 DEF TypeOK
<1>6. /\ new \in [rows: [Rows -> Values \cup {None}], head: 0..Blocks \cup {None}]
      /\ new.head = db[d].head
      /\ \A r \in Rows : new.rows[r] = IF r = line.row THEN line.value ELSE db[d].rows[r]
  <2>1. db[d] = [rows |-> db[d].rows, head |-> db[d].head]
    BY <1>2 DEF TypeOK
  <2>2. new = [rows |-> [db[d].rows EXCEPT ![line.row] = line.value], head |-> db[d].head]
    BY <2>1
  <2> HIDE DEF new, d, line
  <2> QED BY <1>3, <1>5, <2>2
<1>7. line = file[n + 1]
  OBVIOUS
<1> HIDE DEF new, mid, job, line, n
<1>8. /\ db' \in [Dirs -> [rows: [Rows -> Values \cup {None}], head: 0..Blocks \cup {None}]]
      /\ \A e \in Dirs : db'[e] = IF e = d THEN new ELSE db[e]
  BY <1>1, <1>2, <1>6 DEF TypeOK
\* The lines that were in stay in: a file gives a row one value.
<1>9. ASSUME d \notin tainted
      PROVE  /\ loading[d] = "same" /\ db[d].head = None /\ jobs[p].meta = None
             /\ "file" \notin tainted
             /\ n + 1 <= Len(file) /\ jobs[p].skip <= Len(file)
             /\ \A i \in EntryLines : i <= n + 1 => new.rows[file[i].row] = file[i].value
             /\ \A i \in EntryLines : i <= jobs[p].skip => new.rows[file[i].row] = file[i].value
             /\ recorded = d => /\ sidecar <= Len(file)
                                /\ \A i \in EntryLines : i <= sidecar =>
                                     new.rows[file[i].row] = file[i].value
             /\ \A r \in Rows : new.rows[r] # None =>
                  \E i \in EntryLines : file[i].row = r /\ file[i].value = new.rows[r]
  <2>1. /\ loading[d] = "same" /\ db[d].head = None /\ FromFile(d) /\ OneValueEach
        /\ "file" \notin tainted
        /\ recorded = d => sidecar <= Len(file) /\ LinesIn(d, sidecar)
        /\ LinesIn(d, n) /\ jobs[p].skip <= Len(file) /\ LinesIn(d, jobs[p].skip)
        /\ jobs[p].meta # None => n = Len(file)
    BY <1>1, <1>9, ImporterKnows DEF n
  <2>2. EntryLines \subseteq Nat /\ \A i \in EntryLines : file[i].row \in Rows
    BY FileTyped, LineTyped DEF EntryLines
  <2>3. \A i \in EntryLines : db[d].rows[file[i].row] = file[i].value \/ i = n + 1 =>
          new.rows[file[i].row] = file[i].value
    BY <1>3, <1>6, <1>7, <2>1, <2>2 DEF OneValueEach
  <2>4. \A i \in EntryLines : i <= n + 1 => i <= n \/ i = n + 1
    BY <1>1, <2>2
  <2>5. jobs[p].meta = None /\ n + 1 <= Len(file)
    <3>1. Len(file) \in Nat
      BY FileTyped
    <3>2. n # Len(file) /\ n + 1 <= Len(file)
      BY <1>1, <3>1
    <3> QED BY <2>1, <3>2
  <2>6. ASSUME NEW r \in Rows, new.rows[r] # None
        PROVE  \E i \in EntryLines : file[i].row = r /\ file[i].value = new.rows[r]
    <3>1. CASE r = line.row
      BY <3>1, <1>3, <1>6, <1>7
    <3>2. CASE r # line.row
      BY <3>2, <2>6, <1>6, <2>1 DEF FromFile
    <3> QED BY <3>1, <3>2
  <2>7. \A i \in EntryLines : i <= n + 1 => new.rows[file[i].row] = file[i].value
    BY <2>1, <2>3, <2>4 DEF LinesIn
  <2>8. \A i \in EntryLines : i <= jobs[p].skip => new.rows[file[i].row] = file[i].value
    BY <2>1, <2>3 DEF LinesIn
  <2>9. recorded = d => \A i \in EntryLines : i <= sidecar => new.rows[file[i].row] = file[i].value
    BY <2>1, <2>3 DEF LinesIn
  <2> QED BY <2>1, <2>5, <2>6, <2>7, <2>8, <2>9
<1>10. db'[d] = new
  BY <1>2, <1>8
<1>11. /\ jobs' \in [Procs -> Jobs]
       /\ \A q \in Procs : Runs(q, "none")' => jobs'[q] = NoJob
       /\ Exclusive' /\ ReplayFollows' /\ ExportInv' /\ ExportOfOneState' /\ ImportInv'
  <2>1. ASSUME d \notin tainted
        PROVE  /\ loading'[d] = "same"
               /\ job.at <= Len(file) /\ job.skip <= Len(file) /\ job.meta = None
               /\ \A i \in EntryLines : i <= job.at => db'[d].rows[file[i].row] = file[i].value
               /\ \A i \in EntryLines : i <= job.skip => db'[d].rows[file[i].row] = file[i].value
    BY <1>1, <1>4, <1>9, <1>10, <2>1
  <2>2. \A e \in Dirs : e # d => db'[e] = db[e] /\ loading'[e] = loading[e]
    BY <1>1, <1>8
  <2>3. job.step # "cleanup" /\ d \notin tainted =>
           /\ loading'[d] = "same"
           /\ job.at <= Len(file) /\ job.skip <= Len(file)
           /\ \A i \in EntryLines : i <= job.at => db'[d].rows[file[i].row] = file[i].value
           /\ \A i \in EntryLines : i <= job.skip => db'[d].rows[file[i].row] = file[i].value
           /\ job.meta # None => /\ job.at = Len(file) /\ Len(file) \in HeadLines
                                 /\ job.meta = file[Len(file)].head
    BY <2>1
  <2>4. UNCHANGED <<file, tainted, torn>> /\ jobs' = [jobs EXCEPT ![p] = job] /\ jobs[p].cmd = "import"
    BY <1>1
  <2>5. job \in Jobs /\ job.cmd = "import" /\ job.dir = d /\ d = jobs[p].dir /\ d \in Dirs
    BY <1>2, <1>4
  <2> HIDE DEF d, IInv
  <2> QED BY <2>2, <2>3, <2>4, <2>5, ImporterWorks
<1>12. TypeOK'
  BY <1>1, <1>8, <1>11 DEF TypeOK
<1>13. HeadTellsRows'
  BY <1>1, <1>6, <1>8, <1>9 DEF HeadTellsRows, RowsOf
<1>14. LoadingInv'
  <2> SUFFICES ASSUME NEW e \in Dirs, e \notin tainted, loading[e] = "same"
               PROVE  /\ "file" \notin tainted /\ db'[e].head = None /\ FromFile(e)'
                      /\ recorded = e => sidecar <= Len(file) /\ LinesIn(e, sidecar)'
    BY <1>1 DEF LoadingInv
  <2>1. EntryLines' = EntryLines
    BY <1>1 DEF EntryLines
  <2>2. CASE e = d
    <3>1. FromFile(e)'
      BY <1>1, <1>9, <1>10, <2>1, <2>2 DEF FromFile
    <3>2. recorded = e => LinesIn(e, sidecar)'
      BY <1>1, <1>9, <1>10, <2>1, <2>2 DEF LinesIn
    <3> QED BY <1>6, <1>9, <1>10, <2>2, <3>1, <3>2
  <2>3. CASE e # d
    <3>1. /\ "file" \notin tainted /\ db[e].head = None /\ FromFile(e)
          /\ recorded = e => sidecar <= Len(file) /\ LinesIn(e, sidecar)
      BY DEF LoadingInv
    <3>2. db'[e] = db[e]
      BY <1>8, <2>3
    <3>3. FromFile(e)' /\ (LinesIn(e, sidecar)' <=> LinesIn(e, sidecar))
      BY <1>1, <2>1, <3>1, <3>2 DEF FromFile, LinesIn
    <3> QED BY <3>1, <3>2, <3>3
  <2> QED BY <2>2, <2>3
<1> QED BY <1>11, <1>12, <1>13, <1>14

LEMMA RecordKeeps ==
  ASSUME IInv, NEW p \in Procs, Record(p)
  PROVE  IInv'
<1> DEFINE d == jobs[p].dir
           job == [jobs[p] EXCEPT !.step = "go"]
<1> USE DEF IInv
<1>1. /\ jobs[p].cmd = "import" /\ jobs[p].step = "record" /\ jobs[p].at \in Nat
      /\ sidecar' = jobs[p].at /\ recorded' = d /\ jobs' = [jobs EXCEPT ![p] = job]
      /\ UNCHANGED <<db, file, commands, tainted, torn, loading>>
  BY JobTyped DEF Record, Doing
<1>2. d \in Dirs
  BY <1>1, Alone
<1>3. /\ job \in Jobs /\ job.cmd = "import" /\ job.dir = d /\ job.at = jobs[p].at
      /\ job.skip = jobs[p].skip /\ job.meta = jobs[p].meta
  <2>1. jobs[p] \in Jobs
    BY DEF TypeOK
  <2>2. job = [jobs[p] EXCEPT !.step = "go"]
    OBVIOUS
  <2> HIDE DEF job
  <2> QED BY <1>1, <2>1, <2>2, JobSteps DEF Steps
<1> HIDE DEF job
<1>4. ASSUME d \notin tainted
      PROVE  /\ loading[d] = "same" /\ jobs[p].at <= Len(file) /\ LinesIn(d, jobs[p].at)
             /\ jobs[p].skip <= Len(file) /\ LinesIn(d, jobs[p].skip)
             /\ jobs[p].meta # None => /\ jobs[p].at = Len(file) /\ Len(file) \in HeadLines
                                       /\ jobs[p].meta = file[Len(file)].head
  BY <1>1, <1>4 DEF ImportInv, Runs
<1>5. /\ jobs' \in [Procs -> Jobs]
      /\ \A q \in Procs : Runs(q, "none")' => jobs'[q] = NoJob
      /\ Exclusive' /\ ReplayFollows' /\ ExportInv' /\ ExportOfOneState' /\ ImportInv'
  <2>1. ASSUME d \notin tainted
        PROVE  /\ loading'[d] = "same"
               /\ job.at <= Len(file) /\ job.skip <= Len(file)
               /\ \A i \in EntryLines : i <= job.at => db'[d].rows[file[i].row] = file[i].value
               /\ \A i \in EntryLines : i <= job.skip => db'[d].rows[file[i].row] = file[i].value
               /\ job.meta # None => /\ job.at = Len(file) /\ Len(file) \in HeadLines
                                     /\ job.meta = file[Len(file)].head
    BY <1>1, <1>3, <1>4, <2>1 DEF LinesIn
  <2> HIDE DEF d, IInv
  <2> QED BY <1>1, <1>2, <1>3, <2>1, ImporterWorks DEF d
<1>6. TypeOK'
  BY <1>1, <1>2, <1>5 DEF TypeOK
<1>7. HeadTellsRows'
  BY <1>1, RowsStand
<1>8. LoadingInv'
  <2> SUFFICES ASSUME NEW e \in Dirs, e \notin tainted, loading[e] = "same"
               PROVE  /\ "file" \notin tainted /\ db[e].head = None /\ FromFile(e)'
                      /\ recorded' = e => /\ jobs[p].at <= Len(file)
                                          /\ \A i \in EntryLines : i <= jobs[p].at =>
                                               db[e].rows[file[i].row] = file[i].value
    BY <1>1 DEF LoadingInv, LinesIn, EntryLines
  <2>1. "file" \notin tainted /\ db[e].head = None /\ FromFile(e)
    BY DEF LoadingInv
  <2>2. FromFile(e)'
    BY <1>1, <2>1 DEF FromFile, EntryLines
  <2>3. ASSUME recorded' = e
        PROVE  /\ jobs[p].at <= Len(file)
               /\ \A i \in EntryLines : i <= jobs[p].at => db[e].rows[file[i].row] = file[i].value
    <3>1. e = d
      BY <1>1, <2>3
    <3> QED BY <1>4, <3>1 DEF LinesIn
  <2> QED BY <2>1, <2>2, <2>3
<1> QED BY <1>5, <1>6, <1>7, <1>8

\* At the end of the file every row of the file is in and no other: what the head that is
\* written now is the head of.
LEMMA ImportHeadKeeps ==
  ASSUME IInv, NEW p \in Procs, ImportHead(p)
  PROVE  IInv'
<1> DEFINE d == jobs[p].dir
           meta == jobs[p].meta
           new == [db[d] EXCEPT !.head = IF meta = None THEN db[d].head ELSE meta]
           job == [jobs[p] EXCEPT !.step = "cleanup"]
<1> USE DEF IInv
<1>1. /\ jobs[p].cmd = "import" /\ Importing(p) /\ jobs[p].at >= Len(file)
      /\ meta \in 0..Blocks \cup {None} /\ db' = [db EXCEPT ![d] = new]
      /\ jobs' = [jobs EXCEPT ![p] = job] /\ loading' = [loading EXCEPT ![d] = None]
      /\ torn' = IF "file" \in torn THEN torn \cup {d} ELSE torn \ {d}
      /\ UNCHANGED <<file, sidecar, commands, tainted, recorded>>
  BY JobTyped DEF ImportHead, Importing, Doing
<1>2. d \in Dirs
  BY <1>1, Alone
<1>3. /\ job \in Jobs /\ job.cmd = "import" /\ job.dir = d /\ job.step = "cleanup"
  <2>1. jobs[p] \in Jobs
    BY DEF TypeOK
  <2>2. job = [jobs[p] EXCEPT !.step = "cleanup"]
    OBVIOUS
  <2> HIDE DEF job
  <2> QED BY <1>1, <2>1, <2>2, JobSteps DEF Steps
<1>4. db[d].rows \in [Rows -> Values \cup {None}] /\ db[d].head \in 0..Blocks \cup {None}
  BY <1>2 DEF TypeOK
<1>5. /\ new \in [rows: [Rows -> Values \cup {None}], head: 0..Blocks \cup {None}]
      /\ new.rows = db[d].rows /\ new.head = IF meta = None THEN db[d].head ELSE meta
  <2>1. db[d] = [rows |-> db[d].rows, head |-> db[d].head]
    BY <1>2 DEF TypeOK
  <2>2. new = [rows |-> db[d].rows, head |-> IF meta = None THEN db[d].head ELSE meta]
    BY <2>1
  <2> HIDE DEF new
  <2> QED BY <1>1, <1>4, <2>2
<1> HIDE DEF new, job
<1>6. /\ db' \in [Dirs -> [rows: [Rows -> Values \cup {None}], head: 0..Blocks \cup {None}]]
      /\ \A e \in Dirs : db'[e] = IF e = d THEN new ELSE db[e]
  BY <1>1, <1>2, <1>5 DEF TypeOK
<1>7. /\ loading' \in [Dirs -> {None, "same", "other"}]
      /\ \A e \in Dirs : loading'[e] = IF e = d THEN None ELSE loading[e]
  BY <1>1, <1>2 DEF TypeOK
<1>8. ASSUME d \notin tainted, new.head # None
      PROVE  new.rows = RowsOf(new.head, "file" \in torn)
  <2>1. /\ "file" \notin tainted /\ db[d].head = None /\ FromFile(d) /\ OneValueEach
        /\ jobs[p].at <= Len(file) /\ LinesIn(d, jobs[p].at)
        /\ meta # None => Len(file) \in HeadLines /\ meta = file[Len(file)].head
    BY <1>1, <1>8, ImporterKnows
  <2>2. meta # None /\ new.head = meta
    BY <1>5, <1>8, <2>1
  <2> DEFINE named == RowsOf(meta, "file" \in torn)
  <2>3. Holds(named) /\ named \in [Rows -> Values \cup {None}]
    BY <1>1, <2>1, <2>2, RowsOfTyped DEF ExportOfOneState
  <2>20. named = RowsOf(meta, "file" \in torn)
    OBVIOUS
  <2> HIDE DEF named
  <2>4. \A i \in EntryLines : /\ file[i].row \in Rows /\ file[i].value \in Values
                              /\ i <= jobs[p].at
    BY <1>1, FileTyped, LineTyped, JobTyped DEF EntryLines
  <2>5. ASSUME NEW r \in Rows
        PROVE  db[d].rows[r] = named[r]
    <3> DEFINE inFile == {file[i].value : i \in {j \in EntryLines : file[j].row = r}}
    <3>1. inFile = IF named[r] = None THEN {} ELSE {named[r]}
      BY <2>3 DEF Holds
    <3>2. CASE db[d].rows[r] # None
      <4>1. db[d].rows[r] \in inFile
        BY <2>1, <3>2 DEF FromFile
      <4> QED BY <3>1, <4>1
    <3>3. CASE named[r] # None
      <4>1. PICK i \in EntryLines : file[i].row = r /\ file[i].value = named[r]
        BY <3>1, <3>3
      <4> QED BY <2>1, <2>4, <4>1 DEF LinesIn
    <3> QED BY <3>2, <3>3
  <2> QED BY <1>4, <1>5, <2>2, <2>3, <2>5, <2>20
<1>9. /\ jobs' \in [Procs -> Jobs]
      /\ \A q \in Procs : Runs(q, "none")' => jobs'[q] = NoJob
      /\ Exclusive' /\ ReplayFollows' /\ ExportInv' /\ ExportOfOneState' /\ ImportInv'
  <2>1. \A e \in Dirs : e # d => db'[e] = db[e] /\ loading'[e] = loading[e]
    BY <1>6, <1>7
  <2>2. \A e \in Dirs \cup {"file"} : e # d => (e \in torn' <=> e \in torn)
    BY <1>1
  <2> HIDE DEF d, IInv
  <2> QED BY <1>1, <1>2, <1>3, <2>1, <2>2, ImporterWorks DEF d
<1>10. TypeOK'
  BY <1>1, <1>2, <1>6, <1>7, <1>9 DEF TypeOK
<1>11. HeadTellsRows'
  <2> SUFFICES ASSUME NEW e \in Dirs, e \notin tainted', db'[e].head # None
               PROVE  db'[e].rows = RowsOf(db'[e].head, e \in torn')
    BY DEF HeadTellsRows
  <2>1. CASE e = d
    <3>1. db'[e] = new /\ new.rows = RowsOf(new.head, "file" \in torn) /\ (e \in torn' <=> "file" \in torn)
      BY <2>1, <1>1, <1>2, <1>6, <1>8
    <3> QED BY <3>1 DEF RowsOf
  <2>2. CASE e # d
    <3>1. db'[e] = db[e] /\ e \notin tainted /\ (e \in torn' <=> e \in torn)
      BY <2>2, <1>1, <1>6
    <3>2. db[e].rows = RowsOf(db[e].head, e \in torn)
      BY <3>1 DEF HeadTellsRows
    <3> QED BY <3>1, <3>2 DEF RowsOf
  <2> QED BY <2>1, <2>2
<1>12. LoadingInv'
  <2>1. \A e \in Dirs : loading'[e] = "same" => loading[e] = "same" /\ db'[e] = db[e]
    BY <1>6, <1>7, NoneIsOther
  <2> QED BY <1>1, <2>1, LoadingStands
<1> QED BY <1>9, <1>10, <1>11, <1>12

----------------------------------------------------------------------------
\* The end of a command.

LEMMA EndKeeps ==
  ASSUME IInv, NEW p \in Procs, End(p), sidecar' \in {0, sidecar},
         UNCHANGED <<db, file, commands, tainted, torn, loading, recorded>>
  PROVE  IInv'
<1> USE DEF IInv
<1>1. /\ jobs' \in [Procs -> Jobs]
      /\ \A q \in Procs : jobs'[q] = IF q = p THEN NoJob ELSE jobs[q]
  BY DEF End, TypeOK, NoJob, Jobs, Tasks, Steps
<1>2. TypeOK' /\ Exclusive'
  <2>1. sidecar' \in Nat
    BY DEF TypeOK
  <2> QED BY <1>1, <2>1, EndExclusive DEF TypeOK, Runs
<1>3. \A q \in Procs : jobs'[q].cmd \in {"replay", "import", "export"} => jobs'[q] = jobs[q]
  BY <1>1 DEF NoJob
<1>4. ReplayFollows' /\ ExportInv' /\ ImportInv'
  BY <1>3, ReplayStands, ExportStands, ImportStands DEF Runs
<1>5. HeadTellsRows' /\ ExportOfOneState'
  BY RowsStand, FileStands
<1>6. LoadingInv'
  <2>1. CASE sidecar' = sidecar
    BY <2>1, LoadingStands
  <2>2. CASE sidecar' = 0
    <3> SUFFICES ASSUME NEW e \in Dirs, e \notin tainted, loading[e] = "same"
                 PROVE  /\ "file" \notin tainted /\ db[e].head = None /\ FromFile(e)'
                        /\ sidecar' <= Len(file) /\ LinesIn(e, sidecar)'
      BY DEF LoadingInv
    <3>1. "file" \notin tainted /\ db[e].head = None /\ FromFile(e)
      BY DEF LoadingInv
    <3>2. FromFile(e)'
      BY <3>1 DEF FromFile, EntryLines
    <3>3. 0 <= Len(file) /\ LinesIn(e, sidecar)'
      BY <2>2, FileTyped DEF LinesIn, EntryLines
    <3> QED BY <2>2, <3>1, <3>2, <3>3
  <2> QED BY <2>1, <2>2
<1> QED BY <1>2, <1>4, <1>5, <1>6

LEMMA CleanupKeeps ==
  ASSUME IInv, NEW p \in Procs, Cleanup(p)
  PROVE  IInv'
<1>1. End(p) /\ sidecar' \in {0, sidecar}
      /\ UNCHANGED <<db, file, commands, tainted, torn, loading, recorded>>
  BY DEF Cleanup, history
<1> QED BY <1>1, EndKeeps

----------------------------------------------------------------------------
\* The steps of an export.

LEMMA StartExportKeeps ==
  ASSUME IInv, NEW p \in Procs, NEW args \in Cli, StartExport(p, args)
  PROVE  IInv'
<1> DEFINE d == Dir(args)
           job == Job("export", d)
           bad == d \in tainted \/ Exporters # {}
<1> USE DEF IInv
<1>1. d \in Dirs
  BY DirOfOptions
<1>2. /\ Begin(p, job) /\ file' = <<>> /\ UNCHANGED <<db, sidecar>>
      /\ tainted' = IF bad THEN tainted \cup ImportersNow \cup {"file"}
                    ELSE (tainted \cup ImportersNow) \ {"file"}
      /\ torn' = IF d \in torn THEN torn \cup {"file"} ELSE torn \ {"file"}
      /\ loading' = [e \in Dirs |-> IF loading[e] = None THEN None ELSE "other"]
      /\ recorded' = None
  BY DEF StartExport
<1>3. /\ job \in Jobs /\ job.dir = d /\ job.cmd = "export" /\ job.at = 0
  BY <1>1, NewJobTyped DEF Tasks
<1> HIDE DEF job, d
<1>4. /\ jobs' \in [Procs -> Jobs] /\ commands' \in 0..MaxCommands
      /\ \A q \in Procs : Runs(q, "none")' => jobs'[q] = NoJob
      /\ \A q \in Procs : jobs'[q] = IF q = p THEN job ELSE jobs[q]
      /\ \A q \in Procs : jobs[q].dir # d
      /\ jobs[p] = NoJob
      /\ Exclusive'
  BY <1>1, <1>2, <1>3, BeginTyped
<1>5. ImportersNow \subseteq Dirs /\ d \notin ImportersNow
  <2>1. \A q \in Procs : jobs[q].cmd = "import" => jobs[q].dir \in Dirs /\ jobs[q].dir # d
    BY <1>4, JobHasDir
  <2> QED BY <2>1 DEF ImportersNow, Runs
<1>6. \A e \in Dirs : /\ (e \in tainted' <=> e \in tainted \cup ImportersNow)
                     /\ (e \in torn' <=> e \in torn)
  <2>1. \A e \in Dirs : e # "file"
    BY NoneIsOther
  <2>2. tainted' = tainted \cup ImportersNow \cup {"file"} \/ tainted' = (tainted \cup ImportersNow) \ {"file"}
    BY <1>2
  <2>3. torn' = torn \cup {"file"} \/ torn' = torn \ {"file"}
    BY <1>2
  <2>4. ASSUME NEW e \in Dirs PROVE e \in tainted' <=> e \in tainted \cup ImportersNow
    BY <2>1, <2>2
  <2>5. ASSUME NEW e \in Dirs PROVE e \in torn' <=> e \in torn
    BY <2>1, <2>3
  <2> QED BY <2>4, <2>5
<1>7. TypeOK'
  <2>1. file' \in Seq(Lines)
    BY <1>2
  <2>2. tainted' \subseteq Dirs \cup {"file"} /\ torn' \subseteq Dirs \cup {"file"}
    BY <1>2, <1>5 DEF TypeOK
  <2>3. loading' \in [Dirs -> {None, "same", "other"}]
    BY <1>2
  <2> QED BY <1>2, <1>4, <2>1, <2>2, <2>3 DEF TypeOK
<1>8. EntryLines' = {} /\ HeadLines' = {} /\ DOMAIN file' = {}
  BY <1>2 DEF EntryLines, HeadLines
<1>9. HeadTellsRows' /\ ExportOfOneState'
  BY <1>2, <1>6, <1>8, RowsStand DEF ExportOfOneState
<1>10. ReplayFollows'
  <2>1. \A q \in Procs : Runs(q, "replay")' => jobs'[q] = jobs[q]
    BY <1>3, <1>4 DEF Runs
  <2>2. \A q \in Procs : Runs(q, "replay")' => jobs[q].dir \in Dirs
    BY <2>1, JobHasDir DEF Runs
  <2> QED BY <1>2, <1>6, <2>1, <2>2, ReplayStands
<1>11. LoadingInv'
  BY <1>2, NoneIsOther DEF LoadingInv
<1>12. ImportInv'
  <2>1. ASSUME NEW q \in Procs, jobs'[q].cmd = "import" PROVE jobs'[q].dir \in tainted'
    <3>1. jobs'[q] = jobs[q]
      BY <1>3, <1>4, <2>1
    <3>2. jobs[q].dir \in ImportersNow
      BY <2>1, <3>1 DEF ImportersNow, Runs
    <3> QED BY <1>5, <1>6, <3>1, <3>2
  <2> QED BY <2>1 DEF ImportInv, Runs
<1>13. ExportInv'
  <2> SUFFICES ASSUME "file" \notin tainted'
               PROVE  /\ OneValueEach'
                      /\ \A q \in Exporters' : jobs'[q].dir \notin tainted' /\ WrittenSoFar(q)'
                                               /\ (jobs'[q].dir \in torn' <=> "file" \in torn')
                      /\ \A q, u \in Exporters' : q = u
    BY DEF ExportInv
  <2>1. ~ bad
    BY <1>2
  <2>2. Exporters = {} /\ d \notin tainted'
    BY <1>1, <1>5, <1>6, <2>1
  <2>3. \A q \in Exporters' : q = p
    BY <1>4, <2>2 DEF Exporters, Runs
  <2>4. jobs'[p] = job
    BY <1>4
  <2>5. WrittenSoFar(p)'
    BY <1>3, <1>8, <2>4 DEF WrittenSoFar
  <2>6. d \in torn' <=> "file" \in torn'
    BY <1>1, <1>2, NoneIsOther
  <2> QED BY <1>3, <1>8, <2>2, <2>3, <2>4, <2>5, <2>6 DEF OneValueEach
<1> QED BY <1>4, <1>7, <1>9, <1>10, <1>11, <1>12, <1>13

\* An export that goes on has written entries only.
LEMMA ExporterKnows ==
  ASSUME IInv, NEW p \in Procs, jobs[p].cmd = "export", "file" \notin tainted
  PROVE  /\ OneValueEach /\ jobs[p].dir \notin tainted /\ WrittenSoFar(p)
         /\ jobs[p].dir \in torn <=> "file" \in torn
         /\ \A q \in Exporters : q = p
         /\ HeadLines = {} /\ EntryLines = DOMAIN file
<1>1. /\ OneValueEach /\ jobs[p].dir \notin tainted /\ WrittenSoFar(p)
      /\ jobs[p].dir \in torn <=> "file" \in torn
      /\ \A q \in Exporters : q = p
  BY DEF IInv, ExportInv, Exporters, Runs
<1>2. EntryLines = DOMAIN file
  BY <1>1 DEF WrittenSoFar, EntryLines
<1>3. HeadLines = {}
  BY <1>2 DEF HeadLines, EntryLines
<1> QED BY <1>1, <1>2, <1>3

\* A line more at the end of the file: what replays and imports know stays true.
LEMMA LineKeeps ==
  ASSUME IInv, NEW p \in Procs, jobs[p].cmd = "export", NEW l \in Lines, file' = Append(file, l),
         \A q \in Procs : jobs'[q].cmd \in {"replay", "import"} => jobs'[q] = jobs[q],
         UNCHANGED <<db, sidecar, tainted, torn, loading, recorded>>
  PROVE  ReplayFollows' /\ LoadingInv' /\ ImportInv'
<1> USE DEF IInv
<1>1. /\ Len(file) \in Nat /\ DOMAIN file = 1..Len(file) /\ Len(file') = Len(file) + 1
      /\ \A i \in 1..Len(file) : file'[i] = file[i]
  BY FileTyped, OneLineMore
<1>2. /\ EntryLines \subseteq EntryLines' /\ EntryLines \subseteq 1..Len(file)
      /\ EntryLines' \subseteq EntryLines \cup {Len(file) + 1}
  BY <1>1, EntriesMore DEF EntryLines
<1>3. ReplayFollows'
  BY ReplayStands DEF Runs
<1>4. ASSUME NEW d \in Dirs, NEW n \in Nat, n <= Len(file), LinesIn(d, n)
      PROVE  \A i \in EntryLines' : i <= n => db'[d].rows[file'[i].row] = file'[i].value
  BY <1>1, <1>2, <1>4 DEF LinesIn
<1>5. LoadingInv'
  <2> SUFFICES ASSUME NEW d \in Dirs, d \notin tainted, loading[d] = "same"
               PROVE  /\ "file" \notin tainted /\ db[d].head = None /\ FromFile(d)'
                      /\ recorded = d => sidecar <= Len(file') /\ LinesIn(d, sidecar)'
    BY DEF LoadingInv
  <2>1. /\ "file" \notin tainted /\ db[d].head = None /\ FromFile(d)
        /\ recorded = d => sidecar <= Len(file) /\ LinesIn(d, sidecar)
    BY DEF LoadingInv
  <2>2. FromFile(d)'
    BY <1>1, <1>2, <2>1 DEF FromFile
  <2>3. sidecar \in Nat
    BY DEF TypeOK
  <2>4. ASSUME recorded = d PROVE sidecar <= Len(file') /\ LinesIn(d, sidecar)'
    <3>1. sidecar <= Len(file) /\ LinesIn(d, sidecar)
      BY <2>1, <2>4
    <3>2. \A i \in EntryLines' : i <= sidecar => db'[d].rows[file'[i].row] = file'[i].value
      BY <1>4, <2>3, <3>1
    <3>3. sidecar' = sidecar
      OBVIOUS
    <3>4. LinesIn(d, sidecar)'
      BY <3>2, <3>3 DEF LinesIn
    <3> QED BY <1>1, <2>3, <3>1, <3>4
  <2> QED BY <2>1, <2>2, <2>4
<1>6. ImportInv'
  <2> SUFFICES ASSUME NEW q \in Procs, jobs'[q].cmd = "import", jobs'[q].step # "cleanup",
                      jobs'[q].dir \notin tainted
               PROVE  /\ loading[jobs'[q].dir] = "same"
                      /\ jobs'[q].at <= Len(file') /\ LinesIn(jobs[q].dir, jobs[q].at)'
                      /\ jobs'[q].skip <= Len(file') /\ LinesIn(jobs[q].dir, jobs[q].skip)'
                      /\ jobs'[q].meta = None
    BY DEF ImportInv, Runs
  <2>1. jobs'[q] = jobs[q] /\ jobs[q].dir \in Dirs
    BY JobHasDir
  <2>2. /\ loading[jobs[q].dir] = "same"
        /\ jobs[q].at <= Len(file) /\ LinesIn(jobs[q].dir, jobs[q].at)
        /\ jobs[q].skip <= Len(file) /\ LinesIn(jobs[q].dir, jobs[q].skip)
        /\ jobs[q].meta # None => Len(file) \in HeadLines
    BY <2>1 DEF ImportInv, Runs
  <2>3. "file" \notin tainted
    BY <2>1, <2>2 DEF LoadingInv
  <2>4. jobs[q].meta = None
    BY <2>2, <2>3, ExporterKnows
  <2>5. jobs[q].at \in Nat /\ jobs[q].skip \in Nat
    BY JobTyped
  <2>6. LinesIn(jobs[q].dir, jobs[q].at)' /\ LinesIn(jobs[q].dir, jobs[q].skip)'
    BY ZenonT(30), <1>4, <2>1, <2>2, <2>5 DEF LinesIn
  <2> QED BY <1>1, <2>1, <2>2, <2>4, <2>5, <2>6
<1> QED BY <1>3, <1>5, <1>6

LEMMA ExportRowKeeps ==
  ASSUME IInv, NEW p \in Procs, ExportRow(p)
  PROVE  IInv'
<1> DEFINE d == jobs[p].dir
           n == jobs[p].at
           rows == db[d].rows
           r == Order[n + 1]
           line == [kind |-> "entry", row |-> r, value |-> rows[r]]
           job == [jobs[p] EXCEPT !.at = n + 1]
<1> USE DEF IInv
<1>1. /\ jobs[p].cmd = "export" /\ n < Len(Order) /\ n \in Nat
      /\ file' = IF rows[r] = None THEN file ELSE Append(file, line)
      /\ jobs' = [jobs EXCEPT ![p] = job]
      /\ UNCHANGED <<db, sidecar, commands, tainted, torn, loading, recorded>>
  BY JobTyped DEF ExportRow, Runs, history
<1>2. d \in Dirs
  BY <1>1, Alone
<1>3. r \in Rows
  BY <1>1, OrderListsRows
<1>4. rows \in [Rows -> Values \cup {None}]
  BY <1>2 DEF TypeOK
<1>5. rows[r] # None => line \in Lines /\ line.row = r /\ line.value = rows[r] /\ line.kind = "entry"
  BY <1>3, <1>4 DEF Lines
<1>6. /\ job \in Jobs /\ job.cmd = "export" /\ job.dir = d /\ job.at = n + 1
  <2>1. jobs[p] \in Jobs /\ n + 1 \in Nat /\ jobs[p].cmd = "export" /\ jobs[p].dir = d
    BY <1>1 DEF TypeOK
  <2>2. job = [jobs[p] EXCEPT !.at = n + 1]
    OBVIOUS
  <2> HIDE DEF job, n, d
  <2> QED BY <2>1, <2>2, JobMoves
<1>7. r = Order[n + 1] /\ rows = db[d].rows
  OBVIOUS
<1> HIDE DEF job, n, line, rows, r
<1>8. /\ jobs' \in [Procs -> Jobs]
      /\ \A q \in Procs : Runs(q, "none")' => jobs'[q] = NoJob
      /\ \A q \in Procs : jobs'[q] = IF q = p THEN job ELSE jobs[q]
      /\ Exclusive'
  BY <1>1, <1>6, WorkTyped
<1>10. TypeOK'
  <2>1. file' \in Seq(Lines)
    BY <1>1, <1>5, OneLineMore DEF TypeOK
  <2> QED BY <1>1, <1>8, <2>1 DEF TypeOK
<1>11. HeadTellsRows'
  BY <1>1, RowsStand
<1>12. \A q \in Procs : jobs'[q].cmd \in {"replay", "import"} => jobs'[q] = jobs[q]
  BY <1>6, <1>8
<1>13. ReplayFollows' /\ LoadingInv' /\ ImportInv'
  <2>1. CASE rows[r] = None
    BY <2>1, <1>1, <1>12, ReplayStands, LoadingStands, ImportStands DEF Runs
  <2>2. CASE rows[r] # None
    BY <2>2, <1>1, <1>5, <1>12, LineKeeps
  <2> QED BY <2>1, <2>2
<1>14. ASSUME "file" \notin tainted
       PROVE  /\ \A i \in DOMAIN file' : i \in EntryLines' /\ file'[i].value = rows[file'[i].row]
              /\ \A k \in 1..n : rows[Order[k]] # None => \E i \in EntryLines' : file'[i].row = Order[k]
              /\ rows[r] # None => \E i \in EntryLines' : file'[i].row = r
              /\ HeadLines' = {} /\ jobs[p].dir \notin tainted /\ \A q \in Exporters : q = p
              /\ jobs[p].dir \in torn <=> "file" \in torn
  <2>1. /\ \A i \in DOMAIN file : i \in EntryLines /\ file[i].value = rows[file[i].row]
        /\ \A k \in 1..n : rows[Order[k]] # None => \E i \in EntryLines : file[i].row = Order[k]
        /\ HeadLines = {} /\ jobs[p].dir \notin tainted /\ \A q \in Exporters : q = p
        /\ jobs[p].dir \in torn <=> "file" \in torn
    BY <1>1, <1>14, ExporterKnows DEF WrittenSoFar, rows, n
  <2>2. CASE rows[r] = None
    <3>1. EntryLines' = EntryLines /\ HeadLines' = HeadLines /\ file' = file
      BY <2>2, <1>1 DEF EntryLines, HeadLines
    <3> QED BY <2>1, <2>2, <3>1
  <2>3. CASE rows[r] # None
    <3>1. line \in Lines /\ file' = Append(file, line)
      BY <2>3, <1>1, <1>5
    <3>2. /\ Len(file) \in Nat /\ DOMAIN file = 1..Len(file)
          /\ DOMAIN file' = 1..(Len(file) + 1)
          /\ \A i \in 1..Len(file) : file'[i] = file[i]
          /\ file'[Len(file) + 1] = line
      BY <3>1, FileTyped, OneLineMore
    <3>3. /\ EntryLines \subseteq EntryLines' /\ Len(file) + 1 \in EntryLines'
          /\ HeadLines' \subseteq {Len(file) + 1} /\ Len(file) + 1 \notin HeadLines'
      BY <2>1, <2>3, <1>5, <3>1, EntriesMore
    <3>4. \A i \in DOMAIN file' : i \in 1..Len(file) \/ i = Len(file) + 1
      BY <3>2
    <3>5. \A i \in EntryLines : i \in 1..Len(file)
      BY <3>2 DEF EntryLines
    <3>6. \A i \in DOMAIN file' : i \in EntryLines' /\ file'[i].value = rows[file'[i].row]
      BY <1>5, <2>1, <2>3, <3>2, <3>3, <3>4
    <3>7. \A k \in 1..n : rows[Order[k]] # None => \E i \in EntryLines' : file'[i].row = Order[k]
      BY <2>1, <3>2, <3>3, <3>5
    <3>8. \E i \in EntryLines' : file'[i].row = r
      BY <1>5, <2>3, <3>2, <3>3
    <3> QED BY <2>1, <3>3, <3>6, <3>7, <3>8
  <2> QED BY <2>2, <2>3
<1>15. ExportOfOneState'
  BY <1>1, <1>14 DEF ExportOfOneState
<1>16. ExportInv'
  <2> SUFFICES ASSUME "file" \notin tainted
               PROVE  /\ OneValueEach'
                      /\ \A q \in Exporters' : jobs'[q].dir \notin tainted /\ WrittenSoFar(q)'
                                               /\ (jobs'[q].dir \in torn <=> "file" \in torn)
                      /\ \A q, u \in Exporters' : q = u
    BY <1>1 DEF ExportInv
  <2>1. OneValueEach'
    BY <1>14 DEF OneValueEach, EntryLines
  <2>2. \A q \in Exporters' : q = p
    BY <1>8, <1>14 DEF Exporters, Runs
  <2>3. jobs'[p] = job /\ db'[d].rows = rows
    BY <1>1, <1>7, <1>8
  <2>4. \A k \in 1..(n + 1) : k \in 1..n \/ (k = n + 1 /\ Order[k] = r)
    BY <1>1, <1>7
  <2>5. \A k \in 1..(n + 1) : rows[Order[k]] # None => \E i \in EntryLines' : file'[i].row = Order[k]
    BY <1>14, <2>4
  <2>6. WrittenSoFar(p)'
    BY <1>6, <1>14, <2>3, <2>5 DEF WrittenSoFar
  <2>7. jobs'[p].dir \in torn <=> "file" \in torn
    BY <1>6, <1>14, <2>3
  <2> QED BY <1>6, <1>14, <2>1, <2>2, <2>3, <2>6, <2>7
<1> QED BY <1>8, <1>10, <1>11, <1>13, <1>15, <1>16

\* The head comes last, after every row: the file then holds the rows of the head.
LEMMA ExportHeadKeeps ==
  ASSUME IInv, NEW p \in Procs, ExportHead(p)
  PROVE  IInv'
<1> DEFINE d == jobs[p].dir
           rows == db[d].rows
           head == db[d].head
           line == [kind |-> "metadata", head |-> head]
<1> USE DEF IInv
<1>1. /\ jobs[p].cmd = "export" /\ jobs[p].at = Len(Order) /\ End(p)
      /\ file' = IF head = None THEN file ELSE Append(file, line)
      /\ UNCHANGED <<db, sidecar, commands, tainted, torn, loading, recorded>>
  BY DEF ExportHead, Runs, history
<1>2. CASE head = None
  BY <1>1, <1>2, EndKeeps
<1>3. CASE head # None
  <2>1. d \in Dirs /\ head \in 0..Blocks
    <3>1. d \in Dirs
      BY <1>1, Alone
    <3> QED BY <1>3, <3>1 DEF TypeOK
  <2>2. line \in Lines /\ line.kind = "metadata" /\ line.head = head
    BY <2>1 DEF Lines
  <2>3. file' = Append(file, line)
    BY <1>1, <1>3
  <2>4. rows \in [Rows -> Values \cup {None}] /\ rows = db[d].rows
    BY <2>1 DEF TypeOK
  <2> HIDE DEF line, rows
  <2>5. /\ jobs' \in [Procs -> Jobs]
        /\ \A q \in Procs : jobs'[q] = IF q = p THEN NoJob ELSE jobs[q]
    BY <1>1 DEF End, TypeOK, NoJob, Jobs, Tasks, Steps
  <2>6. TypeOK' /\ Exclusive'
    <3>1. file' \in Seq(Lines)
      BY <2>2, <2>3, OneLineMore
    <3> QED BY <1>1, <2>5, <3>1, EndExclusive DEF TypeOK, Runs
  <2>7. HeadTellsRows'
    BY <1>1, RowsStand
  <2>8. ReplayFollows' /\ LoadingInv' /\ ImportInv'
    <3>1. \A q \in Procs : jobs'[q].cmd \in {"replay", "import"} => jobs'[q] = jobs[q]
      BY <2>5 DEF NoJob
    <3> QED BY <1>1, <2>2, <2>3, <3>1, LineKeeps
  <2>9. /\ Len(file) \in Nat /\ DOMAIN file = 1..Len(file) /\ Len(file') = Len(file) + 1
        /\ \A i \in 1..Len(file) : file'[i] = file[i]
        /\ file'[Len(file) + 1] = line
    BY <2>2, <2>3, FileTyped, OneLineMore
  <2>10. ASSUME "file" \notin tainted
         PROVE  /\ EntryLines' = EntryLines /\ EntryLines = 1..Len(file)
                /\ HeadLines' \subseteq {Len(file) + 1}
                /\ \A i \in EntryLines : file[i].row \in Rows /\ file[i].value = rows[file[i].row]
                                         /\ file[i].value \in Values
                /\ \A k \in 1..Len(Order) : rows[Order[k]] # None =>
                     \E i \in EntryLines : file[i].row = Order[k]
                /\ rows = RowsOf(head, "file" \in torn) /\ \A q \in Exporters : q = p
    <3>1. /\ WrittenSoFar(p) /\ d \notin tainted /\ HeadLines = {} /\ EntryLines = DOMAIN file
          /\ (d \in torn <=> "file" \in torn) /\ \A q \in Exporters : q = p
      BY <1>1, <2>10, ExporterKnows
    <3>2. /\ EntryLines \subseteq EntryLines' /\ EntryLines' \subseteq EntryLines \cup {Len(file) + 1}
          /\ HeadLines' \subseteq HeadLines \cup {Len(file) + 1} /\ Len(file) + 1 \notin EntryLines'
      BY <2>2, <2>3, EntriesMore
    <3>3. rows = RowsOf(head, "file" \in torn)
      <4>1. rows = RowsOf(head, d \in torn)
        BY <1>3, <2>1, <2>4, <3>1 DEF HeadTellsRows
      <4> QED BY <3>1, <4>1 DEF RowsOf
    <3>4. \A i \in EntryLines : file[i].row \in Rows /\ file[i].value \in Values
      BY FileTyped, LineTyped DEF EntryLines
    <3>5. /\ \A i \in EntryLines : file[i].value = rows[file[i].row]
          /\ \A k \in 1..Len(Order) : rows[Order[k]] # None =>
               \E i \in EntryLines : file[i].row = Order[k]
      BY <1>1, <2>4, <3>1 DEF WrittenSoFar
    <3> QED BY <2>9, <3>1, <3>2, <3>3, <3>4, <3>5
  <2>11. ExportOfOneState'
    <3> SUFFICES ASSUME "file" \notin tainted, NEW i \in HeadLines'
                 PROVE  i = Len(file') /\ Holds(RowsOf(file[i].head, "file" \in torn))'
      BY <1>1 DEF ExportOfOneState
    <3>1. i = Len(file) + 1 /\ file'[i].head = head
      BY <2>2, <2>9, <2>10
    <3>2. ASSUME NEW r \in Rows
          PROVE  {file'[j].value : j \in {k \in EntryLines' : file'[k].row = r}}
                   = IF rows[r] = None THEN {} ELSE {rows[r]}
      <4>1. \A j \in EntryLines' : j \in EntryLines /\ file'[j] = file[j]
        BY <2>9, <2>10
      <4>2. \A j \in EntryLines' : file'[j].row = r =>
              file'[j].value = rows[r] /\ rows[r] \in Values
        BY <2>10, <4>1
      <4>3. CASE rows[r] = None
        <5>1. ~ \E j \in EntryLines' : file'[j].row = r
          BY <4>2, <4>3, NoneIsOther
        <5> QED BY <4>3, <5>1
      <4>4. CASE rows[r] # None
        <5>1. PICK k \in 1..Len(Order) : Order[k] = r
          BY OrderListsRows
        <5>2. PICK j \in EntryLines : file[j].row = r
          BY <2>10, <4>4, <5>1
        <5>3. j \in EntryLines' /\ file'[j].row = r
          BY <2>10, <4>1, <5>2
        <5> QED BY <4>2, <4>4, <5>3
      <4> QED BY <4>3, <4>4
    <3>3. Holds(RowsOf(file[i].head, "file" \in torn))'
      <4>1. RowsOf(file'[i].head, "file" \in torn') = rows
        BY <1>1, <2>10, <3>1 DEF RowsOf
      <4> QED BY <3>2, <4>1 DEF Holds
    <3> QED BY <2>9, <3>1, <3>3
  <2>12. ExportInv'
    <3> SUFFICES ASSUME "file" \notin tainted
                 PROVE  OneValueEach' /\ Exporters' = {}
      BY <1>1 DEF ExportInv
    <3>1. Exporters' = {}
      BY <2>5, <2>10 DEF Exporters, Runs, NoJob
    <3>2. OneValueEach'
      BY <2>9, <2>10 DEF OneValueEach
    <3> QED BY <3>1, <3>2
  <2> QED BY <2>6, <2>7, <2>8, <2>11, <2>12
<1> QED BY <1>2, <1>3

LEMMA StopKeeps ==
  ASSUME IInv, NEW p \in Procs, Stop(p)
  PROVE  IInv'
<1> DEFINE line == [kind |-> "cut"]
<1> USE DEF IInv
<1>1. /\ End(p) /\ UNCHANGED <<db, commands, tainted, torn, loading, recorded>>
      /\ file' = file \/ (jobs[p].cmd = "export" /\ file' = Append(file, line))
      /\ sidecar' \in {0, sidecar}
      /\ jobs[p].cmd = "export" => sidecar' = sidecar
  BY DEF Stop, Runs, Doing, history
<1>2. CASE file' = file
  BY <1>1, <1>2, EndKeeps
<1>3. CASE jobs[p].cmd = "export" /\ file' = Append(file, line)
  <2>1. line \in Lines /\ line.kind = "cut"
    BY DEF Lines
  <2>2. file' = Append(file, line) /\ jobs[p].cmd = "export" /\ sidecar' = sidecar
    BY <1>1, <1>3
  <2> HIDE DEF line
  <2>3. /\ jobs' \in [Procs -> Jobs]
        /\ \A q \in Procs : jobs'[q] = IF q = p THEN NoJob ELSE jobs[q]
    BY <1>1 DEF End, TypeOK, NoJob, Jobs, Tasks, Steps
  <2>4. TypeOK' /\ Exclusive'
    <3>1. file' \in Seq(Lines)
      BY <2>1, <2>2, OneLineMore
    <3> QED BY <1>1, <2>2, <2>3, <3>1, EndExclusive DEF TypeOK, Runs
  <2>5. HeadTellsRows'
    BY <1>1, RowsStand
  <2>6. ReplayFollows' /\ LoadingInv' /\ ImportInv'
    <3>1. \A q \in Procs : jobs'[q].cmd \in {"replay", "import"} => jobs'[q] = jobs[q]
      BY <2>3 DEF NoJob
    <3> QED BY <1>1, <2>1, <2>2, <3>1, LineKeeps
  <2>7. ASSUME "file" \notin tainted
        PROVE  /\ HeadLines' = {} /\ EntryLines' = EntryLines /\ OneValueEach
               /\ \A i \in EntryLines : file'[i] = file[i]
               /\ \A q \in Exporters : q = p
    <3>1. HeadLines = {} /\ OneValueEach /\ \A q \in Exporters : q = p
      BY <2>2, <2>7, ExporterKnows
    <3>2. /\ EntryLines \subseteq EntryLines' /\ EntryLines' \subseteq EntryLines \cup {Len(file) + 1}
          /\ HeadLines' \subseteq HeadLines \cup {Len(file) + 1}
          /\ Len(file) + 1 \notin EntryLines' /\ Len(file) + 1 \notin HeadLines'
      BY <2>1, <2>2, EntriesMore
    <3>3. \A i \in EntryLines : file'[i] = file[i]
      BY <2>1, <2>2, FileTyped, OneLineMore DEF EntryLines
    <3> QED BY <3>1, <3>2, <3>3
  <2>8. ExportOfOneState'
    BY <1>1, <2>7 DEF ExportOfOneState
  <2>9. ExportInv'
    <3> SUFFICES ASSUME "file" \notin tainted
                 PROVE  OneValueEach' /\ Exporters' = {}
      BY <1>1 DEF ExportInv
    <3>1. Exporters' = {}
      BY <2>3, <2>7 DEF Exporters, Runs, NoJob
    <3>2. OneValueEach'
      BY <2>7 DEF OneValueEach
    <3> QED BY <3>1, <3>2
  <2> QED BY <2>4, <2>5, <2>6, <2>8, <2>9
<1> QED BY <1>1, <1>2, <1>3

----------------------------------------------------------------------------
\* The theorems.

LEMMA InitHolds == Init => IInv
<1> SUFFICES ASSUME Init PROVE IInv
  OBVIOUS
<1>1. MaxCommands \in Nat
  BY DirsAreThere
<1>2. \A p \in Procs : jobs[p] = NoJob
  BY DEF Init
<1>3. file = <<>> /\ EntryLines = {} /\ HeadLines = {} /\ Exporters = {}
  BY <1>2 DEF Init, EntryLines, HeadLines, Exporters, Runs, NoJob
<1>4. \A d \in Dirs : db[d].head = None /\ loading[d] = None
  BY DEF Init
<1>5. TypeOK
  <2>1. db \in [Dirs -> [rows: [Rows -> Values \cup {None}], head: 0..Blocks \cup {None}]]
    BY DEF Init, EmptyRows
  <2>2. NoJob \in Jobs
    BY DEF NoJob, Jobs, Tasks, Steps
  <2> QED BY <1>1, <1>2, <2>1, <2>2 DEF Init, TypeOK
<1>6. Exclusive /\ ReplayFollows /\ ImportInv
  BY <1>2 DEF Exclusive, ReplayFollows, ImportInv, Runs, NoJob
<1>7. LoadingInv /\ HeadTellsRows
  BY <1>4, NoneIsOther DEF LoadingInv, HeadTellsRows
<1>8. ExportInv /\ ExportOfOneState
  BY <1>3 DEF ExportInv, ExportOfOneState, OneValueEach
<1> QED BY <1>5, <1>6, <1>7, <1>8 DEF IInv

LEMMA NextKeeps == IInv /\ [Next]_vars => IInv'
<1> SUFFICES ASSUME IInv, [Next]_vars PROVE IInv'
  OBVIOUS
<1>1. CASE UNCHANGED vars
  <2>1. UNCHANGED <<db, file, sidecar, jobs, commands, tainted, torn, loading, recorded>>
    BY <1>1 DEF vars, disk, history
  <2>2. TypeOK' /\ Exclusive'
    BY <2>1 DEF IInv, TypeOK, Exclusive, Runs
  <2>3. ReplayFollows' /\ ExportInv' /\ ImportInv'
    BY <2>1, ReplayStands, ExportStands, ImportStands DEF IInv
  <2>4. LoadingInv' /\ HeadTellsRows' /\ ExportOfOneState'
    BY <2>1, LoadingStands, RowsStand, FileStands DEF IInv
  <2> QED BY <2>2, <2>3, <2>4 DEF IInv
<1>2. ASSUME NEW args \in Cli, Genesis(args) PROVE IInv'
  BY <1>2, GenesisKeeps
<1>3. ASSUME NEW p \in Procs, Start(p) PROVE IInv'
  <2>1. PICK args \in Cli :
          \/ StartReplay(p, args) \/ StartImport(p, args) \/ StartExport(p, args)
          \/ Compact(p, args) \/ Validate(p, args) \/ Serve(p, args)
    BY <1>3 DEF Start
  <2>2. CASE Compact(p, args) \/ Validate(p, args)
    <3>1. Begin(p, Job("read", Dir(args))) /\ UNCHANGED <<disk, history>>
      BY <2>2 DEF Compact, Validate
    <3> QED BY <3>1, ReaderKeeps
  <2>3. CASE Serve(p, args)
    <3>1. Begin(p, Job("serve", Dir(args))) /\ UNCHANGED <<disk, history>>
      BY <2>3 DEF Serve
    <3> QED BY <3>1, ReaderKeeps
  <2>4. CASE StartReplay(p, args)
    BY <2>4, StartReplayKeeps
  <2>5. CASE StartImport(p, args)
    BY <2>5, StartImportKeeps
  <2>6. CASE StartExport(p, args)
    BY <2>6, StartExportKeeps
  <2> QED BY <2>1, <2>2, <2>3, <2>4, <2>5, <2>6
<1>4. ASSUME NEW p \in Procs, Work(p) PROVE IInv'
  <2>1. CASE SkipBlock(p) \/ ReplayBlock(p) \/ CommitOverlay(p) \/ CommitDiffs(p)
    BY <2>1, SkipBlockKeeps, ReplayBlockKeeps, CommitOverlayKeeps, CommitDiffsKeeps
  <2>2. CASE PassOver(p) \/ ImportEntry(p) \/ Record(p)
    BY <2>2, PassOverKeeps, ImportEntryKeeps, RecordKeeps
  <2>3. CASE ImportMetadata(p) \/ ImportHead(p) \/ Cleanup(p)
    BY <2>3, ImportMetadataKeeps, ImportHeadKeeps, CleanupKeeps
  <2>4. CASE ExportRow(p) \/ ExportHead(p)
    BY <2>4, ExportRowKeeps, ExportHeadKeeps
  <2> QED BY <1>4, <2>1, <2>2, <2>3, <2>4 DEF Work
<1>5. ASSUME NEW p \in Procs, Stop(p) PROVE IInv'
  BY <1>5, StopKeeps
<1> QED BY <1>1, <1>2, <1>3, <1>4, <1>5 DEF Next

\* Between any two steps of any commands, run, killed and run again over any databases
\* and one file, the inductive invariant holds (main.rs, snapshot lib.rs).
THEOREM Invariance == Spec => []IInv
BY InitHolds, NextKeeps, PTL DEF Spec

\* Types, and an idle process has nothing in hand.
THEOREM Typing == Spec => []TypeOK
<1>1. IInv => TypeOK
  BY DEF IInv
<1> QED BY <1>1, Invariance, PTL

\* A database with a head that was put to none of the unchecked uses holds the
\* network's state after its head block.
THEOREM HeadIsOfItsRows == Spec => []HeadTellsRows
<1>1. IInv => HeadTellsRows
  BY DEF IInv
<1> QED BY <1>1, Invariance, PTL

\* A snapshot file that names a head, written from such a database by one export at a
\* time, holds the rows of that head and no other.
THEOREM SnapshotIsOfItsHead == Spec => []ExportOfOneState
<1>1. IInv => ExportOfOneState
  BY DEF IInv
<1> QED BY <1>1, Invariance, PTL

=============================================================================
