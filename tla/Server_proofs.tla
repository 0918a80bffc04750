---------------------------- MODULE Server_proofs ----------------------------
(***************************************************************************)
(* Proofs about the HTTP server beside the other commands, for any number  *)
(* of processes, directories and connections: a server never sees its      *)
(* database change, and what it answers is of one state.                   *)
(***************************************************************************)
EXTENDS Server, Commands_proofs

----------------------------------------------------------------------------
\* What a step of a command does to a server: it starts it, ends it, or leaves it and
\* its database alone.

LEMMA ServerStands ==
  ASSUME IInv, Next, NEW s \in Procs
  PROVE  /\ Runs(s, "serve") => jobs'[s] = NoJob \/ jobs'[s] = jobs[s]
         /\ Runs(s, "serve")' => \/ jobs[s] = NoJob /\ db' = db
                                 \/ jobs[s] # NoJob /\ jobs'[s] = jobs[s]
                                      /\ db'[jobs[s].dir] = db[jobs[s].dir]
<1> DEFINE Goal == /\ jobs[s].cmd = "serve" => jobs'[s] = NoJob \/ jobs'[s] = jobs[s]
                   /\ jobs'[s].cmd = "serve" => \/ jobs[s] = NoJob /\ db' = db
                                                \/ jobs[s] # NoJob /\ jobs'[s] = jobs[s]
                                                     /\ db'[jobs[s].dir] = db[jobs[s].dir]
<1>1. /\ jobs \in [Procs -> Jobs] /\ db \in [Dirs -> [rows: [Rows -> Values \cup {None}], head: 0..Blocks \cup {None}]]
      /\ TypeOK /\ Exclusive
  BY DEF IInv, TypeOK
<1>2. jobs[s].cmd # "none" => jobs[s].dir \in Dirs /\ jobs[s] # NoJob
  BY <1>1, JobHasDir DEF NoJob
\* A step that begins, ends or works on a job of its own, and writes its database only.
<1>3. ASSUME NEW args \in Cli, Genesis(args) PROVE Goal
  <2>1. /\ jobs' = jobs /\ jobs[s].dir # Dir(args) /\ Dir(args) \in Dirs
        /\ \A d \in Dirs : d # Dir(args) => db'[d] = db[d]
    BY <1>1, <1>3, DirOfOptions DEF Genesis, Free
  <2> QED BY <1>2, <2>1
<1>4. ASSUME NEW p \in Procs, NEW job, Begin(p, job), db' = db PROVE Goal
  <2>1. jobs[p] = NoJob /\ \A q \in Procs : jobs'[q] = IF q = p THEN job ELSE jobs[q]
    BY <1>1, <1>4 DEF Begin
  <2>2. NoJob.cmd = "none"
    BY DEF NoJob
  <2> QED BY <1>2, <1>4, <2>1, <2>2
<1>5. ASSUME NEW p \in Procs, End(p), db' = db PROVE Goal
  <2>1. \A q \in Procs : jobs'[q] = IF q = p THEN NoJob ELSE jobs[q]
    BY <1>1, <1>5 DEF End
  <2>2. NoJob.cmd = "none"
    BY DEF NoJob
  <2>3. jobs'[s].cmd = "serve" => s # p /\ jobs'[s] = jobs[s]
    BY <2>1, <2>2
  <2> QED BY <1>2, <1>5, <2>1, <2>3
<1>6. ASSUME NEW p \in Procs, jobs[p].cmd \in {"replay", "import", "export"},
             jobs'[p].cmd = jobs[p].cmd, \A q \in Procs : q # p => jobs'[q] = jobs[q],
             \A d \in Dirs : d # jobs[p].dir => db'[d] = db[d]
      PROVE  Goal
  <2>1. jobs[s].cmd = "serve" \/ jobs'[s].cmd = "serve" => s # p /\ jobs'[s] = jobs[s]
    BY <1>6
  <2>2. s # p => jobs[s].dir # jobs[p].dir \/ jobs[s].dir = None
    BY <1>1 DEF Exclusive
  <2>3. None \notin Dirs
    BY NoneIsOther
  <2> QED BY <1>2, <1>6, <2>1, <2>2, <2>3
<1> HIDE DEF Goal
<1>7. ASSUME NEW p \in Procs, Start(p) PROVE Goal
  <2>1. PICK args \in Cli :
          \/ StartReplay(p, args) \/ StartImport(p, args) \/ StartExport(p, args)
          \/ Compact(p, args) \/ Validate(p, args) \/ Serve(p, args)
    BY <1>7 DEF Start
  <2>2. db' = db
    BY <2>1 DEF StartReplay, StartImport, StartExport, Compact, Validate, Serve, disk
  <2>3. \E job : Begin(p, job)
    BY <2>1 DEF StartReplay, StartImport, StartExport, Compact, Validate, Serve
  <2> QED BY <1>4, <2>2, <2>3
<1>8. ASSUME NEW p \in Procs, Work(p) PROVE Goal
  <2> DEFINE Own == /\ jobs[p].cmd \in {"replay", "import", "export"}
                    /\ jobs'[p].cmd = jobs[p].cmd /\ \A q \in Procs : q # p => jobs'[q] = jobs[q]
                    /\ \A d \in Dirs : d # jobs[p].dir => db'[d] = db[d]
  <2>1. CASE SkipBlock(p) \/ ReplayBlock(p) \/ CommitOverlay(p) \/ CommitDiffs(p)
    <3>1. jobs[p].cmd = "replay"
      BY <2>1 DEF SkipBlock, ReplayBlock, CommitOverlay, CommitDiffs, Replaying, Doing
    <3>2. jobs'[p].cmd = jobs[p].cmd /\ \A q \in Procs : q # p => jobs'[q] = jobs[q]
      BY <1>1, <2>1 DEF SkipBlock, ReplayBlock, CommitOverlay, CommitDiffs, Jobs
    <3>3. \A d \in Dirs : d # jobs[p].dir => db'[d] = db[d]
      BY <1>1, <2>1 DEF SkipBlock, ReplayBlock, CommitOverlay, CommitDiffs, disk
    <3> QED BY <1>6, <3>1, <3>2, <3>3
  <2>2. CASE PassOver(p) \/ ImportMetadata(p) \/ Record(p)
    <3>1. jobs[p].cmd = "import" /\ db' = db
      BY <2>2 DEF PassOver, ImportMetadata, Record, MoreLines, Importing, Doing, disk
    <3>2. jobs'[p].cmd = jobs[p].cmd /\ \A q \in Procs : q # p => jobs'[q] = jobs[q]
      BY <1>1, <2>2 DEF PassOver, ImportMetadata, Record, Jobs
    <3> QED BY <1>6, <3>1, <3>2
  <2>3. CASE ImportEntry(p) \/ ImportHead(p)
    <3>1. jobs[p].cmd = "import"
      BY <2>3 DEF ImportEntry, ImportHead, MoreLines, Importing, Doing
    <3>2. jobs'[p].cmd = jobs[p].cmd /\ \A q \in Procs : q # p => jobs'[q] = jobs[q]
      BY <1>1, <2>3 DEF ImportEntry, ImportHead, Jobs
    <3>3. \A d \in Dirs : d # jobs[p].dir => db'[d] = db[d]
      BY <1>1, <2>3 DEF ImportEntry, ImportHead
    <3> QED BY <1>6, <3>1, <3>2, <3>3
  <2>4. CASE ExportRow(p)
    <3>1. jobs[p].cmd = "export" /\ db' = db
      BY <2>4 DEF ExportRow, Runs
    <3>2. jobs'[p].cmd = jobs[p].cmd /\ \A q \in Procs : q # p => jobs'[q] = jobs[q]
      BY <1>1, <2>4 DEF ExportRow, Jobs
    <3> QED BY <1>6, <3>1, <3>2
  <2>5. CASE Cleanup(p) \/ ExportHead(p)
    <3>1. End(p) /\ db' = db
      BY <2>5 DEF Cleanup, ExportHead
    <3> QED BY <1>5, <3>1
  <2> QED BY <1>8, <2>1, <2>2, <2>3, <2>4, <2>5 DEF Work
<1>9. ASSUME NEW p \in Procs, Stop(p) PROVE Goal
  <2>1. End(p) /\ db' = db
    BY <1>9 DEF Stop
  <2> QED BY <1>5, <2>1
<1>10. Goal
  BY <1>3, <1>7, <1>8, <1>9 DEF Next
<1> QED BY <1>10 DEF Goal, Runs
----------------------------------------------------------------------------
\* The record of a connection.

LEMMA ConnectionTyped ==
  ASSUME ServerTypeOK, NEW c \in Conns
  PROVE  LET k == conns[c]
         IN  /\ k = [server |-> k.server, form |-> k.form, asked |-> k.asked, done |-> k.done,
                     account |-> k.account]
             /\ k.server \in Procs \cup {None} /\ k.form \in Forms /\ k.asked \in Seq(Questions)
             /\ k.done \in Seq(Answers) /\ k.account \in Values \cup {None}
<1>1. conns[c] \in Connections
  BY DEF ServerTypeOK
<1> QED BY <1>1 DEF Connections

LEMMA InHandTyped ==
  ASSUME ServerTypeOK, InTurn, NEW c \in Conns, Busy(c)
  PROVE  /\ Len(conns[c].done) + 1 \in DOMAIN conns[c].asked
         /\ Len(conns[c].done) \in Nat /\ Len(conns[c].asked) \in Nat
         /\ InHand(c).id \in Nat /\ InHand(c).query \in Queries
         /\ conns[c].server \in Procs /\ Runs(conns[c].server, "serve")
<1>1. /\ conns[c].asked \in Seq(Questions) /\ conns[c].done \in Seq(Answers)
      /\ conns[c].server \in Procs \cup {None}
  BY ConnectionTyped
<1>2. /\ Len(conns[c].done) + 1 \in DOMAIN conns[c].asked
      /\ Len(conns[c].done) \in Nat /\ Len(conns[c].asked) \in Nat
  BY <1>1 DEF Busy
<1>3. InHand(c) \in Questions
  BY <1>1, <1>2 DEF InHand
<1>4. conns[c] # NoConnection
  BY <1>2 DEF Busy, NoConnection
<1>5. Runs(conns[c].server, "serve")
  BY <1>4 DEF ServerTypeOK
<1>6. conns[c].server \in Procs
  BY <1>4 DEF ServerTypeOK
<1> QED BY <1>2, <1>3, <1>5, <1>6 DEF Questions

Outcomes == [status: {"ok", "not found", "bad request", "error"}, value: Values \cup {None}]

LEMMA OutcomesTyped ==
  /\ \A value \in Values \cup {None} : Found(value) \in Outcomes
  /\ \A status \in {"not found", "bad request", "error"} : Failure(status) \in Outcomes
  /\ \A outcome \in Outcomes : outcome = [status |-> outcome.status, value |-> outcome.value]
<1>1. \A status \in {"not found", "bad request", "error"} : Failure(status) \in Outcomes
  BY DEF Failure, Outcomes
<1>2. \A value \in Values \cup {None} : Found(value) \in Outcomes
  BY <1>1 DEF Found, Outcomes
<1>3. \A outcome \in Outcomes : outcome = [status |-> outcome.status, value |-> outcome.value]
  <2> DEFINE Statuses == {"ok", "not found", "bad request", "error"}
             Given == Values \cup {None}
  <2>1. Outcomes = [status: Statuses, value: Given]
    BY DEF Outcomes
  <2> HIDE DEF Statuses, Given
  <2> QED BY <2>1
<1> QED BY <1>1, <1>2, <1>3

LEMMA ReplyGives ==
  ASSUME ServerTypeOK, InTurn, NEW c \in Conns, Busy(c), NEW id \in Nat \cup {None}, 
         NEW outcome \in Outcomes, Reply(c, id, outcome)
  PROVE  /\ conns' \in [Conns -> Connections]
         /\ \A e \in Conns : e # c => conns'[e] = conns[e]
         /\ conns'[c].server = conns[c].server /\ conns'[c].form = conns[c].form
         /\ conns'[c].asked = conns[c].asked /\ conns'[c].account = None
         /\ conns'[c].done = Append(conns[c].done, [id |-> id, status |-> outcome.status,
                                                    value |-> outcome.value])
<1> DEFINE k == conns[c]
           answer == [id |-> id, status |-> outcome.status, value |-> outcome.value]
           done == Append(k.done, answer)
           mid == [k EXCEPT !.account = None]
           new == [mid EXCEPT !.done = done]
<1>1. conns' = [conns EXCEPT ![c] = new] /\ conns \in [Conns -> Connections]
  BY DEF Reply, ServerTypeOK
<1>2. /\ k = [server |-> k.server, form |-> k.form, asked |-> k.asked, done |-> k.done,
              account |-> k.account]
      /\ k.server \in Procs \cup {None} /\ k.form \in Forms /\ k.asked \in Seq(Questions)
      /\ k.done \in Seq(Answers) /\ k.account \in Values \cup {None}
  BY ConnectionTyped
<1>3. done \in Seq(Answers)
  <2>1. answer \in Answers
    BY DEF Answers, Outcomes
  <2> HIDE DEF answer
  <2> QED BY <1>2, <2>1
<1> HIDE DEF k, done, answer
<1>4. mid = [server |-> k.server, form |-> k.form, asked |-> k.asked, done |-> k.done,
             account |-> None]
  BY <1>2
<1> HIDE DEF mid
<1>5. new = [server |-> k.server, form |-> k.form, asked |-> k.asked, done |-> done,
             account |-> None]
  BY <1>4
<1> HIDE DEF new
<1>6. new \in Connections
  BY <1>2, <1>3, <1>5 DEF Connections
<1>7. conns' \in [Conns -> Connections] /\ \A e \in Conns : conns'[e] = IF e = c THEN new ELSE conns[e]
  BY <1>1, <1>6
<1> QED BY <1>5, <1>7 DEF k, done, answer

\* An answer that the open database gives, or a failure, keeps the invariant.
LEMMA AnswerKeeps ==
  ASSUME ServerInv, NEW c \in Conns, Busy(c), NEW id \in Nat \cup {None}, 
         NEW outcome \in Outcomes, Reply(c, id, outcome), UNCHANGED <<vars, opened>>,
         id = IF InHand(c).query = "garbled" THEN None ELSE InHand(c).id,
         [status |-> outcome.status, value |-> outcome.value]
            \in {Says(opened[conns[c].server], InHand(c).query), Failure("error")}
  PROVE  ServerInv'
<1> DEFINE answer == [id |-> id, status |-> outcome.status, value |-> outcome.value]
<1>1. ServerTypeOK /\ InTurn /\ OpenedStays /\ AnswersOfOneState
  BY DEF ServerInv
<1>2. UNCHANGED <<db, file, sidecar, jobs, commands, tainted, torn, loading, recorded, opened>>
  BY DEF vars, disk, history
<1>3. /\ conns' \in [Conns -> Connections]
      /\ \A e \in Conns : e # c => conns'[e] = conns[e]
      /\ conns'[c].server = conns[c].server /\ conns'[c].form = conns[c].form
      /\ conns'[c].asked = conns[c].asked /\ conns'[c].account = None
      /\ conns'[c].done = Append(conns[c].done, answer)
  BY <1>1, ReplyGives
<1> HIDE DEF answer
<1>4. /\ Len(conns[c].done) + 1 \in DOMAIN conns[c].asked
      /\ Len(conns[c].done) \in Nat /\ Len(conns[c].asked) \in Nat
      /\ conns[c].server \in Procs /\ Runs(conns[c].server, "serve")
  BY <1>1, InHandTyped
<1>5. conns[c].done \in Seq(Answers) /\ conns[c].asked \in Seq(Questions)
  BY <1>1, ConnectionTyped
<1>6. TypeOK'
  BY <1>1, <1>2 DEF ServerTypeOK, TypeOK, Runs
<1>7. ServerTypeOK'
  <2>1. \A e \in Conns : conns'[e] # NoConnection =>
          conns'[e].server \in Procs /\ Runs(conns[e].server, "serve")'
    <3> SUFFICES ASSUME NEW e \in Conns, conns'[e] # NoConnection
                 PROVE  conns'[e].server \in Procs /\ jobs[conns'[e].server].cmd = "serve"
      BY <1>2 DEF Runs
    <3>1. CASE e = c
      BY <1>3, <1>4, <3>1 DEF Runs
    <3>2. CASE e # c
      BY <1>1, <1>3, <3>2 DEF ServerTypeOK, Runs
    <3> QED BY <3>1, <3>2
  <2>2. ASSUME NEW e \in Conns, conns'[e].account # None
        PROVE  Busy(e)' /\ InHand(e).query' = "code"
    <3>1. e # c /\ conns'[e] = conns[e]
      BY <1>3, <2>2
    <3>2. Busy(e) /\ InHand(e).query = "code"
      BY <1>1, <2>2, <3>1 DEF ServerTypeOK
    <3> QED BY <3>1, <3>2 DEF Busy, InHand
  <2>3. \A e \in Conns : conns[e]'.account # None => Busy(e)' /\ InHand(e).query' = "code"
    BY <2>2
  <2> QED BY <1>3, <1>6, <2>1, <2>3 DEF ServerTypeOK
<1>8. OpenedStays'
  BY <1>1, <1>2 DEF OpenedStays, Runs
<1>9. InTurn'
  <2>1. Len(Append(conns[c].done, answer)) = Len(conns[c].done) + 1
    BY <1>5
  <2>2. Len(conns[c].done) + 1 <= Len(conns[c].asked)
    BY <1>4, <1>5
  <2> QED BY SMTT(30), <1>1, <1>2, <1>3, <2>1, <2>2 DEF InTurn
<1>10. AnswersOfOneState'
  <2> SUFFICES ASSUME NEW e \in Conns, NEW i \in DOMAIN conns'[e].done
               PROVE  /\ [status |-> conns'[e].done[i].status, value |-> conns'[e].done[i].value]
                           \in {Says(opened[conns'[e].server], conns'[e].asked[i].query),
                                Failure("error")}
                      /\ conns'[e].done[i].id =
                           IF conns'[e].asked[i].query = "garbled" THEN None
                           ELSE conns'[e].asked[i].id
    BY <1>2 DEF AnswersOfOneState
  <2>1. CASE e # c
    <3>1. conns'[e] = conns[e]
      BY <1>3, <2>1
    <3> QED BY <1>1, <3>1 DEF AnswersOfOneState
  <2>2. CASE e = c /\ i \in DOMAIN conns[c].done
    <3>1. conns'[c].done[i] = conns[c].done[i]
      BY <1>3, <1>5, <2>2
    <3> QED BY ZenonT(30), <1>1, <1>3, <2>2, <3>1 DEF AnswersOfOneState
  <2>3. CASE e = c /\ i \notin DOMAIN conns[c].done
    <3>1. i = Len(conns[c].done) + 1 /\ conns'[c].done[i] = answer
      BY <1>3, <1>5, <2>3
    <3>2. conns'[c].asked[i] = InHand(c)
      BY <1>3, <3>1 DEF InHand
    <3> QED BY <1>3, <2>3, <3>1, <3>2 DEF answer
  <2> QED BY <2>1, <2>2, <2>3
<1> QED BY <1>7, <1>8, <1>9, <1>10 DEF ServerInv

----------------------------------------------------------------------------
\* The steps of a connection.

\* What a connection reads is what its server found when it opened the database.
LEMMA ViewIsOpened ==
  ASSUME ServerInv, TypeOK, Exclusive, NEW c \in Conns, Busy(c)
  PROVE  /\ View(c) = opened[conns[c].server]
         /\ View(c).rows \in [Rows -> Values \cup {None}] /\ View(c).head \in Values \cup {None}
<1>1. conns[c].server \in Procs /\ Runs(conns[c].server, "serve")
  BY InHandTyped DEF ServerInv
<1>2. jobs[conns[c].server].dir \in Dirs
  BY <1>1, JobHasDir DEF Runs
<1>3. View(c) \in [rows: [Rows -> Values \cup {None}], head: 0..Blocks \cup {None}]
  BY <1>2 DEF View, TypeOK
<1> QED BY <1>1, <1>3 DEF View, ServerInv, OpenedStays, Values

\* A connection that moves without an answer, opens or closes.
LEMMA MoveKeeps ==
  ASSUME ServerInv, NEW c \in Conns, NEW new \in Connections, conns' = [conns EXCEPT ![c] = new],
         UNCHANGED <<vars, opened>>,
         new # NoConnection => new.server \in Procs /\ Runs(new.server, "serve"),
         Len(new.done) <= Len(new.asked),
         new.account # None => /\ Len(new.done) < Len(new.asked)
                               /\ new.asked[Len(new.done) + 1].query = "code"
                               /\ new.account = opened[new.server].rows["account"],
         new.done = <<>> \/ (/\ new.done = conns[c].done /\ new.server = conns[c].server
                             /\ \A i \in DOMAIN new.done : new.asked[i] = conns[c].asked[i])
  PROVE  ServerInv'
<1>1. ServerTypeOK /\ InTurn /\ OpenedStays /\ AnswersOfOneState
  BY DEF ServerInv
<1>2. UNCHANGED <<db, file, sidecar, jobs, commands, tainted, torn, loading, recorded, opened>>
  BY DEF vars, disk, history
<1>3. conns' \in [Conns -> Connections] /\ \A e \in Conns : conns'[e] = IF e = c THEN new ELSE conns[e]
  BY <1>1 DEF ServerTypeOK
<1>4. TypeOK'
  BY <1>1, <1>2 DEF ServerTypeOK, TypeOK, Runs
<1>5. ServerTypeOK'
  <2>1. ASSUME NEW e \in Conns, conns'[e] # NoConnection
        PROVE  conns'[e].server \in Procs /\ jobs[conns'[e].server].cmd = "serve"
    BY <1>1, <1>3, <2>1 DEF ServerTypeOK, Runs
  <2>2. ASSUME NEW e \in Conns, conns'[e].account # None
        PROVE  /\ Len(conns'[e].done) < Len(conns'[e].asked)
               /\ conns'[e].asked[Len(conns'[e].done) + 1].query = "code"
    BY <1>1, <1>3, <2>2 DEF ServerTypeOK, Busy, InHand
  <2> QED BY <1>2, <1>3, <1>4, <2>1, <2>2 DEF ServerTypeOK, Runs, Busy, InHand
<1>6. OpenedStays'
  BY <1>1, <1>2 DEF OpenedStays, Runs
<1>7. InTurn'
  BY <1>1, <1>2, <1>3 DEF InTurn
<1>8. AnswersOfOneState'
  <2> SUFFICES ASSUME NEW e \in Conns, NEW i \in DOMAIN conns'[e].done
               PROVE  /\ [status |-> conns'[e].done[i].status, value |-> conns'[e].done[i].value]
                           \in {Says(opened[conns'[e].server], conns'[e].asked[i].query),
                                Failure("error")}
                      /\ conns'[e].done[i].id =
                           IF conns'[e].asked[i].query = "garbled" THEN None
                           ELSE conns'[e].asked[i].id
    BY <1>2 DEF AnswersOfOneState
  <2>1. /\ conns'[e].done = conns[e].done /\ conns'[e].server = conns[e].server
        /\ conns'[e].asked[i] = conns[e].asked[i]
    BY <1>3
  <2> QED BY SMTT(30), <1>1, <2>1 DEF AnswersOfOneState
<1> QED BY <1>5, <1>6, <1>7, <1>8 DEF ServerInv

LEMMA CloseKeeps ==
  ASSUME ServerInv, NEW c \in Conns, conns' = [conns EXCEPT ![c] = NoConnection],
         UNCHANGED <<vars, opened>>
  PROVE  ServerInv'
<1>1. /\ NoConnection \in Connections /\ NoConnection.done = <<>> /\ NoConnection.asked = <<>>
      /\ NoConnection.account = None
  BY DEF NoConnection, Connections, Forms
<1>2. Len(NoConnection.done) <= Len(NoConnection.asked)
  BY <1>1
<1> QED BY <1>1, <1>2, MoveKeeps

LEMMA HandleKeeps ==
  ASSUME ServerInv, TypeOK, Exclusive, NEW c \in Conns, Handle(c)
  PROVE  ServerInv'
<1> USE DEF Queries
<1>1. ServerTypeOK /\ InTurn
  BY DEF ServerInv
<1>2. Busy(c) => /\ InHand(c).id \in Nat /\ InHand(c).query \in Queries
                 /\ View(c) = opened[conns[c].server]
                 /\ View(c).rows \in [Rows -> Values \cup {None}]
                 /\ View(c).head \in Values \cup {None}
  BY <1>1, InHandTyped, ViewIsOpened
<1>3. ASSUME NEW outcome \in Outcomes, Busy(c), InHand(c).query # "garbled", Answer(c, outcome),
             outcome \in {Says(View(c), InHand(c).query), Failure("error")},
             UNCHANGED <<vars, opened>>
      PROVE  ServerInv'
  <2>1. /\ InHand(c).id \in Nat \cup {None} /\ Reply(c, InHand(c).id, outcome)
        /\ outcome = [status |-> outcome.status, value |-> outcome.value]
    BY <1>2, <1>3, OutcomesTyped DEF Answer
  <2>2. [status |-> outcome.status, value |-> outcome.value]
          \in {Says(opened[conns[c].server], InHand(c).query), Failure("error")}
    BY <1>2, <1>3, <2>1
  <2> QED BY <1>3, <2>1, <2>2, AnswerKeeps
<1>4. CASE Reject(c)
  <2>1. Busy(c) /\ InHand(c).query = "bad" /\ Answer(c, Failure("bad request"))
        /\ UNCHANGED <<vars, opened>>
    BY <1>4 DEF Reject
  <2>2. Says(View(c), InHand(c).query) = Failure("bad request") /\ Failure("bad request") \in Outcomes
    BY <2>1, OutcomesTyped DEF Says
  <2> QED BY <1>3, <2>1, <2>2
<1>5. CASE RejectText(c)
  <2> DEFINE outcome == Failure("bad request")
  <2>1. Busy(c) /\ InHand(c).query = "garbled" /\ Reply(c, None, outcome)
        /\ UNCHANGED <<vars, opened>>
    BY <1>5 DEF RejectText
  <2>2. /\ Says(opened[conns[c].server], InHand(c).query) = outcome /\ outcome \in Outcomes
        /\ outcome = [status |-> outcome.status, value |-> outcome.value]
    BY <2>1, OutcomesTyped DEF Says
  <2> HIDE DEF outcome
  <2> QED BY <2>1, <2>2, AnswerKeeps
<1>6. CASE ReadHead(c)
  <2>1. Busy(c) /\ InHand(c).query = "head" /\ Answer(c, Found(View(c).head))
        /\ UNCHANGED <<vars, opened>>
    BY <1>6 DEF ReadHead
  <2>2. Says(View(c), InHand(c).query) = Found(View(c).head) /\ Found(View(c).head) \in Outcomes
    BY <1>2, <2>1, OutcomesTyped DEF Says
  <2> QED BY <1>3, <2>1, <2>2
<1>7. CASE ReadRow(c)
  <2> DEFINE outcome == Found(View(c).rows[InHand(c).query])
  <2>1. Busy(c) /\ InHand(c).query \in {"account", "slot"} /\ Answer(c, outcome)
        /\ UNCHANGED <<vars, opened>>
    BY <1>7 DEF ReadRow
  <2>2. InHand(c).query \in Rows
    BY <2>1, RowsRead
  <2>3. Says(View(c), InHand(c).query) = outcome /\ outcome \in Outcomes
    BY <1>2, <2>1, <2>2, OutcomesTyped DEF Says
  <2> HIDE DEF outcome
  <2> QED BY <1>3, <2>1, <2>3
<1>8. CASE ReadAccount(c) /\ View(c).rows["account"] = None
  <2>1. Busy(c) /\ InHand(c).query = "code" /\ Answer(c, Failure("not found"))
        /\ UNCHANGED <<vars, opened>>
    BY <1>8 DEF ReadAccount
  <2>2. Says(View(c), InHand(c).query) = Failure("not found") /\ Failure("not found") \in Outcomes
    BY <1>8, <2>1, OutcomesTyped DEF Says
  <2> QED BY <1>3, <2>1, <2>2
<1>9. CASE ReadCode(c)
  <2> DEFINE account == conns[c].account
             row == CodeRow[account]
             outcome == IF row = None THEN Failure("not found") ELSE Found(View(c).rows[row])
  <2>1. Busy(c) /\ InHand(c).query = "code" /\ account # None /\ Answer(c, outcome)
        /\ UNCHANGED <<vars, opened>>
    BY <1>9 DEF ReadCode
  <2>2. account = View(c).rows["account"] /\ account \in Values
    <3>1. conns[c].account \in Values \cup {None}
      BY <1>1, ConnectionTyped
    <3> QED BY <1>1, <1>2, <2>1, <3>1 DEF InTurn
  <2>3. row \in Rows \cup {None}
    BY <2>2, CodeRowType
  <2>4. Says(View(c), InHand(c).query) = outcome
    BY <2>1, <2>2 DEF Says
  <2>5. outcome \in Outcomes
    BY <1>2, <2>1, <2>3, OutcomesTyped
  <2> HIDE DEF outcome
  <2> QED BY <1>3, <2>1, <2>4, <2>5
<1>10. CASE ReadFails(c)
  <2>1. Busy(c) /\ InHand(c).query # "garbled" /\ Answer(c, Failure("error"))
        /\ UNCHANGED <<vars, opened>>
    BY <1>10 DEF ReadFails
  <2>2. Failure("error") \in Outcomes
    BY OutcomesTyped
  <2> QED BY <1>3, <2>1, <2>2
<1>11. CASE ReadAccount(c) /\ View(c).rows["account"] # None
  <2> DEFINE account == View(c).rows["account"]
             k == conns[c]
             new == [k EXCEPT !.account = account]
  <2>1. /\ Busy(c) /\ InHand(c).query = "code" /\ conns' = [conns EXCEPT ![c] = new]
        /\ UNCHANGED <<vars, opened>>
    BY <1>11 DEF ReadAccount
  <2>2. /\ k = [server |-> k.server, form |-> k.form, asked |-> k.asked, done |-> k.done,
                account |-> k.account]
        /\ k.server \in Procs \cup {None} /\ k.form \in Forms /\ k.asked \in Seq(Questions)
        /\ k.done \in Seq(Answers)
    BY <1>1, ConnectionTyped
  <2>3. account \in Values /\ account = opened[k.server].rows["account"]
    BY <1>2, <1>11, <2>1, RowsRead
  <2>4. k.server \in Procs /\ Runs(k.server, "serve")
    BY <1>1, <2>1, InHandTyped
  <2>5. /\ Len(k.done) < Len(k.asked) /\ k.asked[Len(k.done) + 1].query = "code"
        /\ Len(k.done) <= Len(k.asked)
    BY <1>1, <2>1 DEF Busy, InHand, InTurn
  <2> HIDE DEF account, k
  <2>6. new = [server |-> k.server, form |-> k.form, asked |-> k.asked, done |-> k.done,
               account |-> account]
    BY <2>2
  <2> HIDE DEF new
  <2>7. /\ new \in Connections /\ new.server = k.server /\ new.done = k.done
        /\ new.asked = k.asked /\ new.account = account
    BY <2>2, <2>3, <2>6 DEF Connections
  <2>8. /\ new.done = conns[c].done /\ new.server = conns[c].server
        /\ \A i \in DOMAIN new.done : new.asked[i] = conns[c].asked[i]
    BY <2>7 DEF k
  <2> QED BY <2>1, <2>3, <2>4, <2>5, <2>7, <2>8, MoveKeeps
<1>12. CASE Respond(c)
  BY <1>12, CloseKeeps DEF Respond
<1> QED BY <1>4, <1>5, <1>6, <1>7, <1>8, <1>9, <1>10, <1>11, <1>12 DEF Handle

LEMMA TextKeeps ==
  ASSUME ServerInv, NEW c \in Conns, NEW query \in Texts, Text(c, query)
  PROVE  ServerInv'
<1> DEFINE k == conns[c]
           question == [id |-> Len(k.asked) + 1, query |-> query]
           asked == Append(k.asked, question)
           new == [k EXCEPT !.asked = asked]
<1>1. k.form = "socket" /\ conns' = [conns EXCEPT ![c] = new] /\ UNCHANGED <<vars, opened>>
  BY DEF Text
<1>2. ServerTypeOK /\ InTurn
  BY DEF ServerInv
<1>3. /\ k = [server |-> k.server, form |-> k.form, asked |-> k.asked, done |-> k.done,
              account |-> k.account]
      /\ k.server \in Procs \cup {None} /\ k.form \in Forms /\ k.asked \in Seq(Questions)
      /\ k.done \in Seq(Answers) /\ k.account \in Values \cup {None}
  BY <1>2, ConnectionTyped
<1>4. question \in Questions
  <2>1. query \in Queries /\ Len(k.asked) + 1 \in Nat
    BY <1>3, QueriesType
  <2> QED BY <2>1 DEF Questions
<1>5. k.server \in Procs /\ Runs(k.server, "serve")
  <2>1. k # NoConnection
    BY <1>1 DEF NoConnection
  <2> QED BY <1>2, <2>1 DEF ServerTypeOK
<1>6. /\ Len(k.done) <= Len(k.asked)
      /\ k.account # None => /\ Len(k.done) < Len(k.asked)
                             /\ k.asked[Len(k.done) + 1].query = "code"
                             /\ k.account = opened[k.server].rows["account"]
  BY <1>2 DEF ServerTypeOK, InTurn, Busy, InHand
<1> HIDE DEF k, question
<1>7. /\ asked \in Seq(Questions) /\ Len(asked) = Len(k.asked) + 1
      /\ Len(k.asked) \in Nat /\ Len(k.done) \in Nat
      /\ \A i \in 1..Len(k.asked) : asked[i] = k.asked[i]
      /\ DOMAIN k.done = 1..Len(k.done)
  BY <1>3, <1>4
<1> HIDE DEF asked
<1>8. new = [server |-> k.server, form |-> k.form, asked |-> asked, done |-> k.done,
             account |-> k.account]
  BY <1>3
<1> HIDE DEF new
<1>9. /\ new.server = k.server /\ new.done = k.done /\ new.asked = asked /\ new.account = k.account
  BY <1>8
<1>10. new \in Connections
  BY <1>3, <1>7, <1>8 DEF Connections
<1>11. /\ new.done = conns[c].done /\ new.server = conns[c].server
       /\ \A i \in DOMAIN new.done : new.asked[i] = conns[c].asked[i]
  <2>1. \A i \in DOMAIN k.done : i \in 1..Len(k.asked)
    BY <1>6, <1>7
  <2> QED BY <1>7, <1>9, <2>1 DEF k
<1>12. /\ Len(new.done) <= Len(new.asked)
       /\ new.account # None => /\ Len(new.done) < Len(new.asked)
                                /\ new.asked[Len(new.done) + 1].query = "code"
                                /\ new.account = opened[new.server].rows["account"]
  BY SMTT(30), <1>6, <1>7, <1>9
<1> QED BY <1>1, <1>5, <1>9, <1>10, <1>11, <1>12, MoveKeeps

LEMMA RequestKeeps ==
  ASSUME ServerInv, NEW c \in Conns, NEW p \in Procs, NEW form \in Forms \ {"none"},
         NEW queries \in Seq(Queries), Request(c, p, form, queries)
  PROVE  ServerInv'
<1> DEFINE asked == Numbered(queries)
           first == [NoConnection EXCEPT !.server = p]
           second == [first EXCEPT !.form = form]
           new == [second EXCEPT !.asked = asked]
<1>1. Runs(p, "serve") /\ conns' = [conns EXCEPT ![c] = new] /\ UNCHANGED <<vars, opened>>
  BY DEF Request
<1>2. asked \in Seq(Questions) /\ Len(asked) \in Nat
  <2>1. DOMAIN queries = 1..Len(queries) /\ Len(queries) \in Nat
    OBVIOUS
  <2>2. \A i \in 1..Len(queries) : [id |-> i, query |-> queries[i]] \in Questions
    BY <2>1 DEF Questions
  <2> QED BY <2>1, <2>2 DEF Numbered
<1> HIDE DEF asked
<1>3. new = [server |-> p, form |-> form, asked |-> asked, done |-> <<>>, account |-> None]
  <2>1. first = [server |-> p, form |-> "none", asked |-> <<>>, done |-> <<>>, account |-> None]
    BY DEF NoConnection
  <2> HIDE DEF first
  <2>2. second = [server |-> p, form |-> form, asked |-> <<>>, done |-> <<>>, account |-> None]
    BY <2>1
  <2> HIDE DEF second
  <2> QED BY <2>2
<1> HIDE DEF new
<1>4. /\ new \in Connections /\ new.server = p /\ new.done = <<>> /\ new.asked = asked
      /\ new.account = None
  BY <1>2, <1>3 DEF Connections
<1>5. Len(new.done) <= Len(new.asked)
  BY <1>2, <1>4
<1> QED BY <1>1, <1>4, <1>5, MoveKeeps

LEMMA AskKeeps ==
  ASSUME ServerInv, NEW c \in Conns, Ask(c)
  PROVE  ServerInv'
<1>1. ASSUME NEW p \in Procs, NEW query \in Singles, Request(c, p, "single", <<query>>)
      PROVE  ServerInv'
  <2>1. <<query>> \in Seq(Queries) /\ "single" \in Forms \ {"none"}
    BY QueriesType DEF Forms
  <2> QED BY <1>1, <2>1, RequestKeeps
<1>2. ASSUME NEW p \in Procs, NEW list \in Batches, Request(c, p, "batch", list)
      PROVE  ServerInv'
  <2>1. list \in Seq(Queries) /\ "batch" \in Forms \ {"none"}
    BY QueriesType DEF Forms
  <2> QED BY <1>2, <2>1, RequestKeeps
<1>3. ASSUME NEW p \in Procs, Request(c, p, "socket", <<>>)
      PROVE  ServerInv'
  <2>1. <<>> \in Seq(Queries) /\ "socket" \in Forms \ {"none"}
    BY DEF Forms
  <2> QED BY <1>3, <2>1, RequestKeeps
<1>4. ASSUME NEW query \in Texts, Text(c, query) PROVE ServerInv'
  BY <1>4, TextKeeps
<1> QED BY <1>1, <1>2, <1>3, <1>4 DEF Ask

----------------------------------------------------------------------------
\* A step of a command.

LEMMA CommandKeeps ==
  ASSUME IInv, IInv', ServerInv, Command
  PROVE  ServerInv'
<1>1. /\ Next
      /\ opened' = [p \in Procs |->
           IF jobs'[p] = NoJob THEN None
           ELSE IF jobs[p] = NoJob THEN db[jobs'[p].dir] ELSE opened[p]]
      /\ conns' = [c \in Conns |->
           IF conns[c] # NoConnection /\ jobs'[conns[c].server] = NoJob THEN NoConnection
           ELSE conns[c]]
  BY DEF Command
<1>2. ServerTypeOK /\ InTurn /\ OpenedStays /\ AnswersOfOneState
  BY DEF ServerInv
<1>3. TypeOK' /\ Exclusive' /\ NoJob.cmd = "none"
  BY DEF IInv, NoJob
<1>4. ASSUME NEW p \in Procs, jobs'[p].cmd = "serve"
      PROVE  opened'[p] = db'[jobs'[p].dir]
  <2>1. jobs'[p] # NoJob
    BY <1>3, <1>4
  <2>2. \/ jobs[p] = NoJob /\ db' = db
        \/ jobs[p] # NoJob /\ jobs'[p] = jobs[p] /\ db'[jobs[p].dir] = db[jobs[p].dir]
    BY <1>1, <1>4, ServerStands DEF Runs
  <2>3. CASE jobs[p] = NoJob /\ db' = db
    BY <1>1, <2>1, <2>3
  <2>4. CASE jobs[p] # NoJob /\ jobs'[p] = jobs[p] /\ db'[jobs[p].dir] = db[jobs[p].dir]
    BY <1>1, <1>2, <1>4, <2>1, <2>4 DEF OpenedStays, Runs
  <2> QED BY <2>2, <2>3, <2>4
\* A connection that is not lost has a server that goes on as it was.
<1>5. ASSUME NEW c \in Conns, conns'[c] # NoConnection
      PROVE  /\ conns'[c] = conns[c] /\ conns[c].server \in Procs
             /\ jobs'[conns[c].server].cmd = "serve"
             /\ opened'[conns[c].server] = opened[conns[c].server]
  <2> DEFINE s == conns[c].server
  <2>1. conns'[c] = conns[c] /\ conns[c] # NoConnection /\ jobs'[s] # NoJob
    BY <1>1, <1>5
  <2>2. s \in Procs /\ jobs[s].cmd = "serve"
    BY <1>2, <2>1 DEF ServerTypeOK, Runs
  <2> HIDE DEF s
  <2>3. jobs'[s] = jobs[s] /\ jobs[s] # NoJob
    BY <1>1, <1>3, <2>1, <2>2, ServerStands DEF Runs
  <2>4. opened'[s] = opened[s]
    BY <1>1, <2>1, <2>2, <2>3
  <2> QED BY <2>1, <2>2, <2>3, <2>4 DEF s
<1>6. NoConnection \in Connections /\ NoConnection.done = <<>> /\ NoConnection.asked = <<>>
      /\ NoConnection.account = None
  BY DEF NoConnection, Connections, Forms
<1>7. ServerTypeOK'
  <2>1. conns' \in [Conns -> Connections]
    BY <1>1, <1>2, <1>6 DEF ServerTypeOK
  <2>2. ASSUME NEW c \in Conns, conns'[c].account # None
        PROVE  /\ Len(conns'[c].done) < Len(conns'[c].asked)
               /\ conns'[c].asked[Len(conns'[c].done) + 1].query = "code"
    <3>1. conns'[c] = conns[c]
      BY <1>5, <1>6, <2>2
    <3> QED BY <1>2, <2>2, <3>1 DEF ServerTypeOK, Busy, InHand
  <2> QED BY <1>3, <1>5, <2>1, <2>2 DEF ServerTypeOK, Runs, Busy, InHand
<1>8. OpenedStays'
  BY <1>4 DEF OpenedStays, Runs
<1>9. InTurn'
  <2> SUFFICES ASSUME NEW c \in Conns
               PROVE  /\ Len(conns'[c].done) <= Len(conns'[c].asked)
                      /\ conns'[c].account # None =>
                           conns'[c].account = opened'[conns'[c].server].rows["account"]
    BY DEF InTurn
  <2>1. CASE conns'[c] = NoConnection
    BY <1>6, <2>1
  <2>2. CASE conns'[c] # NoConnection
    BY <1>2, <1>5, <2>2 DEF InTurn
  <2> QED BY <2>1, <2>2
<1>10. AnswersOfOneState'
  <2> SUFFICES ASSUME NEW c \in Conns, NEW i \in DOMAIN conns'[c].done
               PROVE  /\ [status |-> conns'[c].done[i].status, value |-> conns'[c].done[i].value]
                           \in {Says(opened'[conns'[c].server], conns'[c].asked[i].query),
                                Failure("error")}
                      /\ conns'[c].done[i].id =
                           IF conns'[c].asked[i].query = "garbled" THEN None
                           ELSE conns'[c].asked[i].id
    BY DEF AnswersOfOneState, Says
  <2>1. conns'[c] = conns[c] /\ opened'[conns[c].server] = opened[conns[c].server]
    BY <1>5, <1>6
  <2> QED BY <1>2, <2>1 DEF AnswersOfOneState
<1> QED BY <1>7, <1>8, <1>9, <1>10 DEF ServerInv

----------------------------------------------------------------------------
\* The theorems.

LEMMA ServerInitHolds == ServerInit => IInv /\ ServerInv
<1> SUFFICES ASSUME ServerInit PROVE IInv /\ ServerInv
  OBVIOUS
<1>1. Init /\ conns = [c \in Conns |-> NoConnection]
  BY DEF ServerInit
<1>2. IInv
  BY <1>1, InitHolds
<1>3. NoConnection \in Connections /\ NoConnection.done = <<>> /\ NoConnection.asked = <<>>
      /\ NoConnection.account = None
  BY DEF NoConnection, Connections, Forms
<1>4. ServerTypeOK
  BY <1>1, <1>2, <1>3 DEF ServerTypeOK, IInv
<1>5. OpenedStays
  BY <1>1 DEF OpenedStays, Init, Runs, NoJob
<1>6. InTurn /\ AnswersOfOneState
  BY <1>1, <1>3 DEF InTurn, AnswersOfOneState
<1> QED BY <1>2, <1>4, <1>5, <1>6 DEF ServerInv

LEMMA ServerStep == [ServerNext]_serverVars => [Next]_vars
BY DEF ServerNext, serverVars, Command, Ask, Handle, Request, Text, Reject, RejectText, ReadHead,
  ReadRow, ReadAccount, ReadCode, ReadFails, Respond, Disconnect

LEMMA ServerNextKeeps == IInv /\ ServerInv /\ [ServerNext]_serverVars => IInv' /\ ServerInv'
<1> SUFFICES ASSUME IInv, ServerInv, [ServerNext]_serverVars PROVE IInv' /\ ServerInv'
  OBVIOUS
<1>1. IInv'
  BY ServerStep, NextKeeps
<1>2. TypeOK /\ Exclusive
  BY DEF IInv
<1>3. CASE Command
  BY <1>1, <1>3, CommandKeeps
<1>4. ASSUME NEW c \in Conns, Ask(c) PROVE ServerInv'
  BY <1>4, AskKeeps
<1>5. ASSUME NEW c \in Conns, Handle(c) PROVE ServerInv'
  BY <1>2, <1>5, HandleKeeps
<1>6. ASSUME NEW c \in Conns, Disconnect(c) PROVE ServerInv'
  BY <1>6, CloseKeeps DEF Disconnect
<1>7. CASE UNCHANGED serverVars
  <2>1. UNCHANGED <<db, file, sidecar, jobs, commands, tainted, torn, loading, recorded, opened, conns>>
    BY <1>7 DEF serverVars, vars, disk, history
  <2>2. ServerTypeOK'
    BY <2>1 DEF ServerInv, ServerTypeOK, TypeOK, Runs, Busy, InHand
  <2>3. OpenedStays' /\ InTurn' /\ AnswersOfOneState'
    BY <2>1 DEF ServerInv, OpenedStays, InTurn, AnswersOfOneState, Runs
  <2> QED BY <1>1, <2>2, <2>3 DEF ServerInv
<1> QED BY <1>1, <1>3, <1>4, <1>5, <1>6, <1>7 DEF ServerNext

\* A server adds nothing to what the commands do to the databases and the file: every
\* step of a connection only reads (api lib.rs:133-226, 435-577).
THEOREM ServerOnlyReads == ServerSpec => Spec
<1>1. ServerInit => Init
  BY DEF ServerInit
<1> QED BY <1>1, ServerStep, PTL DEF ServerSpec, Spec

\* With servers among the commands, and any connections to them, the invariants of both
\* hold together.
THEOREM ServerInvariance == ServerSpec => [](IInv /\ ServerInv)
BY ServerInitHolds, ServerNextKeeps, PTL DEF ServerSpec

\* Connections are well-formed, and only a code query in hand holds an account.
THEOREM ServerTyping == ServerSpec => []ServerTypeOK
<1>1. ServerInv => ServerTypeOK
  BY DEF ServerInv
<1> QED BY <1>1, ServerInvariance, PTL

\* Whatever commands run beside a server, all its answers are of the state it opened,
\* each under the id of its own query.
THEOREM ServerIsSteady == ServerSpec => []AnswersOfOneState
<1>1. ServerInv => AnswersOfOneState
  BY DEF ServerInv
<1> QED BY <1>1, ServerInvariance, PTL
=============================================================================
