------------------------------ MODULE Snapshot ------------------------------
(***************************************************************************)
(* Importing a JSON Lines snapshot into the state database, with a sidecar *)
(* file that lets an interrupted import resume (crates/snapshot).          *)
(*                                                                         *)
(* A row key is a column family and a key in it: an account, a storage     *)
(* slot or a code hash.  The import puts every row the same way.  A line   *)
(* of the file is a record; zstd is transparent.  One action per line, per *)
(* database commit and per file operation: the process may die between any *)
(* two of them, in the middle of writing the sidecar too.                  *)
(***************************************************************************)
EXTENDS Naturals, Sequences

CONSTANTS
  Keys,       \* row keys
  Values,     \* row values
  None,       \* no row, no head block
  Files,      \* the snapshot files an import may be given
  BatchSize,  \* entries committed together (10 000 in the code)
  OldRows,    \* what the database held before the first import
  MayCrash    \* whether the process may die

ASSUME BatchSizePositive == BatchSize \in Nat \ {0}
ASSUME NoneIsNoData == None \notin Nat /\ None \notin Values

Lines == [kind: {"entry"}, key: Keys, value: Values]
           \cup [kind: {"metadata"}, head: Nat]
           \cup [kind: {"blank", "malformed"}]

ASSUME FilesAreLines == \A f \in Files : f \in Seq(Lines)
ASSUME OldRowsType == OldRows \in [Keys -> Values \cup {None}]

VARIABLES
  file,     \* the snapshot file
  sidecar,  \* the .progress file: lines committed; 0 when it is missing or unreadable
  rows,     \* the rows of the database
  head,     \* its head block
  pc,       \* where the import is; "idle" when none runs
  skip,     \* lines passed over because an earlier run committed them
  line,     \* the last line read
  batch,    \* rows queued in the write batch, None for a key it does not hold
  count,    \* entries counted towards the batch
  seen,     \* the head block of the last metadata line this run has read
  result    \* how the last run ended

import == <<pc, skip, line, batch, count, seen>>
vars == <<file, sidecar, rows, head, import, result>>

EmptyBatch == [k \in Keys |-> None]

Idle ==
  /\ pc = "idle" /\ skip = 0 /\ line = 0
  /\ batch = EmptyBatch /\ count = 0 /\ seen = None

Init ==
  /\ file \in Files
  /\ sidecar = 0
  /\ rows = OldRows /\ head = None
  /\ Idle /\ result = "none"

Exit(r) ==
  /\ pc' = "idle" /\ skip' = 0 /\ line' = 0
  /\ batch' = EmptyBatch /\ count' = 0 /\ seen' = None
  /\ result' = r

\* Mutant: one line too many is passed over.
Start_m ==
  /\ pc = "idle"
  /\ pc' = "read" /\ skip' = sidecar + 1 /\ result' = "none"
  /\ UNCHANGED <<file, sidecar, rows, head, line, batch, count, seen>>

\* A run begins: it reads the sidecar and opens a batch.
Start ==
  /\ pc = "idle"
  /\ pc' = "read" /\ skip' = sidecar /\ result' = "none"
  /\ UNCHANGED <<file, sidecar, rows, head, line, batch, count, seen>>

NextLine == file[line + 1]
MoreLines == pc = "read" /\ line < Len(file)
Read == line' = line + 1
Skipped == line + 1 <= skip

\* Mutant: blank lines are not passed over.
PassOver_m ==
  /\ MoreLines /\ Skipped
  /\ Read
  /\ UNCHANGED <<file, sidecar, rows, head, pc, skip, batch, count, seen, result>>

PassOver ==
  /\ MoreLines /\ (Skipped \/ NextLine.kind = "blank")
  /\ Read
  /\ UNCHANGED <<file, sidecar, rows, head, pc, skip, batch, count, seen, result>>

\* A line that does not parse ends the run; what is queued is dropped.
Malformed ==
  /\ MoreLines /\ ~ Skipped /\ NextLine.kind = "malformed"
  /\ Exit("json_error")
  /\ UNCHANGED <<file, sidecar, rows, head>>

\* Mutant: the progress is recorded without a commit.
Counts_m ==
  /\ count' = count + 1
  /\ pc' = IF count + 1 >= BatchSize THEN "record" ELSE "read"

\* A full batch is committed at once.
Counts ==
  /\ count' = count + 1
  /\ pc' = IF count + 1 >= BatchSize THEN "commit" ELSE "read"

Entry ==
  /\ MoreLines /\ ~ Skipped /\ NextLine.kind = "entry"
  /\ Read /\ Counts
  /\ batch' = [batch EXCEPT ![NextLine.key] = NextLine.value]
  /\ UNCHANGED <<file, sidecar, rows, head, skip, seen, result>>

\* Mutant: the head block is written as soon as it is read.
Metadata_m ==
  /\ MoreLines /\ ~ Skipped /\ NextLine.kind = "metadata"
  /\ Read /\ Counts
  /\ seen' = NextLine.head /\ head' = NextLine.head
  /\ UNCHANGED <<file, sidecar, rows, skip, batch, result>>

\* The head block is only remembered, until the end of the file.
Metadata ==
  /\ MoreLines /\ ~ Skipped /\ NextLine.kind = "metadata"
  /\ Read /\ Counts
  /\ seen' = NextLine.head
  /\ UNCHANGED <<file, sidecar, rows, head, skip, batch, result>>

Committed == [k \in Keys |-> IF batch[k] = None THEN rows[k] ELSE batch[k]]

CommitFull ==
  /\ pc = "commit"
  /\ rows' = Committed
  /\ pc' = "record"
  /\ UNCHANGED <<file, sidecar, head, skip, line, batch, count, seen, result>>

\* write_progress truncates the file, then writes the number.
Truncate ==
  /\ pc = "record"
  /\ sidecar' = 0
  /\ pc' = "write"
  /\ UNCHANGED <<file, rows, head, skip, line, batch, count, seen, result>>

Record ==
  /\ pc = "write"
  /\ sidecar' = line
  /\ batch' = EmptyBatch /\ count' = 0
  /\ pc' = "read"
  /\ UNCHANGED <<file, rows, head, skip, line, seen, result>>

\* Mutant: the last, partial batch is dropped.
CommitRest_m ==
  /\ pc = "read" /\ line = Len(file)
  /\ head' = IF seen = None THEN head ELSE seen
  /\ pc' = "cleanup"
  /\ UNCHANGED <<file, sidecar, rows, skip, line, batch, count, seen, result>>

\* The rest of the entries and the head block are committed together.
CommitRest ==
  /\ pc = "read" /\ line = Len(file)
  /\ rows' = Committed
  /\ head' = IF seen = None THEN head ELSE seen
  /\ pc' = "cleanup"
  /\ UNCHANGED <<file, sidecar, skip, line, batch, count, seen, result>>

\* Removing the sidecar may fail; the error is ignored.
Cleanup ==
  /\ pc = "cleanup"
  /\ sidecar' \in {0, sidecar}
  /\ Exit("ok")
  /\ UNCHANGED <<file, rows, head>>

\* The process dies, or a read, a commit or the sidecar's write fails.
Crash ==
  /\ MayCrash /\ pc # "idle"
  /\ Exit("crashed")
  /\ UNCHANGED <<file, sidecar, rows, head>>

Next ==
  \/ Start \/ PassOver \/ Malformed \/ Entry \/ Metadata
  \/ CommitFull \/ Truncate \/ Record \/ CommitRest \/ Cleanup
  \/ Crash

Spec == Init /\ [][Next]_vars

\* The import runs, and is run again after it was cut off.
Step ==
  \/ (Start /\ result # "ok") \/ PassOver \/ Entry \/ Metadata
  \/ CommitFull \/ Truncate \/ Record \/ CommitRest \/ Cleanup

FairSpec == Spec /\ WF_vars(Step)

----------------------------------------------------------------------------
\* What the first n lines of the file make of a row: the last entry counts.
EntriesOf(k, n) == {i \in 1..n : file[i].kind = "entry" /\ file[i].key = k}
LastOf(S) == CHOOSE i \in S : \A j \in S : j <= i
ValueAt(k, n) ==
  IF EntriesOf(k, n) = {} THEN OldRows[k]
  ELSE file[LastOf(EntriesOf(k, n))].value

Whole == \A k \in Keys : rows[k] = ValueAt(k, Len(file))

Ends == {"none", "ok", "json_error", "crashed"}
Steps == {"idle", "read", "commit", "record", "write", "cleanup"}

\* Every variable has its type; a position in the file is one.
TypeOK ==
  /\ file \in Files
  /\ sidecar \in 0..Len(file) /\ skip \in 0..Len(file) /\ line \in 0..Len(file)
  /\ rows \in [Keys -> Values \cup {None}]
  /\ batch \in [Keys -> Values \cup {None}]
  /\ head \in Nat \cup {None} /\ seen \in Nat \cup {None}
  /\ count \in 0..BatchSize
  /\ pc \in Steps /\ result \in Ends

\* An import that reports success has written every entry of the file, the last
\* one for each key, however often earlier runs were cut off (lib.rs:113-186).
ImportIsWhole == result = "ok" => Whole

\* The sidecar never runs ahead of the database: each row is what some prefix of
\* the file, at least as long as the recorded progress, makes of it
\* (lib.rs:168-170 commits before it records).
SidecarIsDurable == \A k \in Keys : \E n \in sidecar..Len(file) : rows[k] = ValueAt(k, n)

DistinctKeys == \A i, j \in 1..Len(file) :
  (file[i].kind = "entry" /\ file[j].kind = "entry" /\ file[i].key = file[j].key) => i = j

\* The head block goes in with the last rows: a database that has a head, which
\* replay then continues from, holds all of the snapshot (lib.rs:183-186).
HeadMeansWhole == (head # None /\ DistinctKeys) => Whole

\* The inductive invariant: what the run has queued is what the lines read so far
\* make of those rows, and the rows it has not queued anything for are those of
\* a prefix at least as long as the lines it has read or passed over.
QueuedUpToLine ==
  pc \in {"read", "commit"} => \A k \in Keys : batch[k] # None =>
    /\ line > skip
    /\ EntriesOf(k, line) # {}
    /\ batch[k] = ValueAt(k, line)

Reached(k) == \E n \in line..Len(file) : n >= skip /\ rows[k] = ValueAt(k, n)

RowsUpToLine ==
  /\ pc \in {"read", "commit"} => \A k \in Keys : batch[k] = None => Reached(k)
  /\ pc \in {"record", "write"} => \A k \in Keys : Reached(k)
  /\ pc = "cleanup" => Whole /\ line = Len(file)

IInv ==
  /\ TypeOK
  /\ pc = "idle" => Idle
  /\ pc # "idle" => result = "none" /\ (sidecar <= skip \/ sidecar <= line)
  /\ pc = "read" => count < BatchSize
  /\ pc \in {"commit", "record", "write"} => line > skip
  /\ QueuedUpToLine
  /\ RowsUpToLine
  /\ SidecarIsDurable
  /\ ImportIsWhole
  /\ HeadMeansWhole

\* When crashes end, an import of a well-formed file completes.
Completes ==
  (/\ \A i \in 1..Len(file) : file[i].kind # "malformed"
   /\ <>[][~ Crash]_vars) => <>(result = "ok")

\* "set as the DB's head block on completion" (crates/snapshot/README.md:20).
HeadIsSet ==
  (result = "ok" /\ \E i \in 1..Len(file) : file[i].kind = "metadata") => head # None
=============================================================================
