--------------------------- MODULE Snapshot_proofs ---------------------------
(***************************************************************************)
(* Proofs about the snapshot import: the inductive invariant of Snapshot,  *)
(* for every file, batch size and moment of a crash; and what an export    *)
(* brings back, for every database.                                        *)
(***************************************************************************)
EXTENDS SnapshotExport, SequenceTheorems, TLAPS

----------------------------------------------------------------------------
\* What the lines of a file make of a row.

LEMMA FileIsSequence ==
  ASSUME TypeOK
  PROVE  /\ file \in Seq(Lines)
         /\ Len(file) \in Nat
         /\ \A i \in 1..Len(file) : file[i] \in Lines
BY FilesAreLines DEF TypeOK

\* A line that is no entry for a row leaves the row as it was.
LEMMA OtherLine ==
  ASSUME NEW n \in Nat, NEW k \in Keys,
         ~ (file[n + 1].kind = "entry" /\ file[n + 1].key = k)
  PROVE  EntriesOf(k, n + 1) = EntriesOf(k, n) /\ ValueAt(k, n + 1) = ValueAt(k, n)
<1>1. EntriesOf(k, n + 1) = EntriesOf(k, n)
  BY DEF EntriesOf
<1> QED BY <1>1 DEF ValueAt

\* An entry for a row gives the row its value.
LEMMA EntryLine ==
  ASSUME NEW n \in Nat, file[n + 1].kind = "entry"
  PROVE  /\ EntriesOf(file[n + 1].key, n + 1) # {}
         /\ ValueAt(file[n + 1].key, n + 1) = file[n + 1].value
<1> DEFINE S == EntriesOf(file[n + 1].key, n + 1)
<1>1. n + 1 \in S /\ \A i \in S : i \in 1..(n + 1)
  BY DEF EntriesOf
<1>2. \A i \in S : (\A j \in S : j <= i) <=> i = n + 1
  BY <1>1
<1>3. LastOf(S) = n + 1
  BY <1>1, <1>2 DEF LastOf
<1> QED BY <1>1, <1>3 DEF ValueAt

\* With distinct keys, a row that an entry has been read for is final.
LEMMA FinalValue ==
  ASSUME TypeOK, DistinctKeys, NEW k \in Keys, NEW n \in 0..Len(file), EntriesOf(k, n) # {}
  PROVE  ValueAt(k, n) = ValueAt(k, Len(file))
<1>1. Len(file) \in Nat
  BY FileIsSequence
<1>2. PICK i \in 1..n : file[i].kind = "entry" /\ file[i].key = k
  BY DEF EntriesOf
<1>3. EntriesOf(k, n) = {i}
  BY <1>1, <1>2 DEF EntriesOf, DistinctKeys
<1>4. EntriesOf(k, Len(file)) = {i}
  BY <1>1, <1>2 DEF EntriesOf, DistinctKeys
<1> QED BY <1>3, <1>4 DEF ValueAt

----------------------------------------------------------------------------
\* The steps.

LEMMA InitInvariant == Init => IInv
<1> SUFFICES ASSUME Init PROVE IInv
  OBVIOUS
<1>1. TypeOK
  BY FilesAreLines, BatchSizePositive, OldRowsType DEF Init, Idle, EmptyBatch, TypeOK, Steps, Ends
<1>2. \A k \in Keys : EntriesOf(k, 0) = {} /\ ValueAt(k, 0) = OldRows[k]
  BY DEF EntriesOf, ValueAt
<1>3. SidecarIsDurable
  <2>1. 0 \in sidecar..Len(file)
    BY <1>1, FileIsSequence DEF Init
  <2> QED BY <1>2, <2>1 DEF Init, SidecarIsDurable
<1> QED
  BY <1>1, <1>3 DEF Init, Idle, IInv, QueuedUpToLine, RowsUpToLine, ImportIsWhole, HeadMeansWhole

\* A run that ends leaves files and rows as they are; "ok" needs the whole file.
LEMMA ExitStep ==
  ASSUME IInv, NEW r \in Ends, Exit(r), r = "ok" => Whole,
         sidecar' \in {0, sidecar}, UNCHANGED <<file, rows, head>>
  PROVE  IInv'
<1>1. TypeOK /\ SidecarIsDurable /\ HeadMeansWhole
  BY DEF IInv
<1>2. TypeOK'
  BY <1>1, BatchSizePositive DEF TypeOK, Exit, EmptyBatch, Steps
<1>3. \A k \in Keys, n \in Nat : ValueAt(k, n)' = ValueAt(k, n)
  BY DEF ValueAt, EntriesOf
<1>4. SidecarIsDurable'
  BY <1>1, <1>3, FileIsSequence DEF SidecarIsDurable, TypeOK
<1>5. Whole => Whole'
  BY <1>1, <1>3, FileIsSequence DEF Whole
<1>6. HeadMeansWhole' /\ ImportIsWhole'
  BY <1>1, <1>5 DEF HeadMeansWhole, DistinctKeys, ImportIsWhole, Exit
<1> QED
  BY <1>2, <1>4, <1>6 DEF IInv, Exit, Idle, EmptyBatch, QueuedUpToLine, RowsUpToLine

LEMMA StartStep ==
  ASSUME IInv, Start
  PROVE  IInv'
<1>1. TypeOK /\ SidecarIsDurable /\ HeadMeansWhole /\ Idle
  BY DEF IInv, Start
<1>2. TypeOK'
  BY <1>1 DEF TypeOK, Start, Steps, Ends
<1>3. line' = 0 /\ batch' = EmptyBatch /\ count' = 0 /\ skip' = sidecar /\ pc' = "read"
      /\ result' = "none" /\ UNCHANGED <<file, rows, head, sidecar>>
  BY <1>1 DEF Start, Idle
<1>4. \A k \in Keys, n \in Nat : ValueAt(k, n)' = ValueAt(k, n)
  BY <1>3 DEF ValueAt, EntriesOf
<1>5. SidecarIsDurable'
  BY <1>1, <1>3, <1>4, FileIsSequence DEF SidecarIsDurable, TypeOK
<1>6. HeadMeansWhole' /\ ImportIsWhole'
  BY <1>1, <1>3, <1>4, FileIsSequence DEF HeadMeansWhole, DistinctKeys, Whole, ImportIsWhole
<1>7. QueuedUpToLine'
  BY <1>3 DEF QueuedUpToLine, EmptyBatch
<1>8. ASSUME NEW k \in Keys PROVE Reached(k)'
  BY <1>1, <1>3, <1>4, FileIsSequence DEF SidecarIsDurable, Reached, TypeOK
<1>9. RowsUpToLine'
  BY <1>3, <1>8 DEF RowsUpToLine
<1> QED BY <1>2, <1>3, <1>5, <1>6, <1>7, <1>9, BatchSizePositive, <1>1 DEF IInv, TypeOK

\* A line that is read leaves the rows alone; what it queues is its own value.
LEMMA ReadStep ==
  ASSUME IInv, MoreLines, Read, TypeOK', pc' \in {"read", "commit"},
         pc' = "read" => count' < BatchSize, pc' = "commit" => ~ Skipped,
         \/ Skipped /\ UNCHANGED batch
         \/ NextLine.kind # "entry" /\ UNCHANGED batch
         \/ /\ ~ Skipped /\ NextLine.kind = "entry"
            /\ batch' = [batch EXCEPT ![NextLine.key] = NextLine.value],
         UNCHANGED <<file, sidecar, rows, head, skip, result>>
  PROVE  IInv'
<1>1. /\ TypeOK /\ SidecarIsDurable /\ HeadMeansWhole /\ ImportIsWhole
      /\ QueuedUpToLine /\ RowsUpToLine /\ pc = "read" /\ result = "none"
      /\ sidecar <= skip \/ sidecar <= line
  BY DEF IInv, MoreLines
<1>2. /\ line \in Nat /\ line < Len(file) /\ Len(file) \in Nat /\ line' = line + 1
      /\ skip \in Nat /\ sidecar \in Nat
      /\ NextLine = file[line + 1] /\ NextLine \in Lines
  BY <1>1, FileIsSequence DEF TypeOK, MoreLines, Read, NextLine
<1>3. \A k \in Keys, n \in Nat : /\ ValueAt(k, n)' = ValueAt(k, n)
                                 /\ EntriesOf(k, n)' = EntriesOf(k, n)
  BY DEF ValueAt, EntriesOf
<1>4. SidecarIsDurable'
  BY <1>1, <1>2, <1>3, FileIsSequence DEF SidecarIsDurable, TypeOK
<1>5. HeadMeansWhole' /\ ImportIsWhole'
  BY <1>1, <1>2, <1>3 DEF HeadMeansWhole, DistinctKeys, Whole, ImportIsWhole
<1>6. ASSUME NEW k \in Keys
      PROVE  /\ batch'[k] # None => /\ line' > skip
                                    /\ EntriesOf(k, line') # {}
                                    /\ batch'[k] = ValueAt(k, line')
             /\ batch'[k] = None => \E n \in line'..Len(file) : n >= skip /\ rows[k] = ValueAt(k, n)
  <2>1. /\ batch[k] # None => /\ line > skip
                              /\ EntriesOf(k, line) # {}
                              /\ batch[k] = ValueAt(k, line)
        /\ batch[k] = None => \E n \in line..Len(file) : n >= skip /\ rows[k] = ValueAt(k, n)
    BY <1>1 DEF QueuedUpToLine, RowsUpToLine, Reached
  <2>2. CASE Skipped /\ UNCHANGED batch
    BY <1>2, <2>1, <2>2 DEF Skipped
  <2>3. ASSUME ~ (NextLine.kind = "entry" /\ NextLine.key = k), batch'[k] = batch[k]
        PROVE  /\ batch'[k] # None => /\ line' > skip
                                      /\ EntriesOf(k, line') # {}
                                      /\ batch'[k] = ValueAt(k, line')
               /\ batch'[k] = None =>
                    \E n \in line'..Len(file) : n >= skip /\ rows[k] = ValueAt(k, n)
    <3>1. EntriesOf(k, line + 1) = EntriesOf(k, line) /\ ValueAt(k, line + 1) = ValueAt(k, line)
      BY <1>2, <2>3, OtherLine
    <3>2. ASSUME batch[k] = None
          PROVE  \E n \in line'..Len(file) : n >= skip /\ rows[k] = ValueAt(k, n)
      <4>1. PICK n \in line..Len(file) : n >= skip /\ rows[k] = ValueAt(k, n)
        BY <2>1, <3>2
      <4>2. CASE n = line
        <5>1. line + 1 \in line'..Len(file) /\ line + 1 >= skip
          BY <1>2, <4>1, <4>2
        <5> QED BY <3>1, <4>1, <4>2, <5>1
      <4>3. CASE n # line
        BY <1>2, <4>1, <4>3
      <4> QED BY <4>2, <4>3
    <3> QED BY <1>2, <2>1, <2>3, <3>1, <3>2
  <2>4. CASE NextLine.kind # "entry" /\ UNCHANGED batch
    BY <2>3, <2>4
  <2>5. CASE /\ ~ Skipped /\ NextLine.kind = "entry"
             /\ batch' = [batch EXCEPT ![NextLine.key] = NextLine.value]
    <3>1. NextLine.key \in Keys /\ NextLine.value \in Values /\ batch \in [Keys -> Values \cup {None}]
      BY <1>1, <1>2, <2>5 DEF Lines, TypeOK
    <3>2. CASE NextLine.key = k
      <4>1. EntriesOf(k, line + 1) # {} /\ ValueAt(k, line + 1) = NextLine.value
        BY <1>2, <2>5, <3>2, EntryLine
      <4>2. batch'[k] = NextLine.value /\ NextLine.value # None
        BY <2>5, <3>1, <3>2, NoneIsNoData
      <4> QED BY <1>2, <2>5, <4>1, <4>2 DEF Skipped
    <3>3. CASE NextLine.key # k
      BY <2>3, <2>5, <3>1, <3>3
    <3> QED BY <3>2, <3>3
  <2> QED BY <2>2, <2>4, <2>5
<1>7. QueuedUpToLine' /\ RowsUpToLine'
  <2>1. \A k \in Keys : /\ EntriesOf(k, line)' = EntriesOf(k, line')
                        /\ ValueAt(k, line)' = ValueAt(k, line')
    BY DEF ValueAt, EntriesOf
  <2>2. QueuedUpToLine'
    BY <1>6, <2>1 DEF QueuedUpToLine
  <2>3. \A k \in Keys : batch'[k] = None => Reached(k)'
    BY <1>2, <1>3, <1>6 DEF Reached
  <2> QED BY <2>2, <2>3 DEF RowsUpToLine
<1> QED BY <1>1, <1>2, <1>4, <1>5, <1>7 DEF IInv, Skipped

LEMMA LineStep ==
  ASSUME IInv, PassOver \/ Entry \/ Metadata
  PROVE  IInv'
<1>1. TypeOK /\ pc = "read" /\ count < BatchSize /\ count \in Nat /\ NextLine \in Lines
      /\ line + 1 \in 0..Len(file)
  BY FileIsSequence DEF IInv, TypeOK, PassOver, Entry, Metadata, MoreLines, NextLine
<1>2. CASE PassOver
  <2>1. TypeOK'
    BY <1>1, <1>2 DEF PassOver, Read, TypeOK
  <2> QED BY <1>1, <1>2, <2>1, ReadStep DEF PassOver
<1>3. CASE Entry
  <2>1. TypeOK'
    BY <1>1, <1>3, BatchSizePositive DEF Entry, Read, Counts, TypeOK, Steps, Lines
  <2> QED BY <1>1, <1>3, <2>1, ReadStep, BatchSizePositive DEF Entry, Counts
<1>4. CASE Metadata
  <2>1. TypeOK'
    BY <1>1, <1>4, BatchSizePositive DEF Metadata, Read, Counts, TypeOK, Steps, Lines
  <2> QED BY <1>1, <1>4, <2>1, ReadStep, BatchSizePositive DEF Metadata, Counts
<1> QED BY <1>2, <1>3, <1>4

\* A commit takes every row to what a prefix not shorter than before makes of it.
LEMMA CommitRows ==
  ASSUME IInv, pc \in {"read", "commit"}, rows' = Committed, UNCHANGED <<file, sidecar, line, skip>>
  PROVE  /\ rows' \in [Keys -> Values \cup {None}]
         /\ \A k \in Keys : Reached(k)'
         /\ SidecarIsDurable'
         /\ DistinctKeys /\ Whole => Whole'
<1>1. TypeOK /\ SidecarIsDurable /\ QueuedUpToLine /\ RowsUpToLine
      /\ (sidecar <= skip \/ sidecar <= line)
  BY DEF IInv
<1>2. /\ Len(file) \in Nat /\ line \in 0..Len(file) /\ skip \in Nat /\ sidecar \in Nat
      /\ rows' \in [Keys -> Values \cup {None}]
  <2>1. Len(file) \in Nat /\ line \in 0..Len(file) /\ skip \in 0..Len(file) /\ sidecar \in 0..Len(file)
    BY <1>1, FileIsSequence DEF TypeOK
  <2>2. rows' \in [Keys -> Values \cup {None}]
    BY <1>1 DEF TypeOK, Committed
  <2> QED BY <2>1, <2>2
<1>3. \A k \in Keys, n \in Nat : ValueAt(k, n)' = ValueAt(k, n)
  BY DEF ValueAt, EntriesOf
<1>4. ASSUME NEW k \in Keys
      PROVE  /\ \E n \in line..Len(file) : n >= skip /\ rows'[k] = ValueAt(k, n)
             /\ DistinctKeys /\ rows[k] = ValueAt(k, Len(file)) => rows'[k] = ValueAt(k, Len(file))
  <2>1. CASE batch[k] = None
    BY <1>1, <2>1 DEF RowsUpToLine, Reached, Committed
  <2>2. CASE batch[k] # None
    <3>1. rows'[k] = ValueAt(k, line) /\ line > skip /\ EntriesOf(k, line) # {}
      BY <1>1, <2>2 DEF QueuedUpToLine, Committed
    <3> QED BY <1>1, <1>2, <3>1, FinalValue
  <2> QED BY <2>1, <2>2
<1>5. \A k \in Keys : Reached(k)'
  BY <1>2, <1>3, <1>4 DEF Reached
<1>6. SidecarIsDurable'
  <2>1. ASSUME NEW k \in Keys PROVE \E n \in sidecar..Len(file) : rows'[k] = ValueAt(k, n)
    <3>1. PICK n \in line..Len(file) : n >= skip /\ rows'[k] = ValueAt(k, n)
      BY <1>4
    <3>2. n \in sidecar..Len(file)
      BY <1>1, <1>2, <3>1
    <3> QED BY <3>1, <3>2
  <2> QED BY <1>2, <1>3, <2>1 DEF SidecarIsDurable
<1>7. DistinctKeys /\ Whole => Whole'
  BY <1>2, <1>3, <1>4 DEF Whole
<1> QED BY <1>2, <1>5, <1>6, <1>7

LEMMA CommitFullStep ==
  ASSUME IInv, CommitFull
  PROVE  IInv'
<1>1. /\ rows' \in [Keys -> Values \cup {None}]
      /\ \A k \in Keys : Reached(k)'
      /\ SidecarIsDurable'
      /\ DistinctKeys /\ Whole => Whole'
  BY CommitRows DEF CommitFull
<1>2. TypeOK /\ HeadMeansWhole /\ result = "none" /\ (sidecar <= skip \/ sidecar <= line)
  BY DEF IInv, CommitFull
<1>3. TypeOK'
  BY <1>1, <1>2 DEF TypeOK, CommitFull, Steps
<1>4. HeadMeansWhole' /\ ImportIsWhole'
  BY <1>1, <1>2 DEF HeadMeansWhole, DistinctKeys, ImportIsWhole, CommitFull
<1> QED
  BY <1>1, <1>2, <1>3, <1>4 DEF IInv, CommitFull, QueuedUpToLine, RowsUpToLine

\* The sidecar is rewritten between commits, for rows that do not move.
LEMMA SidecarStep ==
  ASSUME IInv, Truncate \/ Record
  PROVE  IInv'
<1>1. TypeOK /\ HeadMeansWhole /\ SidecarIsDurable /\ result = "none" /\ RowsUpToLine
      /\ \A k \in Keys : Reached(k)
  BY DEF IInv, Truncate, Record, RowsUpToLine
<1>2. Len(file) \in Nat /\ line \in 0..Len(file) /\ skip \in 0..Len(file) /\ UNCHANGED file
      /\ UNCHANGED <<rows, line, skip, head, result>>
  BY <1>1, FileIsSequence DEF TypeOK, Truncate, Record
<1>3. \A k \in Keys, n \in Nat : ValueAt(k, n)' = ValueAt(k, n)
  BY <1>2 DEF ValueAt, EntriesOf
<1>4. \A k \in Keys : Reached(k)'
  BY <1>1, <1>2, <1>3 DEF Reached
<1>5. HeadMeansWhole' /\ ImportIsWhole'
  BY <1>1, <1>2, <1>3 DEF HeadMeansWhole, DistinctKeys, Whole, ImportIsWhole
<1>6. CASE Truncate
  <2>1. TypeOK'
    BY <1>1, <1>6, <1>2 DEF TypeOK, Truncate, Steps
  <2>2. SidecarIsDurable'
    BY <1>1, <1>2, <1>3, <1>6 DEF SidecarIsDurable, Truncate, TypeOK
  <2> QED
    BY <1>1, <1>2, <1>4, <1>5, <1>6, <2>1, <2>2 DEF IInv, Truncate, QueuedUpToLine, RowsUpToLine
<1>7. CASE Record
  <2>1. TypeOK'
    BY <1>1, <1>2, <1>7, BatchSizePositive DEF TypeOK, Record, EmptyBatch, Steps
  <2>2. SidecarIsDurable'
    BY <1>2, <1>4, <1>7 DEF SidecarIsDurable, Reached, Record
  <2>3. QueuedUpToLine' /\ RowsUpToLine'
    BY <1>4, <1>7 DEF QueuedUpToLine, RowsUpToLine, Record, EmptyBatch
  <2> QED
    BY <1>1, <1>2, <1>5, <1>7, <2>1, <2>2, <2>3, BatchSizePositive DEF IInv, Record
<1> QED BY <1>6, <1>7

LEMMA CommitRestStep ==
  ASSUME IInv, CommitRest
  PROVE  IInv'
<1>1. /\ rows' \in [Keys -> Values \cup {None}]
      /\ \A k \in Keys : Reached(k)'
      /\ SidecarIsDurable'
  BY CommitRows DEF CommitRest
<1>2. TypeOK /\ result = "none" /\ (sidecar <= skip \/ sidecar <= line) /\ line = Len(file)
      /\ Len(file) \in Nat
  BY FileIsSequence DEF IInv, CommitRest
<1>3. TypeOK'
  BY <1>1, <1>2 DEF TypeOK, CommitRest, Steps
<1>4. Whole'
  BY <1>1, <1>2 DEF Whole, Reached, CommitRest
<1>5. HeadMeansWhole' /\ ImportIsWhole'
  BY <1>4 DEF HeadMeansWhole, ImportIsWhole
<1> QED
  BY <1>1, <1>2, <1>3, <1>4, <1>5 DEF IInv, CommitRest, QueuedUpToLine, RowsUpToLine

----------------------------------------------------------------------------
\* Every step preserves the invariant.
LEMMA InvariantStep == IInv /\ [Next]_vars => IInv'
<1> SUFFICES ASSUME IInv, [Next]_vars PROVE IInv'
  OBVIOUS
<1>1. CASE Start
  BY <1>1, StartStep
<1>2. CASE PassOver \/ Entry \/ Metadata
  BY <1>2, LineStep
<1>3. CASE Malformed \/ Crash
  BY <1>3, ExitStep DEF Malformed, Crash, Ends, IInv, TypeOK
<1>4. CASE CommitFull
  BY <1>4, CommitFullStep
<1>5. CASE Truncate \/ Record
  BY <1>5, SidecarStep
<1>6. CASE CommitRest
  BY <1>6, CommitRestStep
<1>7. CASE Cleanup
  <2>1. Whole /\ line = Len(file) /\ line \in Nat /\ skip \in 0..line
    BY <1>7, FileIsSequence DEF Cleanup, IInv, RowsUpToLine, TypeOK
  <2> QED BY <1>7, <2>1, ExitStep DEF Cleanup, Ends
<1>8. CASE UNCHANGED vars
  <2>1. UNCHANGED <<file, sidecar, rows, head, pc, skip, line, batch, count, seen, result>>
    BY <1>8 DEF vars, import
  <2>2. /\ TypeOK' = TypeOK /\ Idle' = Idle /\ Whole' = Whole /\ DistinctKeys' = DistinctKeys
        /\ QueuedUpToLine' = QueuedUpToLine /\ SidecarIsDurable' = SidecarIsDurable
        /\ \A k \in Keys : Reached(k)' = Reached(k)
    BY <2>1 DEF TypeOK, Idle, Whole, DistinctKeys, QueuedUpToLine, SidecarIsDurable, Reached,
                ValueAt, EntriesOf
  <2>3. RowsUpToLine'
    BY <2>1, <2>2 DEF IInv, RowsUpToLine
  <2>4. ImportIsWhole' /\ HeadMeansWhole'
    BY <2>1, <2>2 DEF IInv, ImportIsWhole, HeadMeansWhole
  <2> QED BY <2>1, <2>2, <2>3, <2>4 DEF IInv
<1> QED
  BY <1>1, <1>2, <1>3, <1>4, <1>5, <1>6, <1>7, <1>8 DEF Next

\* The inductive invariant holds in every state, for any file and any crashes.
THEOREM Invariance == Spec => []IInv
BY InitInvariant, InvariantStep, PTL DEF Spec

\* An import that reports success has written the whole file (lib.rs:113-186).
THEOREM SuccessIsWhole == Spec => []ImportIsWhole
<1>1. IInv => ImportIsWhole
  BY DEF IInv
<1> QED BY <1>1, Invariance, PTL

\* The sidecar never promises rows that are not in the database (lib.rs:168-170).
THEOREM NothingPassedOver == Spec => []SidecarIsDurable
<1>1. IInv => SidecarIsDurable
  BY DEF IInv
<1> QED BY <1>1, Invariance, PTL

\* A database with a head block holds the whole snapshot (lib.rs:183-186).
THEOREM HeadComesLast == Spec => []HeadMeansWhole
<1>1. IInv => HeadMeansWhole
  BY DEF IInv
<1> QED BY <1>1, Invariance, PTL

----------------------------------------------------------------------------
\* An export and its import.

\* The rows in their order, then the head if there is one.
LEMMA ExportLines ==
  /\ Len(Order) \in Nat /\ DOMAIN Order = 1..Len(Order)
  /\ Export \in Seq(Lines) /\ Len(Export) \in Nat
  /\ \A i \in 1..Len(Order) : i \in 1..Len(Export) /\ Export[i] = EntryOf(Order[i])
  /\ \A i \in 1..Len(Export) : i \notin 1..Len(Order) => i = Len(Export) /\ Export[i].kind = "metadata"
<1>1. Len(Order) \in Nat /\ DOMAIN Order = 1..Len(Order)
  BY OrderType
<1>2. \A i \in 1..Len(Order) : EntryOf(Order[i]) \in Lines
  <2> SUFFICES ASSUME NEW i \in 1..Len(Order)
               PROVE  EntryOf(Order[i]) \in Lines
    OBVIOUS
  <2>1. Order[i] \in Keys /\ Source[Order[i]] \in Values
    BY <1>1, OrderType, SourceType
  <2> QED BY <2>1 DEF EntryOf, Lines
<1>3. Entries \in Seq(Lines) /\ Len(Entries) = Len(Order)
      /\ \A i \in 1..Len(Order) : Entries[i] = EntryOf(Order[i])
  BY <1>1, <1>2 DEF Entries
<1>4. HeadLine \in Seq(Lines) /\ Len(HeadLine) \in {0, 1}
      /\ \A i \in 1..Len(HeadLine) : HeadLine[i].kind = "metadata"
  <2>1. CASE SourceHead = None
    BY <2>1 DEF HeadLine
  <2>2. CASE SourceHead # None
    <3> DEFINE meta == [kind |-> "metadata", head |-> SourceHead]
    <3>1. HeadLine = <<meta>>
      BY <2>2 DEF HeadLine
    <3>2. meta \in Lines /\ meta.kind = "metadata"
      BY <2>2, SourceType DEF Lines
    <3> HIDE DEF meta
    <3>3. <<meta>> \in Seq(Lines) /\ Len(<<meta>>) = 1 /\ <<meta>>[1] = meta
      BY <3>2
    <3>4. \A i \in 1..1 : i = 1
      OBVIOUS
    <3> QED BY <3>1, <3>2, <3>3, <3>4
  <2> QED BY <2>1, <2>2
<1>5. /\ Export \in Seq(Lines) /\ Len(Export) = Len(Order) + Len(HeadLine)
      /\ \A i \in 1..(Len(Order) + Len(HeadLine)) :
           Export[i] = IF i <= Len(Order) THEN Entries[i] ELSE HeadLine[i - Len(Order)]
  BY <1>3, <1>4, ConcatProperties DEF Export
<1>6. ASSUME NEW i \in 1..Len(Export), i \notin 1..Len(Order)
      PROVE  i = Len(Export) /\ Export[i].kind = "metadata"
  <2>1. i = Len(Order) + 1 /\ Len(HeadLine) = 1 /\ i - Len(Order) = 1 /\ ~ (i <= Len(Order))
    BY <1>1, <1>4, <1>5, <1>6
  <2> QED BY <1>4, <1>5, <2>1
<1> QED BY <1>1, <1>3, <1>4, <1>5, <1>6

LEMMA ExportHasRow ==
  ASSUME file = Export, NEW k \in Keys, NEW i \in 1..Len(file),
         file[i].kind = "entry", file[i].key = k
  PROVE  i \in 1..Len(Order) /\ Order[i] = k /\ file[i].value = Source[k]
<1>1. i \in 1..Len(Order)
  BY ExportLines
<1>2. file[i] = EntryOf(Order[i])
  BY <1>1, ExportLines
<1> QED BY <1>1, <1>2 DEF EntryOf

\* The whole file brings every row back.
LEMMA WholeRestores ==
  ASSUME file = Export, Whole
  PROVE  Restored
<1> SUFFICES ASSUME NEW k \in Keys, Source[k] # None
             PROVE  rows[k] = Source[k]
  BY DEF Restored
<1>1. PICK i \in 1..Len(Order) : Order[i] = k
  BY ExportLines, OrderType
<1>2. i \in 1..Len(file) /\ file[i].kind = "entry" /\ file[i].key = k /\ file[i].value = Source[k]
  <2>1. i \in 1..Len(file) /\ file[i] = EntryOf(Order[i])
    BY ExportLines
  <2> QED BY <1>1, <2>1 DEF EntryOf
<1>3. EntriesOf(k, Len(file)) = {i}
  <2>1. ASSUME NEW j \in 1..Len(file), file[j].kind = "entry", file[j].key = k
        PROVE  j = i
    BY <1>1, <2>1, ExportHasRow, ExportLines, OrderType
  <2> QED BY <1>2, <2>1 DEF EntriesOf
<1>4. LastOf({i}) = i
  BY <1>2, ExportLines DEF LastOf
<1>5. ValueAt(k, Len(file)) = Source[k]
  BY <1>2, <1>3, <1>4 DEF ValueAt
<1> QED BY <1>5 DEF Whole

LEMMA ExportDistinct ==
  ASSUME file = Export, file \in Seq(Lines)
  PROVE  DistinctKeys
<1> SUFFICES ASSUME NEW i \in 1..Len(file), NEW j \in 1..Len(file),
                    file[i].kind = "entry", file[j].kind = "entry", file[i].key = file[j].key
             PROVE  i = j
  BY DEF DistinctKeys
<1>1. file[i].key \in Keys
  BY DEF Lines
<1>2. /\ i \in 1..Len(Order) /\ Order[i] = file[i].key
      /\ j \in 1..Len(Order) /\ Order[j] = file[i].key
  BY <1>1, ExportHasRow
<1> QED BY <1>2, ExportLines, OrderType

\* A file that was cut off has lost its head.
LEMMA CutOffHasNoHead ==
  ASSUME NEW f \in CutOff(Export), NEW i \in 1..Len(f)
  PROVE  f[i].kind # "metadata"
<1>1. PICK n \in 0..(Len(Export) - 1) :
        f = SubSeq(Export, 1, n) \/ f = SubSeq(Export, 1, n) \o <<[kind |-> "malformed"]>>
  BY DEF CutOff
<1>2. n \in Nat /\ n <= Len(Export) - 1 /\ Len(Export) \in Nat /\ Export \in Seq(Lines)
  BY ExportLines
<1>3. SubSeq(Export, 1, n) \in Seq(Lines) /\ Len(SubSeq(Export, 1, n)) = n
      /\ \A j \in 1..n : SubSeq(Export, 1, n)[j] = Export[j]
  BY <1>2, SubSeqProperties
<1>4. \A j \in 1..n : Export[j].kind # "metadata"
  <2> SUFFICES ASSUME NEW j \in 1..n
               PROVE  Export[j].kind # "metadata"
    OBVIOUS
  <2>1. j \in 1..Len(Export) /\ j # Len(Export)
    BY <1>2
  <2>2. j \in 1..Len(Order)
    BY <2>1, ExportLines
  <2>3. Export[j] = EntryOf(Order[j])
    BY <2>2, ExportLines
  <2> QED BY <2>3 DEF EntryOf
<1>5. CASE f = SubSeq(Export, 1, n)
  BY <1>3, <1>4, <1>5
<1>6. CASE f = SubSeq(Export, 1, n) \o <<[kind |-> "malformed"]>>
  <2> DEFINE s == SubSeq(Export, 1, n)
             bad == [kind |-> "malformed"]
  <2>1. <<bad>> \in Seq(Lines) /\ Len(<<bad>>) = 1 /\ <<bad>>[1] = bad
    BY DEF Lines
  <2>2. Len(f) = n + 1 /\ \A j \in 1..(n + 1) : f[j] = IF j <= n THEN s[j] ELSE <<bad>>[j - n]
    <3> HIDE DEF s, bad
    <3> QED BY <1>2, <1>3, <1>6, <2>1, ConcatProperties DEF s, bad
  <2>3. CASE i \in 1..n
    BY <1>2, <1>3, <1>4, <2>2, <2>3
  <2>4. CASE i \notin 1..n
    <3>1. i = n + 1 /\ i - n = 1 /\ ~ (i <= n)
      BY <1>2, <2>2, <2>4
    <3>2. f[i] = bad
      BY <2>1, <2>2, <3>1
    <3> QED BY <3>2
  <2> QED BY <2>3, <2>4
<1> QED BY <1>1, <1>5, <1>6

LEMMA HeadIsReadInit == Init => HeadIsRead
BY DEF Init, Idle, HeadIsRead

LEMMA HeadIsReadStep == IInv /\ HeadIsRead /\ [Next]_vars => HeadIsRead'
<1> SUFFICES ASSUME IInv, HeadIsRead, [Next]_vars
             PROVE  HeadIsRead'
  OBVIOUS
<1>1. file' = file
  BY DEF Next, Start, PassOver, Malformed, Entry, Metadata, CommitFull, Truncate, Record,
         CommitRest, Cleanup, Crash, vars
<1>2. CASE Metadata
  <2>1. line + 1 \in 1..Len(file) /\ file[line + 1].kind = "metadata"
    BY <1>2, FileIsSequence DEF Metadata, MoreLines, NextLine, IInv, TypeOK
  <2> QED BY <1>1, <2>1 DEF HeadIsRead
<1>3. CASE ~ Metadata
  <2>1. seen' \in {seen, None} /\ head' \in {head, seen}
    BY <1>3 DEF Next, Start, PassOver, Malformed, Entry, CommitFull, Truncate, Record,
                CommitRest, Cleanup, Crash, Exit, vars, import
  <2> QED BY <1>1, <2>1 DEF HeadIsRead
<1> QED BY <1>2, <1>3

\* What is exported comes back: all of it, when the import of the file succeeds, and
\* whenever the database has a head, even of a file that was cut off (lib.rs:232-288).
THEOREM ExportsComeBack == Spec => []RoundTrip
<1>1. IInv /\ HeadIsRead => RoundTrip
  <2> SUFFICES ASSUME IInv, HeadIsRead
               PROVE  RoundTrip
    OBVIOUS
  <2>1. ImportIsWhole /\ HeadMeansWhole /\ file \in Seq(Lines)
    BY FileIsSequence DEF IInv
  <2>2. (file = Export /\ result = "ok") => Restored
    BY <2>1, WholeRestores DEF ImportIsWhole
  <2>3. ASSUME file \in {Export} \cup CutOff(Export), head # None
        PROVE  Restored
    <3>1. file \notin CutOff(Export)
      BY <2>3, CutOffHasNoHead DEF HeadIsRead
    <3>2. file = Export
      BY <2>3, <3>1
    <3>3. Whole
      BY <2>1, <2>3, <3>2, ExportDistinct DEF HeadMeansWhole
    <3> QED BY <3>2, <3>3, WholeRestores
  <2> QED BY <2>2, <2>3 DEF RoundTrip
<1>2. Init => IInv /\ HeadIsRead
  BY InitInvariant, HeadIsReadInit
<1>3. IInv /\ HeadIsRead /\ [Next]_vars => (IInv /\ HeadIsRead)'
  BY InvariantStep, HeadIsReadStep
<1> QED BY <1>1, <1>2, <1>3, PTL DEF Spec
=============================================================================
