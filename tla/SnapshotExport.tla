--------------------------- MODULE SnapshotExport ---------------------------
(***************************************************************************)
(* The snapshot file that an export of a database writes, and what it      *)
(* brings back when it is imported.  An export writes nothing but its      *)
(* file; if it dies, the file ends anywhere, in the middle of a line too.  *)
(***************************************************************************)
EXTENDS Snapshot

CONSTANTS
  Source,  \* the rows of the database exported
  Order,   \* their keys as the iterators give them: accounts, storage, code
  SourceHead

ASSUME SourceType == Source \in [Keys -> Values \cup {None}] /\ SourceHead \in Nat \cup {None}
\* The iterators give every row once.
ASSUME OrderType ==
  /\ Order \in Seq(Keys)
  /\ \A i, j \in DOMAIN Order : Order[i] = Order[j] => i = j
  /\ \A k \in Keys : Source[k] # None <=> \E i \in DOMAIN Order : Order[i] = k

EntryOf(k) == [kind |-> "entry", key |-> k, value |-> Source[k]]
Entries == [i \in DOMAIN Order |-> EntryOf(Order[i])]
HeadLine == IF SourceHead = None THEN <<>> ELSE <<[kind |-> "metadata", head |-> SourceHead]>>

\* Mutant: the metadata is written first.
Export_m == HeadLine \o Entries

\* The metadata is the last line, and there is none without a head block.
Export == Entries \o HeadLine

\* What an export that died may leave: some of its lines, the last one cut off.
CutOff(f) ==
  {SubSeq(f, 1, n) : n \in 0..(Len(f) - 1)}
    \cup {SubSeq(f, 1, n) \o <<[kind |-> "malformed"]>> : n \in 0..(Len(f) - 1)}

\* A head block comes from a metadata line, read now or earlier.
HeadIsRead ==
  (seen # None \/ head # None) => \E i \in 1..Len(file) : file[i].kind = "metadata"

\* The rows exported are back when the import of the whole file reports success, and
\* whenever the database has a head: a file that was cut off never sets one, however
\* the import was interrupted (lib.rs:285-288 of the export, 183-186 of the import).
Restored == \A k \in Keys : Source[k] # None => rows[k] = Source[k]

RoundTrip ==
  /\ (file = Export /\ result = "ok") => Restored
  /\ (file \in {Export} \cup CutOff(Export) /\ head # None) => Restored
=============================================================================
