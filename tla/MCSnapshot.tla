---------------------------- MODULE MCSnapshot ----------------------------
(***************************************************************************)
(* Small snapshot files: with the metadata first, last and missing, with   *)
(* blank lines, with a key written twice, one that does not parse; and     *)
(* the export of a small database, whole and cut off.                      *)
(***************************************************************************)
EXTENDS SnapshotExport

E(k, v) == [kind |-> "entry", key |-> k, value |-> v]
M(n) == [kind |-> "metadata", head |-> n]
Blank == [kind |-> "blank"]
Bad == [kind |-> "malformed"]

MetadataLast == <<E("alice", "a1"), E("dapp", "d1"), E("slot", "s1"), E("code", "c1"), M(7)>>
MetadataFirst == <<M(7), E("alice", "a1"), Blank, E("dapp", "d1"), E("slot", "s1")>>
FullLastBatch == <<E("alice", "a1"), E("dapp", "d1"), E("slot", "s1"), M(7)>>
NoMetadata == <<E("alice", "a1"), E("dapp", "d1"), E("slot", "s1"), E("code", "c1"), Blank>>
WrittenTwice == <<E("alice", "a1"), E("dapp", "d1"), E("alice", "a2"), E("dapp", "d2"), E("alice", "a3")>>
Garbled == <<E("alice", "a1"), E("dapp", "d1"), E("slot", "s1"), Bad, M(7)>>

KeyOrder == <<"alice", "slot", "code">>
Exported == [k \in Keys |-> CASE k = "alice" -> "a1" [] k = "slot" -> "s1" [] k = "code" -> "c1" [] k = "dapp" -> None]
ExportedHead == 7

AllFiles == {Export} \cup CutOff(Export) \cup {MetadataLast, MetadataFirst, FullLastBatch, NoMetadata, WrittenTwice, Garbled, <<>>}
ResumedFile == {FullLastBatch}
EmptyRows == [k \in Keys |-> IF k = "code" THEN "c0" ELSE None]
=============================================================================
