---------------------------- MODULE MCSqdFetcher ----------------------------
(***************************************************************************)
(* Small ranges: bounded, open-ended, of one block, empty, beyond the      *)
(* portal's height.                                                        *)
(***************************************************************************)
EXTENDS SqdFetcher

OpenEnded == {0, 2, 6} \X {None}
Bounded == {<<1, 3>>, <<4, 6>>, <<0, 4>>, <<3, 2>>, <<2, 2>>}
SomeRanges == OpenEnded \cup Bounded
=============================================================================
