---------------------------- MODULE MCDivergence ----------------------------
(***************************************************************************)
(* All histories of one slot with two values over a few blocks.            *)
(***************************************************************************)
EXTENDS Divergence

AllHistories == [Blocks -> Values]
=============================================================================
