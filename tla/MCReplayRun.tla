---------------------------- MODULE MCReplayRun ----------------------------
(***************************************************************************)
(* Runs of the replay command on a portal that grows to a few blocks.      *)
(***************************************************************************)
EXTENDS ReplayRun

Unasked == {<<0, None>>}
=============================================================================
