-------------------------- MODULE MCReplayerCrash --------------------------
(***************************************************************************)
(* Model checking the replayer on the same chain, the process killed       *)
(* anywhere, between the two commits of a hybrid block too.                *)
(***************************************************************************)
EXTENDS ReplayerCorrect, ReplayerChains

\* "Crash-safe: if we crash between the two commits, head_block is not yet advanced
\* so the block will be re-replayed" (lib.rs:180-181): a block of the chain
\* replays, whenever the process was killed before.
CrashSafe == CanonicalBlocksReplay
=============================================================================
