---------------------------- MODULE MCReplayer ----------------------------
(***************************************************************************)
(* Model checking the replayer on a chain that meets its assumptions, the  *)
(* process killed anywhere but between the two commits of a hybrid block.  *)
(***************************************************************************)
EXTENDS ReplayerCorrect, ReplayerChains

ASSUME CommitsNotCutOff == NoCrashBetweenCommits
=============================================================================
