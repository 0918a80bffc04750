------------------------- MODULE MCReplayerFaults -------------------------
(***************************************************************************)
(* The replayer where the chain does not meet its assumptions: a contract  *)
(* destroys itself.                                                        *)
(***************************************************************************)
EXTENDS ReplayerChains

\* "flushes all accumulated state changes to the StateDb atomically"
\* (lib.rs:57-58): a contract that destroyed itself is gone, its storage too.
AllChangesFlushed == DbAgreesWithHead
=============================================================================
