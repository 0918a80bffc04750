---- MODULE BlockLedger ----
(***************************************************************************)
(* What the replayer promises of the database: it holds the network's      *)
(* state after a block, at first the genesis, and each commit makes it the *)
(* state after the next block.  "Either all changes from a block are       *)
(* committed, or none are" (crates/replayer/README.md).                    *)
(***************************************************************************)
EXTENDS Naturals

CONSTANTS
  Blocks,  \* the number of the chain's last block
  Post     \* the network's state after each block, from 0 for the genesis

VARIABLES
  head,    \* the block that was committed last
  world    \* what the rows read as

durable == <<head, world>>

Genesis == world = Post[0] /\ head = 0

\* Block n follows the head; its changes and its number become durable together.
CommitWhole(n) ==
  /\ n = head + 1
  /\ durable' = <<n, Post[n]>>

CommitNext == \E n \in 1..Blocks : CommitWhole(n)

Spec == Genesis /\ [][CommitNext]_durable
====
