-------------------------- MODULE ReplayerChains --------------------------
(***************************************************************************)
(* The chains that the runs of the replayer follow, and the network's      *)
(* states along the chain that a run chose.                                *)
(***************************************************************************)
EXTENDS Replayer, ToyEvm, SequencesExt

Tx(from, nonce, to, op) == [from |-> from, to |-> to, gas |-> 1, nonce |-> nonce, op |-> op]
SystemTx(to, op) == [from |-> "zero", to |-> to, gas |-> 0, nonce |-> 0, op |-> op]
Plain(txs) == [txs |-> txs, diffs |-> <<>>]
Diff(address, key, kind, next) == [address |-> address, key |-> key, kind |-> kind, next |-> next]
Gone(address) == [i \in 1..3 |-> Diff(address, <<"balance", "nonce", "code">>[i], "-", None)]

\* A deployment, calls of two senders and of the system, transfers and an empty
\* block; then state sync transactions described by diffs: two in a block that call
\* the contract, some that pay it, after its slot or its balance just changed, and
\* some that create a second contract and call it, which the next block calls too.
\* At the end the system deletes a contract, and another one takes its place.
MixedChain ==
  <<Plain(<<Tx("alice", 0, "dapp", "create_initialized"), Tx("alice", 1, "dapp", "call")>>),
    Plain(<<Tx("bob", 0, "dapp", "call"), SystemTx("dapp", "call"), Tx("alice", 2, "bob", "pay")>>),
    Plain(<<>>),
    [txs   |-> <<Tx("bob", 1, "dapp", "call"), SystemTx("dapp", "call"), SystemTx("dapp", "call")>>,
     diffs |-> <<Diff("dapp", "count", "*", 6), Diff("dapp", "count", "*", 7)>>],
    [txs   |-> <<Tx("alice", 3, "dapp", "reset"), SystemTx("dapp", "pay")>>,
     diffs |-> <<Diff("dapp", "balance", "*", 1)>>],
    [txs   |-> <<SystemTx("vault", "create_initialized"), SystemTx("vault", "call")>>,
     diffs |-> <<Diff("vault", "nonce", "+", 1), Diff("vault", "code", "+", counter),
                 Diff("vault", "count", "+", 1), Diff("vault", "count", "*", 2)>>],
    Plain(<<Tx("bob", 2, "vault", "call"), Tx("alice", 4, "dapp", "call")>>),
    [txs   |-> <<Tx("bob", 3, "dapp", "pay"), Tx("alice", 5, "dapp", "call"), SystemTx("dapp", "pay")>>,
     diffs |-> <<Diff("dapp", "balance", "*", 3)>>],
    Plain(<<Tx("alice", 6, "shed", "create")>>),
    [txs   |-> <<Tx("bob", 4, "dapp", "call"), SystemTx("shed", "destroy")>>,
     diffs |-> Gone("shed")],
    Plain(<<Tx("alice", 7, "shed", "create_initialized")>>)>>

\* A contract destroys itself in block 2; block 3 deploys it again.
DestroyChain ==
  <<Plain(<<Tx("alice", 0, "dapp", "create_initialized")>>),
    Plain(<<Tx("alice", 1, "dapp", "destroy")>>),
    Plain(<<Tx("alice", 2, "dapp", "create")>>),
    Plain(<<Tx("bob", 0, "dapp", "call")>>)>>

----------------------------------------------------------------------------
Genesis ==
  [acct |-> [a \in Addr |-> IF a \in {"alice", "bob"}
                            THEN [nonce |-> 0, balance |-> 1, code |-> NoCode] ELSE None],
   slot |-> [a \in Addr |-> [s \in Slot |-> 0]]]

\* The network runs a system transaction without validation, with gas to spend.
NetworkRun(tx, w) ==
  IF tx.from = "zero" THEN ExecuteSystemCall([tx EXCEPT !.gas = 1], w) ELSE Execute(tx, w)

\* TLC tabulates a function when it compares it, and not before.
Tabulated(w) == IF w = w THEN w ELSE Genesis

\* The states of the block with these transactions, the one before it first.
Along(start, txs) ==
  FoldLeft(LAMBDA seen, tx : LET w == seen[Len(seen)]
                             IN  Append(seen, Tabulated(ApplyTx(w, NetworkRun(tx, w)))),
           <<start>>, txs)

\* The states of all the blocks, of genesis first.
History ==
  FoldLeft(LAMBDA seen, b : LET states == seen[Len(seen)]
                            IN  Append(seen, Along(states[Len(states)], b.txs)),
           <<<<Genesis>>>>, Chain)

StateAfter(n, i) == History[n + 1][i + 1]
TxCount(n) == Len(History[n + 1]) - 1
ChainPost == [n \in 0..Blocks |-> StateAfter(n, TxCount(n))]
ChainCanon == [n \in 1..Blocks |-> [i \in 0..TxCount(n) |-> StateAfter(n, i)]]
=============================================================================
