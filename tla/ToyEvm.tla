------------------------------ MODULE ToyEvm ------------------------------
(***************************************************************************)
(* An EVM small enough for TLC, for the runs of the replayer: a contract   *)
(* whose calls increment a slot (so replaying one twice shows), transfers, *)
(* contract creation and destruction.                                      *)
(***************************************************************************)
EXTENDS Network, Sequences

CONSTANTS counter,   \* the bytecode of the counter contract
          Failed     \* stands for an EVM error

Unchanged(w, a) == [status |-> "untouched", info |-> None, slot |-> [s \in Slot |-> Keep]]
Touch(info) == [status |-> "touched", info |-> info, slot |-> [s \in Slot |-> Keep]]
InfoOf(w, a) == IF w.acct[a] = None THEN [nonce |-> 0, balance |-> 0, code |-> NoCode]
                ELSE w.acct[a]

\* What the execution of tx does to its target.
Body(tx, w) ==
  LET to == InfoOf(w, tx.to)
      set(v) == [s \in Slot |-> IF s = "count" THEN v ELSE Keep]
  IN  CASE tx.op = "call" /\ to.code = counter ->
             [status |-> "touched", info |-> to, slot |-> set(w.slot[tx.to]["count"] + 1)]
        [] tx.op = "reset" /\ to.code = counter ->
             [status |-> "touched", info |-> to, slot |-> set(0)]
        [] tx.op = "create" ->
             [status |-> "created", slot |-> [s \in Slot |-> Keep],
              info |-> [nonce |-> 1, balance |-> to.balance, code |-> counter]]
        [] tx.op = "create_initialized" ->
             [status |-> "created", slot |-> set(1),
              info |-> [nonce |-> 1, balance |-> to.balance, code |-> counter]]
        [] tx.op = "destroy" ->
             [status |-> "destroyed", info |-> None, slot |-> [s \in Slot |-> Keep]]
        [] tx.op = "pay" -> Touch([to EXCEPT !.balance = @ + 1])
        [] OTHER -> Unchanged(w, tx.to)

Sent(tx, w) ==
  LET from == InfoOf(w, tx.from)
  IN  [from EXCEPT !.nonce = @ + 1, !.balance = IF tx.op = "pay" THEN @ - 1 ELSE @]

\* The full pipeline: nonce and gas are checked, then the nonce moves.
Execute(tx, w) ==
  IF tx.nonce # InfoOf(w, tx.from).nonce \/ tx.gas = 0
     \/ (tx.op = "pay" /\ InfoOf(w, tx.from).balance = 0)
  THEN Failed
  ELSE [a \in Addr |-> CASE a = tx.from -> Touch(Sent(tx, w))
                         [] a = tx.to   -> Body(tx, w)
                         [] OTHER       -> Unchanged(w, a)]

\* Execution only; without gas it halts at once and changes nothing.
ExecuteSystemCall(tx, w) ==
  [a \in Addr |-> IF a = tx.to /\ tx.gas > 0 THEN Body(tx, w) ELSE Unchanged(w, a)]
=============================================================================
