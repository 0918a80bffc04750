------------------------------ MODULE MCServer ------------------------------
(***************************************************************************)
(* Two directories, two processes, a chain of three blocks and one         *)
(* connection at a time.  The first block has no code; the transactions of *)
(* the last one delete the account, and its state diffs change the slot.   *)
(***************************************************************************)
EXTENDS Server, TLC

CONSTANTS p, q

Iterated == <<"account", "slot", "code">>
States == [n \in 0..2 |-> [r \in Rows |->
  CASE r = "account" -> IF n = 2 THEN None ELSE n
    [] r = "slot" -> n
    [] r = "code" -> IF n = 0 THEN None ELSE 1]]
Overlays == [n \in {2} |-> [States[1] EXCEPT !["account"] = None]]
HasCodeRow == [v \in Values |-> IF v = 0 THEN None ELSE "code"]

NoOptions == [db |-> None, chain |-> None, dataset |-> None, from |-> None]
PolygonConfig == [NoOptions EXCEPT !.db = "a", !.dataset = "polygon-mainnet"]
CommandLines ==
  {NoOptions, [NoOptions EXCEPT !.chain = 1],
   [NoOptions EXCEPT !.db = "b", !.from = 1], [NoOptions EXCEPT !.db = "b", !.from = 2]}

Lists == {<<"code", "slot">>, <<"bad", "account">>}
Processes == Permutations({p, q})
=============================================================================
