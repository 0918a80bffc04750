---------------------------- MODULE MCValidation ----------------------------
(***************************************************************************)
(* Databases of up to two kinds of account, and one of many alike for the  *)
(* sampling, against nodes that agree or differ in one field.              *)
(***************************************************************************)
EXTENDS Validation

User(w) == [nonce |-> 1, code |-> NoCode, writer |-> w]
Contract == [nonce |-> 1, code |-> "c1", writer |-> "evm"]
Many == [i \in 1..7 |-> IF i = 2 THEN Contract ELSE User("genesis_without_code")]

SomeAccounts == {<<User(w), Contract>> : w \in Writers} \cup {<<>>, Many}
SomeSlots == {<<1>>, <<1, 0, 1, 1, 1, 1, 1, 1, 1, 1>>}

Truth == [nonce |-> [i \in 1..10 |-> 1],
          code |-> [i \in 1..10 |-> IF i = 2 THEN "c1" ELSE NoCode],
          value |-> [i \in 1..10 |-> IF i = 2 THEN 0 ELSE 1]]
SomeNodes ==
  {Truth, [Truth EXCEPT !.nonce[1] = 2], [Truth EXCEPT !.code[2] = NoCode],
   [Truth EXCEPT !.code[2] = "c2"], [Truth EXCEPT !.value[1] = 0]}
=============================================================================
