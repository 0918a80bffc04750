------------------------------ MODULE MCClient ------------------------------
(***************************************************************************)
(* A contract that delegates to a library, and a library that can be       *)
(* called itself; a database that stays, gains a row, moves its caller's   *)
(* nonce, changes the library's code or lacks a code row.  The heads lie   *)
(* on both sides of a fork of Polygon's.                                   *)
(***************************************************************************)
EXTENDS ClientCorrect

Op(op, of, what) == [op |-> op, self |-> of, of |-> of, what |-> what]

Bodies == [c \in Code |->
  CASE c = "front" -> <<Op("balance", "alice", None), Op("delegatecall", "lib", None)>>
    [] c = "lib1" -> <<Op("sload", "lib", "s")>>
    [] c = "lib2" -> <<Op("sload", "lib", "s"), Op("number", "lib", None)>>]

Contract(c) == [nonce |-> 1, balance |-> 0, code |-> c]
Person(n, b) == [nonce |-> n, balance |-> b, code |-> NoCode]

State(alice, lib, s, codes, n) ==
  [acct |-> [a \in Addr |-> CASE a = "alice" -> alice [] a = "front" -> Contract("front")
                              [] a = "lib" -> Contract(lib)],
   slot |-> [a \in Addr |-> [t \in Slot |-> IF a = "front" THEN s ELSE None]],
   code |-> codes, head |-> n]

Early == State(None, "lib1", 1, {"front", "lib1"}, 50522999)
Later == State(Person(0, 5), "lib1", 2, {"front", "lib1"}, 50523000)
Spent == State(Person(1, 5), "lib1", 2, {"front", "lib1"}, 50523000)
Renewed == State(None, "lib2", 1, {"front", "lib1", "lib2"}, 50523000)
Lacking == State(None, "lib1", 1, {"front"}, 50522999)

SomeHistories == {<<Early, Later>>, <<Early, Renewed>>, <<Lacking, Spent>>}

From(a, b) == [from |-> a, to |-> b]
SomeRequests == {From("alice", "front"), From("alice", "lib")}

Native(n) == [fetches |-> TRUE, capacity |-> n, verifies |-> TRUE, rules |-> SpecId("LONDON")]
Browser == [fetches |-> FALSE, capacity |-> 9, verifies |-> TRUE, rules |-> SpecId("CANCUN")]
Trusting == [fetches |-> TRUE, capacity |-> 2, verifies |-> FALSE, rules |-> SpecId("LONDON")]

SomeClients == {Native(1), Native(2), Native(3), Browser, Trusting}
=============================================================================
