----------------------------- MODULE Validation -----------------------------
(***************************************************************************)
(* validate_random: evenly spaced rows of the database are compared, one   *)
(* RPC call per field, with a remote node (crates/validation; the validate *)
(* command of crates/cli).                                                 *)
(*                                                                         *)
(* A row is [key, nonce, hash] or [key, value]: balances are compared the  *)
(* way nonces are.  The hash of a contract is its code.  "No code" has two *)
(* hashes, and which one a row holds depends on who wrote it.              *)
(***************************************************************************)
EXTENDS Naturals, Sequences

CONSTANTS
  Code,       \* codes of contracts
  NoCode,     \* the empty code
  ZeroHash,   \* B256::ZERO
  EmptyHash,  \* keccak256 of the empty code
  Samples,    \* the --samples given
  Accounts,   \* sequences of what accounts are: [nonce, code, writer]
  Slots,      \* sequences of storage values
  Nodes       \* the node's answers: [nonce, code, value], by position

Writers == {"genesis_without_code", "genesis_empty_code", "state_diffs", "evm"}

\* The hash that each writer of account rows stores.  Genesis hashes the code that
\* the file gives, even an empty one; a patched new account starts from zero; the
\* overlay of the EVM replaces a zero hash before it is flushed.
HashWritten(account) ==
  CASE account.code # NoCode -> account.code
    [] account.code = NoCode /\ account.writer \in {"genesis_without_code", "state_diffs"} -> ZeroHash
    [] account.code = NoCode /\ account.writer \in {"genesis_empty_code", "evm"} -> EmptyHash

\* Sample i of n among len rows has the index i * (len / n), cut off.  The division
\* is one of floats: when it is not exact, a product that should be whole may fall
\* just short of it.
MayFallShort(len, n) == {i \in 1..(n - 1) : (i * len) % n = 0 /\ len % n # 0}

\* Mutant: more samples than rows are not cut down to the rows.
SamplesOf_m(len, n) ==
  IF len = 0 \/ n = 0 THEN {<<>>}
  ELSE {[i \in 1..n |-> ((i - 1) * len) \div n + 1]}

\* The samples taken, as positions from 1 on, for any way the products round.
SamplesOf(len, n) ==
  IF len = 0 \/ n = 0 THEN {<<>>}
  ELSE IF n >= len THEN {[i \in 1..len |-> i]}
  ELSE {[i \in 1..n |-> ((i - 1) * len) \div n + (IF i - 1 \in short THEN 0 ELSE 1)] :
          short \in SUBSET MayFallShort(len, n)}

----------------------------------------------------------------------------
\* The hashes of no code are two, and no contract has them.
ASSUME HashesDiffer ==
  /\ ZeroHash # EmptyHash
  /\ Code \cap {NoCode, ZeroHash, EmptyHash} = {} /\ NoCode \notin {ZeroHash, EmptyHash}

ASSUME RowsType ==
  /\ Samples \subseteq Nat
  /\ Accounts \subseteq Seq([nonce: Nat, code: Code \cup {NoCode}, writer: Writers])
  /\ Slots \subseteq Seq(Nat)
ASSUME NodesType ==
  \A n \in Nodes : \A a \in Accounts : \A p \in 1..Len(a) : n.code[p] \in Code \cup {NoCode}

VARIABLES
  accounts, slots,  \* the database: what the rows stand for
  node,             \* the remote node
  count,            \* the number of samples asked for
  atAccounts,       \* positions of the sampled account rows
  atSlots,          \* positions of the sampled storage rows
  todo,             \* checks still to be made: <<field, position>>
  mismatches,       \* checks that did not match
  outcome           \* "none" while validation runs

given == <<accounts, slots, node, count, atAccounts, atSlots>>
vars == <<given, todo, mismatches, outcome>>

\* The checks: each sampled account field by field, then the sampled slots.
ChecksOf(a, s) ==
  [i \in 1..(2 * Len(a)) |->
     <<IF i % 2 = 1 THEN "nonce" ELSE "codeHash", a[(i + 1) \div 2]>>]
  \o [i \in 1..Len(s) |-> <<"storage", s[i]>>]

Init ==
  /\ accounts \in Accounts /\ slots \in Slots /\ node \in Nodes /\ count \in Samples
  /\ atAccounts \in SamplesOf(Len(accounts), count)
  /\ atSlots \in SamplesOf(Len(slots), count)
  /\ todo = ChecksOf(atAccounts, atSlots)
  /\ mismatches = {} /\ outcome = "none"

\* Mutant: the empty code is hashed like any other.
RemoteHash_m(p) == IF node.code[p] = NoCode THEN EmptyHash ELSE node.code[p]

\* The node's code is hashed for the comparison, except that the empty code counts
\* as a zero hash.
RemoteHash(p) == IF node.code[p] = NoCode THEN ZeroHash ELSE node.code[p]

\* Mutant: codes are not compared.
Matches_m(check) ==
  LET p == check[2]
  IN  CASE check[1] = "nonce"    -> accounts[p].nonce = node.nonce[p]
        [] check[1] = "codeHash" -> TRUE
        [] check[1] = "storage"  -> slots[p] = node.value[p]

Matches(check) ==
  LET p == check[2]
  IN  CASE check[1] = "nonce"    -> accounts[p].nonce = node.nonce[p]
        [] check[1] = "codeHash" -> HashWritten(accounts[p]) = RemoteHash(p)
        [] check[1] = "storage"  -> slots[p] = node.value[p]

Check ==
  /\ outcome = "none" /\ todo # <<>>
  /\ todo' = Tail(todo)
  /\ mismatches' = mismatches \cup (IF Matches(Head(todo)) THEN {} ELSE {Head(todo)})
  /\ UNCHANGED <<given, outcome>>

\* A failed call ends the validation without a report.
CallFails ==
  /\ outcome = "none" /\ todo # <<>>
  /\ outcome' = "error"
  /\ UNCHANGED <<given, todo, mismatches>>

Report ==
  /\ outcome = "none" /\ todo = <<>>
  /\ outcome' = IF mismatches = {} THEN "valid" ELSE "invalid"
  /\ UNCHANGED <<given, todo, mismatches>>

Done == outcome # "none" /\ UNCHANGED vars

Next == Check \/ CallFails \/ Report \/ Done

Spec == Init /\ [][Next]_vars

----------------------------------------------------------------------------
\* What really differs, whoever wrote the row.
AccountDiffers(p) == accounts[p].nonce # node.nonce[p] \/ accounts[p].code # node.code[p]
SlotDiffers(p) == slots[p] # node.value[p]

Smaller(a, b) == IF a <= b THEN a ELSE b

\* As many different rows are sampled as asked for, or all: no row is taken twice,
\* though positions are computed with floats that may fall short (lib.rs:322-325).
SamplesSpread ==
  /\ Len(atAccounts) = Smaller(count, Len(accounts))
  /\ \A i, j \in 1..Len(atAccounts) : i < j => atAccounts[i] < atAccounts[j]
  /\ Len(atSlots) = Smaller(count, Len(slots))
  /\ \A i, j \in 1..Len(atSlots) : i < j => atSlots[i] < atSlots[j]

\* A valid report means that no sampled row differs from the node's, and, when every
\* row was sampled, that none does (lib.rs:188-223).
ValidIsRight ==
  outcome = "valid" =>
    /\ \A i \in 1..Len(atAccounts) : ~ AccountDiffers(atAccounts[i])
    /\ \A i \in 1..Len(atSlots) : ~ SlotDiffers(atSlots[i])
    /\ count >= Len(accounts) => \A p \in 1..Len(accounts) : ~ AccountDiffers(p)

\* The fields that are sampled, and those in which a row really differs.
Sampled ==
  ({"nonce", "codeHash"} \X {atAccounts[i] : i \in 1..Len(atAccounts)})
    \cup ({"storage"} \X {atSlots[i] : i \in 1..Len(atSlots)})
Differs(check) ==
  LET p == check[2]
  IN  CASE check[1] = "nonce"    -> accounts[p].nonce # node.nonce[p]
        [] check[1] = "codeHash" -> accounts[p].code # node.code[p]
        [] check[1] = "storage"  -> SlotDiffers(p)

\* The second hash of no code, which the comparison does not know.
OtherEmptyHash(check) ==
  /\ check[1] = "codeHash" /\ accounts[check[2]].code = NoCode
  /\ HashWritten(accounts[check[2]]) = EmptyHash

\* Every mismatch is of a sampled row, which differs from the node's in that very field,
\* or is an account without code whose row holds the hash of the empty code; and an
\* invalid report names something, and every sampled field that differs
\* (lib.rs:188-223, 252-265).
AlarmHasReason ==
  /\ \A m \in mismatches : m \in Sampled /\ (Differs(m) \/ OtherEmptyHash(m))
  /\ outcome = "invalid" =>
       mismatches # {} /\ \A check \in Sampled : Differs(check) => check \in mismatches

----------------------------------------------------------------------------
\* The inductive invariant: the checks made so far are the first of those to be made,
\* and the mismatches are the ones among them that do not match.
Checks == ChecksOf(atAccounts, atSlots)
Made == Len(Checks) - Len(todo)

GivenOK ==
  /\ accounts \in Accounts /\ slots \in Slots /\ node \in Nodes /\ count \in Samples
  /\ atAccounts \in SamplesOf(Len(accounts), count)
  /\ atSlots \in SamplesOf(Len(slots), count)

ChecksInOrder ==
  /\ todo \in Seq({"nonce", "codeHash", "storage"} \X Nat) /\ Len(todo) <= Len(Checks)
  /\ \A i \in 1..Len(todo) : todo[i] = Checks[Made + i]

MismatchesSoFar ==
  /\ \A i \in 1..Made : Matches(Checks[i]) \/ Checks[i] \in mismatches
  /\ \A m \in mismatches : \E i \in 1..Len(Checks) : m = Checks[i] /\ ~ Matches(m)

ReportInv ==
  /\ outcome = "valid" => todo = <<>> /\ mismatches = {}
  /\ outcome = "invalid" => todo = <<>> /\ mismatches # {}

IInv == GivenOK /\ ChecksInOrder /\ MismatchesSoFar /\ ReportInv
=============================================================================
