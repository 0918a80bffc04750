------------------------------ MODULE Network ------------------------------
(***************************************************************************)
(* The network being followed, outside the repository: its transactions,   *)
(* what the changes that a transaction makes mean to a full node, and what *)
(* a state diff of the data portal means.  The replayer is compared with   *)
(* this.                                                                   *)
(***************************************************************************)
EXTENDS StateDb

\* op stands for a transaction's input data: what it asks of its target.
Txs == [from: Addr, to: Addr, gas: Nat, nonce: Nat, op: STRING]

\* What the EVM reports of a transaction, per account: revm's EvmState.
Statuses == {"untouched", "touched", "created", "destroyed"}
Changes == [Addr -> [status: Statuses,
                     info: AccountInfo \cup {None},
                     slot: [Slot -> Nat \cup {Keep}]]]

\* Destroying an account drops its storage, and a new account starts with none.
AccountAfter(w, ch, a) ==
  CASE ch[a].status = "untouched" -> w.acct[a]
    [] ch[a].status = "destroyed" -> None
    [] ch[a].status \in {"created", "touched"} -> ch[a].info

SlotAfter(w, ch, a, s) ==
  CASE ch[a].status = "untouched" -> w.slot[a][s]
    [] ch[a].status = "destroyed" -> 0
    [] ch[a].status = "created"   -> IF ch[a].slot[s] = Keep THEN 0 ELSE ch[a].slot[s]
    [] ch[a].status = "touched"   ->
         IF ch[a].slot[s] = Keep THEN w.slot[a][s] ELSE ch[a].slot[s]

ApplyTx(w, ch) ==
  [acct |-> [a \in Addr |-> AccountAfter(w, ch, a)],
   slot |-> [a \in Addr |-> [s \in Slot |-> SlotAfter(w, ch, a, s)]]]

\* The fields of an account that a state diff can name, besides its slots.
AccountFields == {"nonce", "balance", "code"}
ASSUME SlotsAreNoFields == Slot \cap AccountFields = {}

\* A deletion ("-") may come without a next value; an insertion or an update has one.
StateDiffs == [address: Addr, key: AccountFields \cup Slot,
               kind: {"+", "*", "-"}, next: Nat \cup Code \cup {NoCode, None}]

\* The diffs of a block are a list, in the order of its system transactions.
Latest(places) == CHOOSE i \in places : \A j \in places : j <= i

\* An account goes when one of its fields does, and its storage goes with it.
Deletions(diffs, a) ==
  {i \in DOMAIN diffs : diffs[i].address = a /\ diffs[i].key \in AccountFields
                          /\ diffs[i].kind = "-"}

\* What counts is behind an account's last deletion.
Since(diffs, a, key) ==
  {i \in DOMAIN diffs : diffs[i].address = a /\ diffs[i].key = key
                          /\ \A j \in Deletions(diffs, a) : j < i}
DiffOf(diffs, a, key) == diffs[Latest(Since(diffs, a, key))]
New(diffs, a, key, old) == IF Since(diffs, a, key) = {} THEN old ELSE DiffOf(diffs, a, key).next

Blank == [nonce |-> 0, balance |-> 0, code |-> NoCode]

AccountWithDiffs(w, diffs, a) ==
  LET was == IF w.acct[a] = None \/ Deletions(diffs, a) # {} THEN Blank ELSE w.acct[a]
  IN  IF ~ \E i \in DOMAIN diffs : diffs[i].address = a THEN w.acct[a]
      ELSE IF /\ Deletions(diffs, a) # {}
              /\ \A key \in AccountFields : Since(diffs, a, key) = {}
           THEN None
      ELSE [nonce   |-> New(diffs, a, "nonce", was.nonce),
            balance |-> New(diffs, a, "balance", was.balance),
            code    |-> New(diffs, a, "code", was.code)]

SlotWithDiffs(w, diffs, a, s) ==
  IF Since(diffs, a, s) # {} /\ DiffOf(diffs, a, s).kind = "-" THEN 0
  ELSE New(diffs, a, s, IF Deletions(diffs, a) # {} THEN 0 ELSE w.slot[a][s])

ApplyDiffs(w, diffs) ==
  [acct |-> [a \in Addr |-> AccountWithDiffs(w, diffs, a)],
   slot |-> [a \in Addr |-> [s \in Slot |-> SlotWithDiffs(w, diffs, a, s)]]]
=============================================================================
