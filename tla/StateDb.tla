------------------------------ MODULE StateDb ------------------------------
(***************************************************************************)
(* The flat state database (crates/state-db): the rows it keeps, the       *)
(* atomic write batch, and the world state a reader sees through it.       *)
(*                                                                         *)
(* Abstractions.  A code hash is the code itself (keccak256 is injective). *)
(* The 72-byte account row is the record it encodes.  An all-zero code     *)
(* hash and keccak256("") are both NoCode.  A batch keeps, for each key,   *)
(* the last put or delete queued for it, which is the one that counts.     *)
(***************************************************************************)
EXTENDS Naturals

CONSTANTS
  Addr,     \* account addresses
  Slot,     \* storage slots of one account
  Code,     \* non-empty bytecodes
  NoCode,   \* the empty bytecode
  None,     \* an absent row, an absent field
  Keep      \* a key that a batch, a cache or a change set leaves alone

ASSUME MarkersDiffer ==
  /\ NoCode \notin Code /\ None \notin Code /\ None # NoCode
  /\ None \notin Nat /\ Keep \notin Nat /\ None # Keep

AccountInfo == [nonce: Nat, balance: Nat, code: Code \cup {NoCode}]

\* Keep and None are no account records either.
ASSUME MarkersAreNoAccounts == None \notin AccountInfo /\ Keep \notin AccountInfo

----------------------------------------------------------------------------
\* The rows of the four column families: accounts, storage, code, metadata.
Rows == [acct: [Addr -> AccountInfo \cup {None}],
         slot: [Addr -> [Slot -> Nat \cup {None}]],
         code: SUBSET Code,
         head: Nat]

\* What a reader of the database, or an Ethereum node, calls the state.
World == [acct: [Addr -> AccountInfo \cup {None}],
          slot: [Addr -> [Slot -> Nat]]]

\* A missing code row reads as empty code, so the account seems to have none.
Resolve(codes, info) ==
  IF info = None THEN None
  ELSE [info EXCEPT !.code = IF @ \in codes THEN @ ELSE NoCode]

\* A missing storage row reads as zero.
ReadSlot(row) == IF row = None THEN 0 ELSE row

Visible(db) ==
  [acct |-> [a \in Addr |-> Resolve(db.code, db.acct[a])],
   slot |-> [a \in Addr |-> [s \in Slot |-> ReadSlot(db.slot[a][s])]]]

----------------------------------------------------------------------------
\* A WriteBatch: what is queued for every key; None is a queued delete.
Batches == [acct: [Addr -> AccountInfo \cup {None, Keep}],
            slot: [Addr -> [Slot -> Nat \cup {None, Keep}]],
            code: SUBSET Code,
            head: Nat \cup {Keep}]

\* RocksDB applies a batch all at once or, if it is dropped, not at all.
CommitBatch(db, b) ==
  [acct |-> [a \in Addr |-> IF b.acct[a] = Keep THEN db.acct[a] ELSE b.acct[a]],
   slot |-> [a \in Addr |-> [s \in Slot |->
               IF b.slot[a][s] = Keep THEN db.slot[a][s] ELSE b.slot[a][s]]],
   code |-> db.code \cup b.code,
   head |-> IF b.head = Keep THEN db.head ELSE b.head]
=============================================================================
