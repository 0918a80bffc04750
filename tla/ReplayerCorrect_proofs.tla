---------------------- MODULE ReplayerCorrect_proofs ----------------------
(***************************************************************************)
(* The replayer is correct for every chain, every EVM and every number of  *)
(* restarts, under the assumptions of ReplayerCorrect; and a crash between *)
(* two commits, which can stop it for good, does no damage beyond that.    *)
(***************************************************************************)
EXTENDS ReplayerCorrect, FiniteSetTheorems, TLAPS

----------------------------------------------------------------------------
(* What readers see of rows and of an overlay whose code is all present.   *)

\* An account whose code is known reads back as it is.
LEMMA ResolveKnown ==
  ASSUME NEW codes, NEW info \in AccountInfo \cup {None},
         info # None => info.code \in codes \cup {NoCode}
  PROVE  Resolve(codes, info) = info
<1>1. CASE info = None
  BY <1>1 DEF Resolve
<1>2. CASE info # None
  <2>1. info \in AccountInfo
    BY <1>2
  <2>2. [info EXCEPT !.code = info.code] = info
    BY <2>1 DEF AccountInfo
  <2>3. (IF info.code \in codes THEN info.code ELSE NoCode) = info.code
    BY <1>2
  <2> QED BY <1>2, <2>2, <2>3 DEF Resolve
<1> QED BY <1>1, <1>2

\* Rows whose codes are present are seen as they are.
LEMMA VisibleRows ==
  ASSUME NEW d \in Rows, CodeRowsPresent(d)
  PROVE  Visible(d) = [acct |-> d.acct,
                       slot |-> [a \in Addr |-> [s \in Slot |-> ReadSlot(d.slot[a][s])]]]
<1>1. \A a \in Addr : Resolve(d.code, d.acct[a]) = d.acct[a]
  BY ResolveKnown DEF Rows, CodeRowsPresent
<1>2. d.acct = [a \in Addr |-> d.acct[a]]
  BY DEF Rows
<1>3. [a \in Addr |-> Resolve(d.code, d.acct[a])] = [a \in Addr |-> d.acct[a]]
  BY <1>1
<1> QED BY <1>2, <1>3 DEF Visible

\* The account that the overlay or, below it, the database holds.
Held(d, c) == [a \in Addr |-> IF c.state[a] = "Unmodified" THEN d.acct[a] ELSE c.info[a]]

LEMMA ViewAccounts ==
  ASSUME NEW d \in Rows, NEW c \in Caches,
         CodeRowsPresent(d), OverlayConsistent(d, c)
  PROVE  /\ View(d, c).acct = Held(d, c)
         /\ Held(d, c) \in [Addr -> AccountInfo \cup {None}]
         /\ \A a \in Addr : Held(d, c)[a] # None =>
              Held(d, c)[a].code \in d.code \cup c.code \cup {NoCode}
<1>1. Held(d, c) \in [Addr -> AccountInfo \cup {None}]
  BY DEF Held, Rows, Caches
<1>2. \A a \in Addr : Held(d, c)[a] # None =>
                        Held(d, c)[a].code \in d.code \cup c.code \cup {NoCode}
  BY DEF Held, CodeRowsPresent, OverlayConsistent
<1>3. \A a \in Addr : Resolve(d.code \cup c.code, Held(d, c)[a]) = Held(d, c)[a]
  BY <1>1, <1>2, ResolveKnown
<1>4. View(d, c).acct = [a \in Addr |-> Resolve(d.code \cup c.code, Held(d, c)[a])]
  BY DEF View, Held
<1>5. @ = [a \in Addr |-> Held(d, c)[a]]
  BY <1>3
<1>6. @ = Held(d, c)
  BY DEF Held
<1> QED BY <1>1, <1>2, <1>4, <1>5, <1>6

\* A fresh overlay shows the database.
LEMMA FreshOverlay ==
  ASSUME NEW d \in Rows, CodeRowsPresent(d), NoOrphanRows(d)
  PROVE  /\ EmptyCache \in Caches
         /\ OverlayConsistent(d, EmptyCache)
         /\ View(d, EmptyCache) = Visible(d)
<1>1. EmptyCache \in Caches
  BY DEF EmptyCache, Caches
<1>2. OverlayConsistent(d, EmptyCache)
  BY DEF OverlayConsistent, EmptyCache
<1>3. View(d, EmptyCache).acct = d.acct
  <2>1. Held(d, EmptyCache) = [a \in Addr |-> d.acct[a]]
    BY DEF Held, EmptyCache
  <2>2. @ = d.acct
    BY DEF Rows
  <2> QED BY <1>1, <1>2, <2>1, <2>2, ViewAccounts
<1>4. View(d, EmptyCache).slot =
        [a \in Addr |-> [s \in Slot |-> ReadSlot(d.slot[a][s])]]
  BY DEF View, EmptyCache, NoOrphanRows
<1>5. View(d, EmptyCache) = [acct |-> View(d, EmptyCache).acct,
                             slot |-> View(d, EmptyCache).slot]
  BY DEF View
<1> QED BY <1>1, <1>2, <1>3, <1>4, <1>5, VisibleRows

----------------------------------------------------------------------------
(* One transaction: merging its changes into the overlay changes the view  *)
(* as executing it changes the network's state.                            *)

\* Changes of a chain that deletes nothing, over rows of the last block.
Harmless(d, ch) ==
  \A a \in Addr :
    /\ ch[a].status # "destroyed"
    /\ ch[a].status \in {"created", "touched"} => ch[a].info \in AccountInfo
    /\ ch[a].status = "created" => \A s \in Slot : ReadSlot(d.slot[a][s]) = 0

LEMMA CommitTxType ==
  ASSUME NEW c \in Caches, NEW ch \in Changes
  PROVE  CommitTx(c, ch) \in Caches
<1> DEFINE n == CommitTx(c, ch)
<1>1. n.state \in [Addr -> {"Unmodified", "Touched", "StorageCleared", "NotExisting"}]
  BY DEF CommitTx, Caches, Changes, Statuses
<1>2. n.info \in [Addr -> AccountInfo \cup {None}]
  BY DEF CommitTx, Caches, Changes, Statuses
<1>3. n.slot \in [Addr -> [Slot -> Nat \cup {Keep}]]
  <2>1. ASSUME NEW a \in Addr PROVE n.slot[a] \in [Slot -> Nat \cup {Keep}]
    BY DEF CommitTx, Caches, Changes, Statuses
  <2>2. n.slot = [a \in Addr |-> n.slot[a]]
    BY DEF CommitTx
  <2> QED BY <2>1, <2>2
<1>4. n.code \in SUBSET Code
  BY DEF CommitTx, Caches
<1>5. n = [state |-> n.state, info |-> n.info, slot |-> n.slot, code |-> n.code]
  BY DEF CommitTx
<1> QED BY <1>1, <1>2, <1>3, <1>4, <1>5 DEF Caches

LEMMA CommitTxConsistent ==
  ASSUME NEW d \in Rows, NEW c \in Caches, NEW ch \in Changes,
         OverlayConsistent(d, c), Harmless(d, ch)
  PROVE  OverlayConsistent(d, CommitTx(c, ch))
<1> DEFINE n == CommitTx(c, ch)
<1> SUFFICES ASSUME NEW a \in Addr
             PROVE  /\ n.state[a] # "NotExisting"
                    /\ n.state[a] # "Unmodified" =>
                         /\ n.info[a] \in AccountInfo
                         /\ n.info[a].code \in n.code \cup {NoCode}
                    /\ n.state[a] = "Unmodified" => \A s \in Slot : n.slot[a][s] = Keep
                    /\ n.state[a] = "StorageCleared" =>
                         \A s \in Slot : ReadSlot(d.slot[a][s]) = 0
  BY DEF OverlayConsistent
<1>1. ch[a].status \in {"untouched", "created", "touched"}
  BY DEF Harmless, Changes, Statuses
<1>2. CASE ch[a].status = "untouched"
  BY <1>2 DEF CommitTx, OverlayConsistent
<1>3. CASE ch[a].status \in {"created", "touched"}
  <2>1. ch[a].info \in AccountInfo /\ n.info[a] = ch[a].info
    BY <1>3 DEF CommitTx, Harmless
  <2>2. n.info[a].code \in n.code \cup {NoCode}
    BY <1>3, <2>1 DEF CommitTx, AccountInfo
  <2>3. /\ n.state[a] \in {"Touched", "StorageCleared"}
        /\ n.state[a] = "StorageCleared" =>
             (c.state[a] = "StorageCleared" \/ ch[a].status = "created")
    BY <1>3 DEF CommitTx
  <2> QED BY <2>1, <2>2, <2>3 DEF Harmless, OverlayConsistent
<1> QED BY <1>1, <1>2, <1>3

LEMMA CommitTxView ==
  ASSUME NEW d \in Rows, NEW c \in Caches, NEW ch \in Changes,
         CodeRowsPresent(d), NoOrphanRows(d), OverlayConsistent(d, c), Harmless(d, ch)
  PROVE  View(d, CommitTx(c, ch)) = ApplyTx(View(d, c), ch)
<1> DEFINE n == CommitTx(c, ch)
<1>1. n \in Caches /\ OverlayConsistent(d, n)
  BY CommitTxType, CommitTxConsistent
<1>2. ASSUME NEW a \in Addr
      PROVE  /\ ch[a].status \in {"untouched", "created", "touched"}
             /\ n.state[a] = CASE ch[a].status = "untouched" -> c.state[a]
                               [] ch[a].status = "created" -> "StorageCleared"
                               [] ch[a].status = "touched" ->
                                    IF c.state[a] = "StorageCleared" THEN "StorageCleared"
                                                                     ELSE "Touched"
  BY DEF CommitTx, Harmless, Changes, Statuses
<1>3. View(d, n).acct = [a \in Addr |-> AccountAfter(View(d, c), ch, a)]
  <2>1. \A a \in Addr : Held(d, n)[a] = IF ch[a].status = "untouched"
                                        THEN Held(d, c)[a] ELSE ch[a].info
    BY <1>2 DEF Held, CommitTx
  <2>2. \A a \in Addr : AccountAfter(View(d, c), ch, a) =
                          IF ch[a].status = "untouched" THEN Held(d, c)[a] ELSE ch[a].info
    BY <1>2, ViewAccounts DEF AccountAfter
  <2>3. Held(d, n) = [a \in Addr |-> Held(d, n)[a]]
    BY DEF Held
  <2>4. @ = [a \in Addr |-> AccountAfter(View(d, c), ch, a)]
    BY <2>1, <2>2
  <2> QED BY <1>1, <2>3, <2>4, ViewAccounts
<1>4. View(d, n).slot = [a \in Addr |-> [s \in Slot |-> SlotAfter(View(d, c), ch, a, s)]]
  <2>1. ASSUME NEW a \in Addr, NEW s \in Slot
        PROVE  View(d, n).slot[a][s] = SlotAfter(View(d, c), ch, a, s)
    <3>1. CASE ch[a].status = "untouched"
      BY <3>1 DEF View, CommitTx, SlotAfter
    <3>2. CASE ch[a].status = "created"
      BY <3>2, <1>2 DEF View, CommitTx, SlotAfter
    <3>3. CASE ch[a].status = "touched"
      <4>1. CASE ch[a].slot[s] # Keep
        BY <3>3, <4>1 DEF View, CommitTx, SlotAfter
      <4>2. CASE ch[a].slot[s] = Keep
        BY <3>3, <4>2, <1>2 DEF View, CommitTx, SlotAfter, NoOrphanRows, OverlayConsistent
      <4> QED BY <4>1, <4>2
    <3> QED BY <1>2, <3>1, <3>2, <3>3
  <2>2. View(d, n).slot = [a \in Addr |-> [s \in Slot |-> View(d, n).slot[a][s]]]
    BY DEF View
  <2> QED BY <2>1, <2>2
<1>5. View(d, n) = [acct |-> View(d, n).acct, slot |-> View(d, n).slot]
  BY DEF View
<1> QED BY <1>3, <1>4, <1>5 DEF ApplyTx

----------------------------------------------------------------------------
(* The commits: what a flush and what a batch of diffs leave in the rows.  *)

LEMMA FlushRows ==
  ASSUME NEW d \in Rows, NEW c \in Caches, OverlayConsistent(d, c),
         NEW h \in Nat \cup {Keep}
  PROVE  LET e == CommitBatch(d, FlushBatch(c, h))
         IN  /\ e \in Rows
             /\ e.acct = Held(d, c)
             /\ e.code = d.code \cup c.code
             /\ e.head = IF h = Keep THEN d.head ELSE h
<1> DEFINE b == FlushBatch(c, h)
           e == CommitBatch(d, b)
<1>1. ASSUME NEW a \in Addr
      PROVE  b.acct[a] = IF c.state[a] = "Unmodified" THEN Keep ELSE c.info[a]
  BY DEF FlushBatch, Caches, OverlayConsistent
<1>2. \A a \in Addr : e.acct[a] = Held(d, c)[a]
  BY ZenonT(30), <1>1, MarkersAreNoAccounts DEF CommitBatch, Held, OverlayConsistent
<1>3. e.acct = Held(d, c)
  BY <1>2 DEF CommitBatch, Held
<1>4. Held(d, c) \in [Addr -> AccountInfo \cup {None}]
  BY DEF Held, Rows, Caches
<1>5. e.slot \in [Addr -> [Slot -> Nat \cup {None}]]
  <2>1. ASSUME NEW a \in Addr, NEW s \in Slot PROVE e.slot[a][s] \in Nat \cup {None}
    BY DEF CommitBatch, FlushBatch, Rows, Caches
  <2>2. e.slot = [a \in Addr |-> [s \in Slot |-> e.slot[a][s]]]
    BY DEF CommitBatch
  <2> QED BY <2>1, <2>2
<1>6. e.code = d.code \cup c.code /\ e.code \in SUBSET Code
  BY DEF CommitBatch, FlushBatch, Rows, Caches
<1>7. e.head = (IF h = Keep THEN d.head ELSE h) /\ e.head \in Nat
  BY DEF CommitBatch, FlushBatch, Rows
<1>8. e = [acct |-> e.acct, slot |-> e.slot, code |-> e.code, head |-> e.head]
  BY DEF CommitBatch
<1> QED BY <1>3, <1>4, <1>5, <1>6, <1>7, <1>8 DEF Rows

\* A flush makes durable exactly what the overlay shows.
LEMMA FlushSeen ==
  ASSUME NEW d \in Rows, NEW c \in Caches, NEW h \in Nat \cup {Keep},
         CodeRowsPresent(d), NoOrphanRows(d), OverlayConsistent(d, c)
  PROVE  LET e == CommitBatch(d, FlushBatch(c, h))
         IN  CodeRowsPresent(e) /\ NoOrphanRows(e) /\ Visible(e) = View(d, c)
<1> DEFINE e == CommitBatch(d, FlushBatch(c, h))
<1>1. /\ e \in Rows
      /\ e.acct = Held(d, c)
      /\ e.code = d.code \cup c.code
  BY FlushRows
<1>2. CodeRowsPresent(e)
  BY <1>1, ViewAccounts DEF CodeRowsPresent
<1>3. Visible(e) = [acct |-> e.acct,
                    slot |-> [a \in Addr |-> [s \in Slot |-> ReadSlot(e.slot[a][s])]]]
  BY <1>1, <1>2, VisibleRows
<1>4. ASSUME NEW a \in Addr, NEW s \in Slot
      PROVE  ReadSlot(e.slot[a][s]) = View(d, c).slot[a][s]
  <2>1. e.slot[a][s] = IF c.state[a] \in {"Touched", "StorageCleared"} /\ c.slot[a][s] # Keep
                       THEN c.slot[a][s] ELSE d.slot[a][s]
    BY DEF CommitBatch, FlushBatch
  <2>2. c.slot[a][s] # Keep => c.slot[a][s] \in Nat /\ c.slot[a][s] # None
    BY MarkersDiffer DEF Caches
  <2>3. c.state[a] \in {"Unmodified", "Touched", "StorageCleared"}
    BY DEF Caches, OverlayConsistent
  <2>4. CASE c.slot[a][s] # Keep
    <3>1. c.state[a] \in {"Touched", "StorageCleared"}
      BY <2>3, <2>4 DEF OverlayConsistent
    <3>2. View(d, c).slot[a][s] = c.slot[a][s]
      BY <2>4 DEF View
    <3> QED BY <2>1, <2>2, <2>4, <3>1, <3>2 DEF ReadSlot
  <2>5. CASE c.slot[a][s] = Keep
    <3>1. e.slot[a][s] = d.slot[a][s]
      BY <2>1, <2>5
    <3> QED BY <2>3, <2>5, <3>1 DEF View, NoOrphanRows, OverlayConsistent
  <2> QED BY <2>4, <2>5
<1>5. View(d, c) = [acct |-> Held(d, c),
                    slot |-> [a \in Addr |-> [s \in Slot |-> View(d, c).slot[a][s]]]]
  BY ViewAccounts DEF View
<1>6. [a \in Addr |-> [s \in Slot |-> ReadSlot(e.slot[a][s])]] =
      [a \in Addr |-> [s \in Slot |-> View(d, c).slot[a][s]]]
  BY <1>4
<1>7. NoOrphanRows(e)
  <2> SUFFICES ASSUME NEW a \in Addr, Held(d, c)[a] = None, NEW s \in Slot
               PROVE  ReadSlot(e.slot[a][s]) = 0
    BY <1>1 DEF NoOrphanRows
  <2>1. c.state[a] = "Unmodified" /\ d.acct[a] = None
    BY MarkersAreNoAccounts DEF Held, OverlayConsistent
  <2>2. e.slot[a][s] = d.slot[a][s]
    BY <2>1 DEF CommitBatch, FlushBatch
  <2> QED BY <2>1, <2>2 DEF NoOrphanRows
<1> QED BY <1>1, <1>2, <1>3, <1>5, <1>6, <1>7

\* A set of positions in a list has a last one.
LEMMA HasLatest ==
  ASSUME NEW m \in Nat, NEW S \in SUBSET (1..m), S # {}
  PROVE  Latest(S) \in S
<1> DEFINE Ends == {x..m : x \in S}
           R == StrictSubsetOrdering(1..m)
<1>1. IsWellFoundedOn(R, FiniteSubsetsOf(1..m))
  BY FS_StrictSubsetOrderingWellFounded
<1>2. Ends \subseteq FiniteSubsetsOf(1..m) /\ Ends # {}
  <2>1. ASSUME NEW x \in S PROVE x..m \in FiniteSubsetsOf(1..m)
    BY FS_Interval DEF FiniteSubsetsOf
  <2> QED BY <2>1
<1>3. PICK I \in Ends : \A J \in Ends : ~ (<<J, I>> \in R)
  <2> HIDE DEF Ends, R
  <2> QED BY <1>1, <1>2, WFMin
<1>4. PICK x \in S : I = x..m
  OBVIOUS
<1>5. ASSUME NEW y \in S, x < y PROVE FALSE
  <2>1. y..m \in Ends /\ y..m \in SUBSET (1..m) /\ I \in SUBSET (1..m)
    BY <1>4
  <2>2. y..m \subseteq I /\ x \in I /\ x \notin y..m
    BY <1>4, <1>5
  <2> QED BY <2>1, <2>2, <1>3 DEF StrictSubsetOrdering
<1>6. \A y \in S : y <= x
  BY <1>5
<1> QED BY <1>6 DEF Latest

\* Where nothing deletes an account, the code finds the diffs that count ...
LEMMA DiffPlaces ==
  ASSUME NEW diffs \in Seq(StateDiffs), PlainDiffs(diffs),
         NEW a \in Addr, NEW key \in AccountFields \cup Slot,
         Deletions(diffs, a) = {}
  PROVE  /\ DiffsOf(diffs, a, key) = Since(diffs, a, key)
         /\ Since(diffs, a, key) # {} =>
              LET i == Latest(Since(diffs, a, key))
              IN  i \in DOMAIN diffs /\ diffs[i].address = a /\ diffs[i].key = key
<1>1. ASSUME NEW i \in DOMAIN diffs, diffs[i].address = a, diffs[i].key = key
      PROVE  diffs[i].next # None
  <2>1. diffs[i] \in StateDiffs
    BY <1>1
  <2>2. key \in AccountFields => diffs[i].kind # "-"
    BY <1>1 DEF Deletions
  <2> QED BY <1>1, <2>1, <2>2, MarkersDiffer DEF PlainDiffs, AccountFields
<1>2. DiffsOf(diffs, a, key) = Since(diffs, a, key)
  BY <1>1 DEF DiffsOf, Since
<1>3. ASSUME Since(diffs, a, key) # {}
      PROVE  Latest(Since(diffs, a, key)) \in Since(diffs, a, key)
  <2>1. Len(diffs) \in Nat /\ DOMAIN diffs = 1..Len(diffs)
    OBVIOUS
  <2>2. Since(diffs, a, key) \in SUBSET (1..Len(diffs))
    BY <2>1 DEF Since
  <2> QED BY <1>3, <2>1, <2>2, HasLatest
<1> QED BY <1>2, <1>3 DEF Since

\* ... and takes the value that counts.
LEMMA DiffsFound ==
  ASSUME NEW diffs \in Seq(StateDiffs), PlainDiffs(diffs),
         NEW a \in Addr, NEW key \in AccountFields \cup Slot, NEW old,
         Deletions(diffs, a) = {}
  PROVE  NextOf(diffs, a, key, old) = New(diffs, a, key, old)
<1>1. DiffsOf(diffs, a, key) = Since(diffs, a, key)
  BY DiffPlaces
<1> QED BY <1>1 DEF NextOf, New, DiffOf

\* The value found for a key has the type of that key.
LEMMA DiffTypes ==
  ASSUME NEW diffs \in Seq(StateDiffs), PlainDiffs(diffs), NEW a \in Addr,
         Deletions(diffs, a) = {}
  PROVE  /\ \A key \in {"nonce", "balance"} \cup Slot :
              Since(diffs, a, key) # {} => DiffOf(diffs, a, key).next \in Nat
         /\ Since(diffs, a, "code") # {} => DiffOf(diffs, a, "code").next \in Code \cup {NoCode}
<1>1. ASSUME NEW key \in AccountFields \cup Slot, Since(diffs, a, key) # {}
      PROVE  /\ \E i \in DOMAIN diffs : DiffOf(diffs, a, key) = diffs[i]
             /\ DiffOf(diffs, a, key).key = key
             /\ key \in AccountFields => DiffOf(diffs, a, key).kind # "-"
  <2> DEFINE i == Latest(Since(diffs, a, key))
  <2>1. i \in DOMAIN diffs /\ diffs[i].address = a /\ diffs[i].key = key
    BY <1>1, DiffPlaces
  <2> QED BY <2>1 DEF DiffOf, Deletions
<1>2. ASSUME NEW key \in {"nonce", "balance"} \cup Slot, Since(diffs, a, key) # {}
      PROVE  DiffOf(diffs, a, key).next \in Nat
  BY <1>1, <1>2 DEF PlainDiffs, AccountFields
<1>3. ASSUME Since(diffs, a, "code") # {}
      PROVE  DiffOf(diffs, a, "code").next \in Code \cup {NoCode}
  BY <1>1, <1>3 DEF PlainDiffs, AccountFields
<1> QED BY <1>2, <1>3

\* Behind the deletion of an account there is nothing.
LEMMA NothingSince ==
  ASSUME NEW diffs \in Seq(StateDiffs), PlainDiffs(diffs), NEW a \in Addr,
         Deletions(diffs, a) # {}, NEW key
  PROVE  Since(diffs, a, key) = {}
  BY DEF PlainDiffs, Deletions, Since

\* The second commit of a hybrid block does what the diffs say.
LEMMA DiffsSeen ==
  ASSUME NEW d \in Rows, CodeRowsPresent(d), NEW h \in Nat,
         NEW diffs \in Seq(StateDiffs), PlainDiffs(diffs),
         \A a \in Addr : Deletions(diffs, a) # {} =>
           \A s \in Slot : Visible(d).slot[a][s] = 0
  PROVE  LET e == CommitBatch(d, DiffBatch(d, diffs, h))
         IN  /\ e \in Rows
             /\ CodeRowsPresent(e)
             /\ Visible(e) = ApplyDiffs(Visible(d), diffs)
             /\ e.head = h
<1> DEFINE b == DiffBatch(d, diffs, h)
           e == CommitBatch(d, b)
           old(a) == IF d.acct[a] = None THEN NewAccount ELSE d.acct[a]
<1>d. \A a \in Addr : Deleted(diffs, a) <=> Deletions(diffs, a) # {}
  BY DEF Deleted, Deletions
<1>1. ASSUME NEW a \in Addr
      PROVE  /\ AccountWithDiffs(Visible(d), diffs, a) \in AccountInfo \cup {None}
             /\ e.acct[a] = AccountWithDiffs(Visible(d), diffs, a)
             /\ e.acct[a] # None => e.acct[a].code \in e.code \cup {NoCode}
  <2>1. Visible(d).acct[a] = d.acct[a]
    BY VisibleRows
  <2>2. d.acct[a] \in AccountInfo \cup {None} /\ d.acct[a] # Keep
    BY MarkersDiffer, MarkersAreNoAccounts DEF Rows
  <2>3. d.code \subseteq e.code
    BY DEF CommitBatch
  <2>4. CASE ~ \E i \in DOMAIN diffs : diffs[i].address = a
    <3>1. e.acct[a] = d.acct[a]
      BY <2>4 DEF CommitBatch, DiffBatch
    <3>2. AccountWithDiffs(Visible(d), diffs, a) = d.acct[a]
      BY <2>1, <2>4 DEF AccountWithDiffs
    <3> QED BY <2>2, <2>3, <3>1, <3>2 DEF CodeRowsPresent
  <2>6. CASE Deletions(diffs, a) # {}
    <3>1. \E i \in DOMAIN diffs : diffs[i].address = a
      BY <2>6 DEF Deletions
    <3>2. e.acct[a] = None
      BY <1>d, <2>6, <3>1, MarkersDiffer DEF CommitBatch, DiffBatch
    <3>3. AccountWithDiffs(Visible(d), diffs, a) = None
      BY <2>6, <3>1, NothingSince DEF AccountWithDiffs
    <3> QED BY <3>2, <3>3
  <2>5. CASE (\E i \in DOMAIN diffs : diffs[i].address = a) /\ Deletions(diffs, a) = {}
    <3>1. old(a) \in AccountInfo
      BY <2>2 DEF NewAccount, AccountInfo
    <3>2. /\ New(diffs, a, "nonce", old(a).nonce) \in Nat
          /\ New(diffs, a, "balance", old(a).balance) \in Nat
          /\ New(diffs, a, "code", old(a).code) \in Code \cup {NoCode}
      BY <2>5, <3>1, DiffTypes DEF New, AccountInfo
    <3>3. /\ NextOf(diffs, a, "nonce", old(a).nonce) = New(diffs, a, "nonce", old(a).nonce)
          /\ NextOf(diffs, a, "balance", old(a).balance) = New(diffs, a, "balance", old(a).balance)
          /\ NextOf(diffs, a, "code", old(a).code) = New(diffs, a, "code", old(a).code)
      BY <2>5, DiffsFound DEF AccountFields
    <3>4. Patched(diffs, a, old(a)) = [nonce   |-> New(diffs, a, "nonce", old(a).nonce),
                                       balance |-> New(diffs, a, "balance", old(a).balance),
                                       code    |-> New(diffs, a, "code", old(a).code)]
      BY <3>3 DEF Patched
    <3>5. Patched(diffs, a, old(a)) \in AccountInfo
      BY <3>2, <3>4 DEF AccountInfo
    <3>6. b.acct[a] = Patched(diffs, a, old(a))
      BY <1>d, <2>5 DEF DiffBatch
    <3>7. e.acct[a] = Patched(diffs, a, old(a))
      BY <3>5, <3>6, MarkersAreNoAccounts DEF CommitBatch
    <3>8. AccountWithDiffs(Visible(d), diffs, a) = Patched(diffs, a, old(a))
      BY <2>1, <2>5, <3>4 DEF AccountWithDiffs, NewAccount, Blank
    <3>9. Patched(diffs, a, old(a)).code \in e.code \cup {NoCode}
      <4>1. CASE Since(diffs, a, "code") # {}
        <5> DEFINE i == Latest(Since(diffs, a, "code"))
        <5>1. /\ DiffsOf(diffs, a, "code") = Since(diffs, a, "code")
              /\ i \in DOMAIN diffs /\ diffs[i].address = a /\ diffs[i].key = "code"
          BY <2>5, <4>1, DiffPlaces DEF AccountFields
        <5>2. Patched(diffs, a, old(a)).code = diffs[i].next
          BY <3>4, <4>1 DEF New, DiffOf
        <5>3. i \in DiffsOf(diffs, a, "code")
          BY <2>5, <5>1 DEF Since, Deletions
        <5>4. diffs[i].next \in Code \cup {NoCode}
          BY <3>2, <3>4, <5>2
        <5>5. diffs[i].next \in Code => diffs[i].next \in b.code
          BY <1>d, <2>5, <5>3 DEF DiffBatch
        <5> QED BY <5>2, <5>4, <5>5 DEF CommitBatch
      <4>2. CASE Since(diffs, a, "code") = {}
        <5>1. Patched(diffs, a, old(a)).code = old(a).code
          BY <3>4, <4>2 DEF New
        <5> QED BY <2>3, <5>1 DEF CodeRowsPresent, NewAccount
      <4> QED BY <4>1, <4>2
    <3> QED BY <3>5, <3>7, <3>8, <3>9
  <2> QED BY <2>4, <2>5, <2>6
<1>2. ASSUME NEW a \in Addr, NEW s \in Slot
      PROVE  /\ e.slot[a][s] \in Nat \cup {None}
             /\ ReadSlot(e.slot[a][s]) = SlotWithDiffs(Visible(d), diffs, a, s)
  <2>1. Visible(d).slot[a][s] = ReadSlot(d.slot[a][s])
    BY VisibleRows
  <2>2. CASE Deletions(diffs, a) # {}
    <3>1. e.slot[a][s] = d.slot[a][s]
      BY <1>d, <2>2 DEF CommitBatch, DiffBatch
    <3>2. SlotWithDiffs(Visible(d), diffs, a, s) = 0
      BY <2>2, NothingSince DEF SlotWithDiffs, New
    <3> QED BY <2>1, <2>2, <3>1, <3>2 DEF Rows
  <2>3. CASE Deletions(diffs, a) = {} /\ Since(diffs, a, s) # {}
    <3> DEFINE i == Latest(Since(diffs, a, s))
    <3>1. DiffsOf(diffs, a, s) = Since(diffs, a, s)
      BY <2>3, DiffPlaces
    <3>2. DiffOf(diffs, a, s) = diffs[i] /\ diffs[i].next \in Nat
      BY <2>3, DiffTypes DEF DiffOf
    <3>3. b.slot[a][s] = IF diffs[i].kind = "-" THEN None ELSE diffs[i].next
      BY <1>d, <2>3, <3>1 DEF DiffBatch, NextOf
    <3>4. e.slot[a][s] = b.slot[a][s]
      BY <3>2, <3>3, MarkersDiffer DEF CommitBatch
    <3>5. SlotWithDiffs(Visible(d), diffs, a, s) = IF diffs[i].kind = "-" THEN 0 ELSE diffs[i].next
      BY <2>3, <3>2 DEF SlotWithDiffs, New
    <3> QED BY <3>2, <3>3, <3>4, <3>5, MarkersDiffer DEF ReadSlot
  <2>4. CASE Deletions(diffs, a) = {} /\ Since(diffs, a, s) = {}
    <3>1. DiffsOf(diffs, a, s) = {}
      BY <2>4, DiffPlaces
    <3>2. e.slot[a][s] = d.slot[a][s]
      BY <3>1 DEF CommitBatch, DiffBatch
    <3>3. SlotWithDiffs(Visible(d), diffs, a, s) = Visible(d).slot[a][s]
      BY <2>4 DEF SlotWithDiffs, New
    <3> QED BY <2>1, <3>2, <3>3 DEF Rows
  <2> QED BY <2>2, <2>3, <2>4
<1>3. e.acct = [a \in Addr |-> AccountWithDiffs(Visible(d), diffs, a)]
  <2>1. e.acct = [a \in Addr |-> e.acct[a]]
    BY DEF CommitBatch
  <2> QED BY <1>1, <2>1
<1>4. e.slot \in [Addr -> [Slot -> Nat \cup {None}]]
  <2>1. e.slot = [a \in Addr |-> [s \in Slot |-> e.slot[a][s]]]
    BY DEF CommitBatch
  <2> QED BY <1>2, <2>1
<1>5. e.head = h /\ e.code \in SUBSET Code
  BY MarkersDiffer DEF CommitBatch, DiffBatch, Rows
<1>6. e = [acct |-> e.acct, slot |-> e.slot, code |-> e.code, head |-> e.head]
  BY DEF CommitBatch
<1>7. e \in Rows
  <2>1. e.acct \in [Addr -> AccountInfo \cup {None}]
    BY <1>1, <1>3
  <2> QED BY <2>1, <1>4, <1>5, <1>6 DEF Rows
<1>8. CodeRowsPresent(e)
  BY <1>1 DEF CodeRowsPresent
<1>9. Visible(e) = ApplyDiffs(Visible(d), diffs)
  <2>1. Visible(e) = [acct |-> e.acct,
                      slot |-> [a \in Addr |-> [s \in Slot |-> ReadSlot(e.slot[a][s])]]]
    BY <1>7, <1>8, VisibleRows
  <2>2. [a \in Addr |-> [s \in Slot |-> ReadSlot(e.slot[a][s])]] =
        [a \in Addr |-> [s \in Slot |-> SlotWithDiffs(Visible(d), diffs, a, s)]]
    BY <1>2
  <2> QED BY <1>3, <2>1, <2>2 DEF ApplyDiffs
<1> QED BY <1>5, <1>7, <1>8, <1>9

----------------------------------------------------------------------------
(* The inductive invariant, action by action.                              *)

\* Rows that show the state after a block hold no storage of absent accounts.
LEMMA BoundaryRows ==
  ASSUME NEW d \in Rows, CodeRowsPresent(d),
         NEW n \in 0..Blocks, Visible(d) = Post[n]
  PROVE  /\ NoOrphanRows(d)
         /\ \A a \in Addr, s \in Slot : ReadSlot(d.slot[a][s]) = Post[n].slot[a][s]
<1>1. Post[n].acct = d.acct
  BY VisibleRows
<1>2. Post[n].slot = [a \in Addr |-> [s \in Slot |-> ReadSlot(d.slot[a][s])]]
  BY VisibleRows
<1>3. \A a \in Addr, s \in Slot : ReadSlot(d.slot[a][s]) = Post[n].slot[a][s]
  BY <1>2
<1> QED BY <1>1, <1>3, NoOrphanStorage DEF NoOrphanRows

\* In a hybrid block the system transactions are those after the regular ones.
LEMMA RegularsFirst ==
  ASSUME NEW n \in BlockNumbers, HasStateDiffs(Chain[n])
  PROVE  /\ Regulars(n) \in 0..Size(n)
         /\ \A i \in 1..Size(n) : IsSystemTx(TxOf(n, i)) <=> i > Regulars(n)
  BY SystemTxsLast DEF Regulars

LEMMA SizeType ==
  ASSUME NEW n \in BlockNumbers
  PROVE  Size(n) \in Nat
  BY ChainType DEF Size

\* Leaving the process: only what is durable has to be right.
LEMMA ExitStep ==
  ASSUME IInv, NEW r \in Results \ {"evm_error"}, Exit(r), UNCHANGED db,
         pc # "apply_diffs"
  PROVE  IInv'
<1>1. EmptyCache \in Caches
  BY DEF EmptyCache, Caches
<1>2. TypeOK'
  BY <1>1, ChainType DEF IInv, TypeOK, Exit, Pcs, NoStats
<1>3. DbAgreesWithHead' /\ CanonicalBlocksReplay' /\ StatsMatchHead' /\ CodeRowsPresent(db)'
  BY DEF IInv, DbAgreesWithHead, CanonicalBlocksReplay, StatsMatchHead, Exit, CodeRowsPresent
<1>4. PhaseInv'
  BY DEF Exit, PhaseInv
<1> QED BY <1>2, <1>3, <1>4 DEF IInv

LEMMA InitStep == Init => IInv
<1> SUFFICES ASSUME Init PROVE IInv
  OBVIOUS
<1>1. 0 \in 0..Blocks /\ Post[0] \in World
  BY ChainType, WorldTypes
<1>2. db \in Rows
  BY <1>1 DEF Init, GenesisRows, Rows, World
<1>3. CodeRowsPresent(db)
  BY <1>1 DEF Init, GenesisRows, CodeRowsPresent, World, AccountInfo
<1>4. Visible(db) = Post[0]
  <2>1. \A a \in Addr, s \in Slot : ReadSlot(db.slot[a][s]) = Post[0].slot[a][s]
    BY <1>1, MarkersDiffer DEF Init, GenesisRows, World, ReadSlot
  <2>2. Post[0].slot = [a \in Addr |-> [s \in Slot |-> Post[0].slot[a][s]]]
    BY <1>1 DEF World
  <2>3. [a \in Addr |-> [s \in Slot |-> ReadSlot(db.slot[a][s])]] = Post[0].slot
    BY <2>1, <2>2
  <2>4. db.acct = Post[0].acct
    BY DEF Init, GenesisRows
  <2>5. Post[0] = [acct |-> Post[0].acct, slot |-> Post[0].slot]
    BY <1>1 DEF World
  <2> QED BY <1>2, <1>3, <2>3, <2>4, <2>5, VisibleRows
<1>5. TypeOK
  <2>1. EmptyCache \in Caches
    BY DEF EmptyCache, Caches
  <2> QED BY <1>1, <1>2, <2>1 DEF Init, TypeOK, GenesisRows, Pcs, Results, NoStats
<1>6. db.head = 0
  BY DEF Init, GenesisRows
<1> QED
  BY <1>3, <1>4, <1>5, <1>6
  DEF Init, IInv, DbAgreesWithHead, CanonicalBlocksReplay, StatsMatchHead, PhaseInv

LEMMA AcceptStep ==
  ASSUME IInv, NEW n \in BlockNumbers, Accept(n)
  PROVE  IInv'
<1>1. n = db.head + 1
  <2>1. CASE stats.processed = 0
    BY <2>1, StreamsStartContiguous, ChainType
    DEF IInv, PhaseInv, TypeOK, Accept, Yields, BlockNumbers
  <2>2. CASE stats.processed > 0
    BY <2>2, ChainType DEF IInv, StatsMatchHead, TypeOK, Accept, IsGap
  <2> QED BY <2>1, <2>2 DEF IInv, TypeOK
<1>2. /\ db \in Rows /\ CodeRowsPresent(db) /\ NoOrphanRows(db)
      /\ Visible(db) = Post[db.head]
  BY BoundaryRows DEF IInv, TypeOK, DbAgreesWithHead, Accept
<1>3. /\ EmptyCache \in Caches
      /\ OverlayConsistent(db, EmptyCache)
      /\ View(db, EmptyCache) = Visible(db)
  BY <1>2, FreshOverlay
<1>4. Size(n) \in Nat
  BY SizeType
<1>5. View(db, EmptyCache) = Canon[n][Replayed(n, 0)]
  <2>1. Replayed(n, 0) = 0
    BY RegularsFirst, <1>4 DEF Replayed
  <2>2. n - 1 = db.head
    BY <1>1 DEF IInv, TypeOK
  <2> QED BY <1>2, <1>3, <2>1, <2>2, ChainIsValid
<1>6. TypeOK'
  BY <1>3, ChainType DEF IInv, TypeOK, Accept, Pcs, BlockNumbers
<1>7. DbAgreesWithHead' /\ CanonicalBlocksReplay' /\ StatsMatchHead' /\ CodeRowsPresent(db)'
  BY <1>2 DEF IInv, DbAgreesWithHead, CanonicalBlocksReplay, StatsMatchHead, Accept,
              CodeRowsPresent
<1>8. PhaseInv'
  BY <1>1, <1>3, <1>4, <1>5 DEF PhaseInv, Accept, IInv, TypeOK, StatsMatchHead
<1> QED BY <1>6, <1>7, <1>8 DEF IInv

\* What the invariant says while a block is executed.
LEMMA ExecPhase ==
  ASSUME IInv, pc = "exec"
  PROVE  /\ block \in BlockNumbers /\ block = db.head + 1 /\ Size(block) \in Nat
         /\ db \in Rows /\ cache \in Caches
         /\ CodeRowsPresent(db) /\ NoOrphanRows(db) /\ OverlayConsistent(db, cache)
         /\ Visible(db) = Post[block - 1]
         /\ \A a \in Addr, s \in Slot : ReadSlot(db.slot[a][s]) = Post[block - 1].slot[a][s]
         /\ View(db, cache) = Canon[block][Replayed(block, txi)]
         /\ txi \in 0..Size(block)
<1>1. /\ block \in BlockNumbers /\ block = db.head + 1 /\ db.head \in 0..Blocks
      /\ db \in Rows /\ cache \in Caches
      /\ CodeRowsPresent(db) /\ OverlayConsistent(db, cache)
      /\ Visible(db) = Post[db.head]
      /\ View(db, cache) = Canon[block][Replayed(block, txi)]
      /\ txi \in Nat /\ txi <= Size(block)
  BY DEF IInv, PhaseInv, TypeOK, DbAgreesWithHead
<1>2. Size(block) \in Nat
  BY <1>1, SizeType
<1>3. db.head = block - 1
  BY <1>1
<1> QED BY <1>1, <1>2, <1>3, BoundaryRows

\* The transaction that the loop executes next has the effect it had on the network.
LEMMA NextChanges ==
  ASSUME IInv, MoreTxs, ~ SkipsTx
  PROVE  LET ch == RunTx(NextTx, View(db, cache))
         IN  /\ ch # EvmError
             /\ ch \in Changes
             /\ Harmless(db, ch)
             /\ ApplyTx(View(db, cache), ch) = Canon[block][Replayed(block, txi + 1)]
             /\ txi + 1 \in 1..Size(block)
<1>1. /\ block \in BlockNumbers /\ Size(block) \in Nat
      /\ \A a \in Addr, s \in Slot : ReadSlot(db.slot[a][s]) = Post[block - 1].slot[a][s]
      /\ View(db, cache) = Canon[block][Replayed(block, txi)]
      /\ txi \in 0..Size(block)
  BY ExecPhase DEF MoreTxs
<1>2. txi + 1 \in 1..Size(block) /\ txi < Size(block)
  BY <1>1 DEF MoreTxs, Size
<1>3. NextTx = TxOf(block, txi + 1) /\ Executed(block, txi + 1)
  BY DEF NextTx, TxOf, Executed, SkipsTx
<1>4. Replayed(block, txi) = txi /\ Replayed(block, txi + 1) = txi + 1
  <2>1. CASE HasStateDiffs(Chain[block])
    <3>1. ~ (txi + 1 > Regulars(block)) /\ Regulars(block) \in Nat
      BY <1>1, <1>2, <1>3, <2>1, RegularsFirst DEF Executed
    <3> QED BY <1>1, <3>1 DEF Replayed
  <2>2. CASE ~ HasStateDiffs(Chain[block])
    BY <2>2 DEF Replayed
  <2> QED BY <2>1, <2>2
<1>5. RunTx(NextTx, View(db, cache)) = ChangesOf(block, txi + 1)
  <2>1. (txi + 1) - 1 = txi
    BY <1>1
  <2> QED BY <1>1, <1>3, <1>4, <2>1 DEF ChangesOf
<1>6. /\ ChangesOf(block, txi + 1) # EvmError
      /\ ChangesOf(block, txi + 1) \in Changes
      /\ \A a \in Addr : ChangesOf(block, txi + 1)[a].status \in {"created", "touched"} =>
                           ChangesOf(block, txi + 1)[a].info \in AccountInfo
      /\ Canon[block][txi + 1] =
           ApplyTx(Canon[block][(txi + 1) - 1], ChangesOf(block, txi + 1))
  BY <1>1, <1>2, <1>3, ChainIsValid
<1>7. Harmless(db, ChangesOf(block, txi + 1))
  BY <1>1, <1>2, <1>3, <1>6, NothingDestroyed DEF Harmless
<1>8. Canon[block][(txi + 1) - 1] = View(db, cache)
  <2>1. (txi + 1) - 1 = txi
    BY <1>1
  <2> QED BY <1>1, <1>4, <2>1
<1> QED BY <1>2, <1>4, <1>5, <1>6, <1>7, <1>8

LEMMA ExecTxStep ==
  ASSUME IInv, ExecTx
  PROVE  IInv'
<1> DEFINE ch == RunTx(NextTx, View(db, cache))
<1>1. pc = "exec" /\ MoreTxs /\ ~ SkipsTx
  BY DEF ExecTx, MoreTxs
<1>2. /\ ch \in Changes /\ Harmless(db, ch)
      /\ ApplyTx(View(db, cache), ch) = Canon[block][Replayed(block, txi + 1)]
      /\ txi + 1 \in 1..Size(block)
  BY <1>1, NextChanges
<1>3. cache' = CommitTx(cache, ch) /\ txi' = txi + 1
      /\ UNCHANGED <<db, pc, head0, stats, block, result>>
  BY DEF ExecTx
<1>4. /\ db \in Rows /\ cache \in Caches
      /\ CodeRowsPresent(db) /\ NoOrphanRows(db) /\ OverlayConsistent(db, cache)
  BY <1>1, ExecPhase
<1>5. /\ cache' \in Caches
      /\ OverlayConsistent(db, cache')
      /\ View(db, cache') = Canon[block][Replayed(block, txi + 1)]
  BY <1>2, <1>3, <1>4, CommitTxType, CommitTxConsistent, CommitTxView
<1>6. TypeOK'
  BY <1>3, <1>5 DEF IInv, TypeOK
<1>7. DbAgreesWithHead' /\ CanonicalBlocksReplay' /\ StatsMatchHead' /\ CodeRowsPresent(db)'
  BY <1>3 DEF IInv, DbAgreesWithHead, CanonicalBlocksReplay, StatsMatchHead, CodeRowsPresent
<1>8. PhaseInv'
  BY <1>1, <1>2, <1>3, <1>5 DEF IInv, PhaseInv
<1> QED BY <1>6, <1>7, <1>8 DEF IInv

LEMMA SkipSystemTxStep ==
  ASSUME IInv, SkipSystemTx
  PROVE  IInv'
<1>1. pc = "exec" /\ txi' = txi + 1 /\ UNCHANGED <<db, pc, head0, stats, block, cache, result>>
  BY DEF SkipSystemTx, MoreTxs
<1>2. /\ block \in BlockNumbers /\ Size(block) \in Nat
      /\ OverlayConsistent(db, cache)
      /\ View(db, cache) = Canon[block][Replayed(block, txi)]
      /\ txi \in 0..Size(block)
  BY <1>1, ExecPhase
<1>3. txi + 1 \in 1..Size(block)
  BY <1>2 DEF SkipSystemTx, MoreTxs, Size
<1>4. Replayed(block, txi + 1) = Replayed(block, txi)
  <2>1. HasStateDiffs(Chain[block]) /\ IsSystemTx(TxOf(block, txi + 1))
    BY DEF SkipSystemTx, SkipsTx, NextTx, TxOf
  <2>2. txi + 1 > Regulars(block) /\ Regulars(block) \in Nat
    BY <1>2, <1>3, <2>1, RegularsFirst
  <2> QED BY <1>2, <2>1, <2>2 DEF Replayed
<1>5. TypeOK'
  BY <1>1 DEF IInv, TypeOK
<1>6. DbAgreesWithHead' /\ CanonicalBlocksReplay' /\ StatsMatchHead' /\ CodeRowsPresent(db)'
  BY <1>1 DEF IInv, DbAgreesWithHead, CanonicalBlocksReplay, StatsMatchHead, CodeRowsPresent
<1>7. PhaseInv'
  BY <1>1, <1>2, <1>3, <1>4 DEF IInv, PhaseInv
<1> QED BY <1>5, <1>6, <1>7 DEF IInv

\* When a block's loop ends, the overlay shows what the flush must make durable.
LEMMA FlushPhase ==
  ASSUME IInv, NoMoreTxs, NEW h \in Nat \cup {Keep}
  PROVE  LET e == CommitBatch(db, FlushBatch(cache, h))
         IN  /\ e \in Rows
             /\ CodeRowsPresent(e) /\ NoOrphanRows(e)
             /\ Visible(e) = Canon[block][Replayed(block, Size(block))]
             /\ e.head = IF h = Keep THEN db.head ELSE h
<1>1. pc = "exec" /\ txi = Size(block)
  BY DEF NoMoreTxs, Size
<1>2. /\ db \in Rows /\ cache \in Caches
      /\ CodeRowsPresent(db) /\ NoOrphanRows(db) /\ OverlayConsistent(db, cache)
      /\ View(db, cache) = Canon[block][Replayed(block, Size(block))]
  BY <1>1, ExecPhase
<1> QED BY <1>2, FlushRows, FlushSeen

LEMMA FlushBlockStep ==
  ASSUME IInv, FlushBlock
  PROVE  IInv'
<1>1. /\ pc = "exec" /\ NoMoreTxs /\ ~ HasStateDiffs(Chain[block])
      /\ db' = CommitBatch(db, FlushBatch(cache, block))
      /\ pc' = "progress" /\ UNCHANGED <<head0, stats, block, txi, cache, result>>
  BY DEF FlushBlock, NoMoreTxs, memory
<1>2. block \in BlockNumbers /\ block = db.head + 1 /\ Size(block) \in Nat /\ block \in Nat
  BY <1>1, ExecPhase DEF BlockNumbers
<1>3. block # Keep
  BY <1>2, MarkersDiffer
<1>4. /\ db' \in Rows /\ CodeRowsPresent(db')
      /\ Visible(db') = Canon[block][Replayed(block, Size(block))]
      /\ db'.head = block
  BY <1>1, <1>2, <1>3, FlushPhase
<1>5. Replayed(block, Size(block)) = Size(block)
  BY <1>1 DEF Replayed
<1>6. Visible(db') = Post[block]
  BY <1>2, <1>4, <1>5, ChainIsValid
<1>7. TypeOK'
  BY <1>1, <1>2, <1>4 DEF IInv, TypeOK, Pcs, BlockNumbers
<1>8. DbAgreesWithHead' /\ CanonicalBlocksReplay' /\ StatsMatchHead' /\ CodeRowsPresent(db)'
  BY <1>1, <1>4, <1>6 DEF IInv, DbAgreesWithHead, CanonicalBlocksReplay, StatsMatchHead,
                          CodeRowsPresent
<1>9. PhaseInv'
  BY <1>1, <1>2, <1>4 DEF IInv, PhaseInv
<1> QED BY <1>7, <1>8, <1>9 DEF IInv

LEMMA FlushOverlayStep ==
  ASSUME IInv, FlushOverlay
  PROVE  IInv'
<1>1. /\ pc = "exec" /\ NoMoreTxs /\ HasStateDiffs(Chain[block])
      /\ db' = CommitBatch(db, FlushBatch(cache, Keep))
      /\ pc' = "apply_diffs" /\ UNCHANGED <<head0, stats, block, txi, cache, result>>
  BY DEF FlushOverlay, NoMoreTxs, memory
<1>2. block \in BlockNumbers /\ block = db.head + 1 /\ Size(block) \in Nat
  BY <1>1, ExecPhase
<1>3. /\ db' \in Rows /\ CodeRowsPresent(db') /\ NoOrphanRows(db')
      /\ Visible(db') = Canon[block][Replayed(block, Size(block))]
      /\ db'.head = db.head
  BY <1>1, FlushPhase
<1>4. Replayed(block, Size(block)) = Regulars(block)
  BY <1>1, <1>2, RegularsFirst DEF Replayed
<1>5. TypeOK'
  BY <1>1, <1>3 DEF IInv, TypeOK, Pcs
<1>6. DbAgreesWithHead' /\ CanonicalBlocksReplay' /\ StatsMatchHead' /\ CodeRowsPresent(db)'
  BY <1>1, <1>3 DEF IInv, DbAgreesWithHead, CanonicalBlocksReplay, StatsMatchHead,
                    CodeRowsPresent
<1>7. PhaseInv'
  BY <1>1, <1>2, <1>3, <1>4 DEF IInv, PhaseInv
<1> QED BY <1>5, <1>6, <1>7 DEF IInv

LEMMA ApplyStateDiffsStep ==
  ASSUME IInv, ApplyStateDiffs
  PROVE  IInv'
<1>1. /\ pc = "apply_diffs"
      /\ db' = CommitBatch(db, DiffBatch(db, Chain[block].diffs, block))
      /\ pc' = "progress" /\ UNCHANGED <<head0, stats, block, txi, cache, result>>
  BY DEF ApplyStateDiffs, memory
<1>2. /\ block \in BlockNumbers /\ block = db.head + 1 /\ block \in Nat
      /\ db \in Rows /\ CodeRowsPresent(db) /\ HasStateDiffs(Chain[block])
      /\ Visible(db) = Canon[block][Regulars(block)]
  BY <1>1 DEF IInv, PhaseInv, TypeOK, BlockNumbers
<1>3. /\ Chain[block].diffs \in Seq(StateDiffs) /\ PlainDiffs(Chain[block].diffs)
      /\ Post[block] = ApplyDiffs(Visible(db), Chain[block].diffs)
      /\ \A a \in Addr : Deletions(Chain[block].diffs, a) # {} =>
           \A s \in Slot : Visible(db).slot[a][s] = 0
  <2>1. Chain[block].diffs \in Seq(StateDiffs)
    BY <1>2, ChainType
  <2>2. HasStateDiffs(Chain[block]) /\ block \in BlockNumbers
    BY <1>2
  <2>3. /\ PlainDiffs(Chain[block].diffs)
        /\ Post[block] = ApplyDiffs(Canon[block][Regulars(block)], Chain[block].diffs)
        /\ \A a \in Addr : Deletions(Chain[block].diffs, a) # {} =>
             \A s \in Slot : Canon[block][Regulars(block)].slot[a][s] = 0
    BY <2>2, DiffsAreFaithful
  <2> QED BY <1>2, <2>1, <2>3
<1>4. /\ db' \in Rows /\ CodeRowsPresent(db')
      /\ Visible(db') = Post[block] /\ db'.head = block
  BY <1>1, <1>2, <1>3, DiffsSeen
<1>5. TypeOK'
  BY <1>1, <1>2, <1>4 DEF IInv, TypeOK, Pcs, BlockNumbers
<1>6. DbAgreesWithHead' /\ CanonicalBlocksReplay' /\ StatsMatchHead' /\ CodeRowsPresent(db)'
  BY <1>1, <1>4 DEF IInv, DbAgreesWithHead, CanonicalBlocksReplay, StatsMatchHead,
                    CodeRowsPresent
<1>7. PhaseInv'
  BY <1>1, <1>2, <1>4 DEF IInv, PhaseInv
<1> QED BY <1>5, <1>6, <1>7 DEF IInv

LEMMA ContinueStep ==
  ASSUME IInv, Continue
  PROVE  IInv'
<1>1. EmptyCache \in Caches
  BY DEF EmptyCache, Caches
<1>2. /\ pc = "progress" /\ pc' = "poll" /\ stats' = Counted
      /\ block' = 0 /\ txi' = 0 /\ cache' = EmptyCache
      /\ UNCHANGED <<db, head0, result>>
  BY DEF Continue
<1>3. /\ block \in BlockNumbers /\ block = db.head /\ head0 < block /\ head0 \in 0..Blocks
      /\ stats.processed \in Nat
      /\ stats.processed = 0 => block = head0 + 1
      /\ stats.processed > 0 => /\ stats.last + 1 = block
                                /\ stats.first = head0 + 1
                                /\ stats.processed = stats.last - head0
      /\ stats.first \in 0..Blocks /\ stats.last \in 0..Blocks
  BY <1>2 DEF IInv, PhaseInv, TypeOK
<1>4. TypeOK'
  BY <1>1, <1>2, <1>3, ChainType DEF IInv, TypeOK, Pcs, Counted, BlockNumbers
<1>5. StatsMatchHead'
  <2>1. stats'.processed = stats.processed + 1 /\ stats'.last = block
    BY <1>2 DEF Counted
  <2>2. CASE stats.processed = 0
    BY <1>2, <1>3, <2>1, <2>2 DEF Counted, StatsMatchHead, BlockNumbers
  <2>3. CASE stats.processed > 0
    BY <1>2, <1>3, <2>1, <2>3 DEF Counted, StatsMatchHead, BlockNumbers
  <2> QED BY <1>3, <2>2, <2>3
<1>6. DbAgreesWithHead' /\ CanonicalBlocksReplay' /\ CodeRowsPresent(db)'
  BY <1>2 DEF IInv, DbAgreesWithHead, CanonicalBlocksReplay, CodeRowsPresent
<1>7. PhaseInv'
  BY <1>2, <1>3 DEF PhaseInv, Counted, BlockNumbers
<1> QED BY <1>4, <1>5, <1>6, <1>7 DEF IInv

LEMMA StartStep ==
  ASSUME IInv, Start
  PROVE  IInv'
<1>1. /\ pc = "down" /\ pc' = "poll" /\ head0' = db.head /\ result' = "none"
      /\ UNCHANGED <<db, stats, block, txi, cache>>
  BY DEF Start
<1>2. TypeOK /\ stats = NoStats /\ db.head \in 0..Blocks
  BY <1>1 DEF IInv, PhaseInv, TypeOK
<1>3. stats'.processed = 0
  BY <1>1, <1>2 DEF NoStats
<1>4. TypeOK'
  BY <1>1, <1>2 DEF TypeOK, Pcs, Results
<1>5. DbAgreesWithHead' /\ CanonicalBlocksReplay' /\ CodeRowsPresent(db)'
  BY <1>1 DEF IInv, DbAgreesWithHead, CanonicalBlocksReplay, CodeRowsPresent
<1>6. StatsMatchHead'
  BY <1>3 DEF StatsMatchHead
<1>7. PhaseInv'
  BY <1>1, <1>2, ChainType DEF PhaseInv
<1> QED BY <1>4, <1>5, <1>6, <1>7 DEF IInv

\* Every step preserves the invariant, except the crash that NoCrashBetweenCommits
\* excludes.
LEMMA InvariantStep ==
  ASSUME IInv, [Next]_vars, ~ (Crash /\ pc = "apply_diffs")
  PROVE  IInv'
<1>1. CASE Start
  BY <1>1, StartStep
<1>2. CASE SourceError \/ SourceEnd \/ Stop
  BY <1>2, ExitStep DEF SourceError, SourceEnd, Stop, Results
<1>3. ASSUME NEW n \in 1..Blocks, Gap(n) PROVE IInv'
  BY <1>3, ExitStep DEF Gap, Results
<1>4. ASSUME NEW n \in 1..Blocks, Accept(n) PROVE IInv'
  BY <1>4, AcceptStep DEF BlockNumbers
<1>5. CASE SkipSystemTx
  BY <1>5, SkipSystemTxStep
<1>6. CASE ExecTx
  BY <1>6, ExecTxStep
<1>7. CASE TxFails
  BY <1>7, NextChanges DEF TxFails
<1>8. CASE FlushBlock
  BY <1>8, FlushBlockStep
<1>9. CASE FlushOverlay
  BY <1>9, FlushOverlayStep
<1>10. CASE ApplyStateDiffs
  BY <1>10, ApplyStateDiffsStep
<1>11. CASE Continue
  BY <1>11, ContinueStep
<1>12. CASE Crash
  BY <1>12, ExitStep DEF Crash, Results
<1>13. ASSUME NEW n \in 1..Blocks, Skip(n) PROVE IInv'
  <2>1. UNCHANGED vars
    BY <1>13 DEF Skip
  <2> QED BY <2>1 DEF vars, IInv, TypeOK, DbAgreesWithHead, CanonicalBlocksReplay,
                      StatsMatchHead, CodeRowsPresent, PhaseInv
<1>14. CASE UNCHANGED vars
  BY <1>14 DEF vars, IInv, TypeOK, DbAgreesWithHead, CanonicalBlocksReplay,
               StatsMatchHead, CodeRowsPresent, PhaseInv
<1> QED
  BY <1>1, <1>2, <1>3, <1>4, <1>5, <1>6, <1>7, <1>8, <1>9, <1>10, <1>11, <1>12, <1>13, <1>14
  DEF Next

----------------------------------------------------------------------------
(* A crash between the two commits of a hybrid block, and what follows it. *)

\* Leaving the process, as far as the types are concerned.
LEMMA ExitTypes ==
  ASSUME TypeOK, NEW r \in Results, Exit(r), UNCHANGED db
  PROVE  TypeOK' /\ pc' = "down" /\ stats' = NoStats /\ db' = db
<1>1. EmptyCache \in Caches
  BY DEF EmptyCache, Caches
<1> QED BY <1>1, ChainType DEF TypeOK, Exit, Pcs, NoStats

\* Without regular transactions the first commit of the block changes nothing, and
\* with them the database is torn.
LEMMA CrashBetweenCommits ==
  ASSUME IInv, pc = "apply_diffs", Crash
  PROVE  CrashInv'
<1>1. /\ block \in BlockNumbers /\ block = db.head + 1 /\ db.head \in 0..Blocks
      /\ db \in Rows /\ CodeRowsPresent(db) /\ NoOrphanRows(db)
      /\ HasStateDiffs(Chain[block])
      /\ Visible(db) = Canon[block][Regulars(block)]
  BY DEF IInv, PhaseInv, TypeOK
<1>2. TypeOK' /\ pc' = "down" /\ stats' = NoStats /\ db' = db /\ result' = "crashed"
  BY ExitTypes DEF Crash, IInv, Results, Exit
<1>3. Regulars(block) \in Nat
  BY <1>1, RegularsFirst, SizeType
<1>4. CASE Regulars(block) = 0
  <2>1. db.head = block - 1
    BY <1>1
  <2>2. Visible(db) = Post[db.head]
    BY <1>1, <1>4, <2>1, ChainIsValid
  <2>3. DbAgreesWithHead' /\ CanonicalBlocksReplay' /\ StatsMatchHead' /\ CodeRowsPresent(db)'
    BY <1>1, <1>2, <2>2 DEF DbAgreesWithHead, CanonicalBlocksReplay, StatsMatchHead,
                            CodeRowsPresent
  <2>4. PhaseInv'
    BY <1>2 DEF PhaseInv
  <2> QED BY <1>2, <2>3, <2>4 DEF IInv, CrashInv
<1>5. CASE Regulars(block) > 0
  <2>1. db.head < Blocks
    BY <1>1, ChainType DEF BlockNumbers
  <2>2. Torn(db)
    BY <1>1, <1>5, <2>1 DEF Torn
  <2> QED BY <1>1, <1>2, <2>2 DEF Stuck, CrashInv
<1> QED BY <1>3, <1>4, <1>5

\* The block that a stuck run takes: its first transaction is refused.
LEMMA StuckRefuses ==
  ASSUME Stuck, pc = "exec"
  PROVE  /\ MoreTxs /\ ~ SkipsTx
         /\ RunTx(NextTx, View(db, cache)) = EvmError
<1>1. /\ block = db.head + 1 /\ block \in BlockNumbers
      /\ txi = 0 /\ cache = EmptyCache
      /\ HasStateDiffs(Chain[block]) /\ Regulars(block) > 0
      /\ Visible(db) = Canon[block][Regulars(block)]
      /\ db \in Rows /\ CodeRowsPresent(db) /\ NoOrphanRows(db)
  BY ChainType DEF Stuck, Torn, TypeOK, BlockNumbers
<1>2. /\ Size(block) \in Nat /\ Regulars(block) \in 0..Size(block)
      /\ 1 \in 1..Size(block)
      /\ ~ IsSystemTx(TxOf(block, 1))
  BY <1>1, RegularsFirst, SizeType
<1>3. txi + 1 = 1 /\ NextTx = TxOf(block, 1)
  BY <1>1 DEF NextTx, TxOf
<1>4. MoreTxs /\ ~ SkipsTx
  BY <1>1, <1>2, <1>3 DEF MoreTxs, SkipsTx, Size
<1>5. View(db, cache) = Canon[block][Regulars(block)]
  BY <1>1, FreshOverlay
<1>6. RunTx(TxOf(block, 1), Canon[block][Regulars(block)]) = EvmError
  BY <1>1, NoncesAreSpent
<1> QED BY <1>3, <1>4, <1>5, <1>6

\* No step of a stuck replay writes a row.
LEMMA StuckStep ==
  ASSUME Stuck, [Next]_vars
  PROVE  Stuck' /\ db' = db
<1>s. /\ TypeOK /\ CodeRowsPresent(db) /\ NoOrphanRows(db) /\ Torn(db)
      /\ pc \in {"down", "poll", "exec"} /\ stats = NoStats
  BY DEF Stuck
<1>1. CASE Start
  <2>1. /\ pc' = "poll" /\ head0' = db.head /\ result' = "none"
        /\ UNCHANGED <<db, stats, block, txi, cache>>
    BY <1>1 DEF Start
  <2>2. TypeOK'
    BY <1>s, <2>1 DEF TypeOK, Pcs, Results
  <2> QED BY <1>s, <2>1, <2>2 DEF Stuck
<1>2. ASSUME NEW r \in Results, Exit(r), UNCHANGED db PROVE Stuck' /\ db' = db
  BY <1>s, <1>2, ExitTypes DEF Stuck
<1>3. CASE SourceError \/ SourceEnd \/ Stop \/ TxFails \/ Crash
  BY <1>2, <1>3 DEF SourceError, SourceEnd, Stop, TxFails, Crash, Results
<1>4. ASSUME NEW n \in 1..Blocks, Gap(n) PROVE Stuck' /\ db' = db
  BY <1>2, <1>4 DEF Gap, Results
<1>5. ASSUME NEW n \in 1..Blocks, Accept(n) PROVE Stuck' /\ db' = db
  <2>1. /\ pc = "poll" /\ n > head0 /\ Yields(n)
        /\ pc' = "exec" /\ block' = n /\ txi' = 0 /\ cache' = EmptyCache
        /\ UNCHANGED <<db, head0, stats, result>>
    BY <1>5 DEF Accept
  <2>2. head0 = db.head /\ db.head \in Nat /\ stats.processed = 0
    BY <2>1 DEF Stuck, NoStats, TypeOK
  <2>3. n = db.head + 1
    BY <2>1, <2>2, StreamsStartContiguous DEF Yields
  <2>4. EmptyCache \in Caches
    BY DEF EmptyCache, Caches
  <2>5. TypeOK'
    BY <1>s, <2>1, <2>4 DEF TypeOK, Pcs
  <2> QED BY <1>s, <2>1, <2>3, <2>5 DEF Stuck
<1>6. CASE SkipSystemTx \/ ExecTx
  BY <1>6, StuckRefuses DEF SkipSystemTx, ExecTx, MoreTxs
<1>7. CASE FlushBlock \/ FlushOverlay
  <2>1. MoreTxs
    BY <1>7, StuckRefuses DEF FlushBlock, FlushOverlay, NoMoreTxs
  <2> QED BY <1>7, <2>1, SizeType DEF FlushBlock, FlushOverlay, NoMoreTxs, MoreTxs, Stuck, TypeOK
<1>8. CASE ApplyStateDiffs \/ Continue
  BY <1>s, <1>8 DEF ApplyStateDiffs, Continue
<1>9. CASE UNCHANGED vars \/ \E n \in 1..Blocks : Skip(n)
  <2>1. UNCHANGED vars
    BY <1>9 DEF Skip
  <2> QED BY <1>s, <2>1 DEF vars, Stuck, TypeOK
<1> QED BY <1>1, <1>3, <1>4, <1>5, <1>6, <1>7, <1>8, <1>9 DEF Next

\* Every step preserves the invariant wherever the process is killed.
LEMMA CrashInvariantStep == CrashInv /\ [Next]_vars => CrashInv'
<1>1. ASSUME IInv, [Next]_vars PROVE CrashInv'
  BY <1>1, InvariantStep, CrashBetweenCommits DEF CrashInv
<1>2. ASSUME Stuck, [Next]_vars PROVE CrashInv'
  BY <1>2, StuckStep DEF CrashInv
<1> QED BY <1>1, <1>2 DEF CrashInv

\* A step leaves the head or moves it to the next block.
LEMMA HeadStep == CrashInv /\ [Next]_vars => db'.head \in {db.head, db.head + 1}
<1> SUFFICES ASSUME CrashInv, [Next]_vars, db' # db
             PROVE  db'.head \in {db.head, db.head + 1}
  OBVIOUS
<1>0. IInv
  BY StuckStep DEF CrashInv
<1>1. FlushBlock \/ FlushOverlay \/ ApplyStateDiffs
  BY DEF Next, vars, Start, SourceError, SourceEnd, Skip, Gap, Accept, SkipSystemTx, ExecTx,
         TxFails, Continue, Stop, Crash
<1>2. pc \in {"exec", "apply_diffs"} /\ block = db.head + 1 /\ block \in Nat
  BY <1>0, <1>1 DEF FlushBlock, FlushOverlay, ApplyStateDiffs, NoMoreTxs, IInv, PhaseInv, TypeOK
<1>3. \A b : CommitBatch(db, b).head \in {db.head, b.head}
  BY DEF CommitBatch
<1>4. FlushBatch(cache, block).head = block /\ FlushBatch(cache, Keep).head = Keep
  BY DEF FlushBatch
<1>5. DiffBatch(db, Chain[block].diffs, block).head = block
  BY DEF DiffBatch
<1>6. CommitBatch(db, FlushBatch(cache, Keep)).head = db.head
  BY <1>4 DEF CommitBatch
<1>7. db'.head \in {db.head, block}
  BY <1>1, <1>3, <1>4, <1>5, <1>6 DEF FlushBlock, FlushOverlay, ApplyStateDiffs
<1> QED BY <1>2, <1>7

----------------------------------------------------------------------------
(* The theorems that hold wherever the process is killed.                  *)

\* Throughout, either everything is as it should be or the replay is stuck at a
\* torn block.
THEOREM CrashInvariance == Spec => []CrashInv
<1>1. Init => CrashInv
  BY InitStep DEF CrashInv
<1> QED BY <1>1, CrashInvariantStep, PTL DEF Spec

\* The rows and the overlay are well-formed.
THEOREM TypeCorrect == Spec => []TypeOK
<1>1. CrashInv => TypeOK
  BY DEF CrashInv, IInv, Stuck
<1> QED BY <1>1, CrashInvariance, PTL

\* No sequence of crashes and replays damages the rows more than one crash between
\* two commits does: the executed transactions of one block, once.
THEOREM DamageBounded == Spec => []TornAtWorst
<1>1. CrashInv => TornAtWorst
  <2>1. ASSUME NEW n \in BlockNumbers, n = db.head + 1, db.head \in 0..Blocks,
               HasStateDiffs(Chain[n]), Visible(db) = Canon[n][Regulars(n)]
        PROVE  TornAtWorst
    <3>1. db.head < Blocks
      BY <2>1, ChainType DEF BlockNumbers
    <3>2. /\ Regulars(n) \in 0..Len(Chain[n].txs)
          /\ \A j \in 1..Len(Chain[n].txs) : IsSystemTx(Chain[n].txs[j]) <=> j > Regulars(n)
      BY <2>1, RegularsFirst DEF Size, TxOf
    <3> QED BY <2>1, <3>1, <3>2 DEF TornAtWorst
  <2>2. CASE IInv
    <3>1. CASE pc = "apply_diffs"
      BY <2>1, <2>2, <3>1 DEF IInv, PhaseInv, TypeOK
    <3>2. CASE pc # "apply_diffs"
      BY <2>2, <3>2 DEF IInv, DbAgreesWithHead, TornAtWorst
    <3> QED BY <3>1, <3>2
  <2>3. CASE Stuck
    <3>1. db.head + 1 \in BlockNumbers /\ db.head \in 0..Blocks
      BY <2>3, ChainType DEF Stuck, Torn, TypeOK, BlockNumbers
    <3> QED BY <2>1, <2>3, <3>1 DEF Stuck, Torn
  <2> QED BY <2>2, <2>3 DEF CrashInv
<1> QED BY <1>1, CrashInvariance, PTL

\* A torn block is never repaired: whatever is tried afterwards, the rows and the
\* head stay where they are.
THEOREM NoWayOut == Spec => StaysStuck
<1>1. Stuck /\ [Next]_vars => Stuck' /\ db' = db
  BY StuckStep
<1> QED BY <1>1, PTL DEF Spec, StaysStuck

\* What a run reports is what is durable.
THEOREM StatsAgreement == Spec => []StatsMatchHead
<1>1. CrashInv => StatsMatchHead
  BY DEF CrashInv, IInv, Stuck, StatsMatchHead, NoStats
<1> QED BY <1>1, CrashInvariance, PTL

\* No block is ever missed, whatever the stream repeats, drops or reorders.
THEOREM HeadAdvances == Spec => NoBlockMissed
<1>1. CrashInv /\ [Next]_vars => [db'.head \in {db.head, db.head + 1}]_vars
  BY HeadStep
<1> QED BY <1>1, CrashInvariance, PTL DEF Spec, NoBlockMissed

----------------------------------------------------------------------------
(* The theorems for a process that is not killed between two commits.      *)

\* The invariant holds throughout, whatever the stream yields and wherever else the
\* process is killed.
THEOREM Invariance ==
  ASSUME NoCrashBetweenCommits
  PROVE  Spec => []IInv
<1>1. IInv /\ [Next]_vars => IInv'
  <2>1. ASSUME IInv, Crash, pc = "apply_diffs" PROVE FALSE
    BY <2>1, NoCrashBetweenCommits DEF NoCrashBetweenCommits, Crash, IInv, PhaseInv
  <2> QED BY <2>1, InvariantStep
<1> QED BY <1>1, InitStep, PTL DEF Spec

\* The database shows the network's state at its head.
THEOREM HeadAgreement ==
  ASSUME NoCrashBetweenCommits
  PROVE  Spec => []DbAgreesWithHead
<1>1. IInv => DbAgreesWithHead
  BY DEF IInv
<1> QED BY <1>1, NoCrashBetweenCommits, Invariance, PTL

\* The EVM never refuses a transaction of the chain: nothing is applied twice.
THEOREM Replayability ==
  ASSUME NoCrashBetweenCommits
  PROVE  Spec => []CanonicalBlocksReplay
<1>1. IInv => CanonicalBlocksReplay
  BY DEF IInv
<1> QED BY <1>1, NoCrashBetweenCommits, Invariance, PTL

\* Without state diffs each block is committed whole or not at all, at every
\* moment and for every place where the process can be killed.
THEOREM PlainChainsAtomic ==
  ASSUME \A n \in BlockNumbers : ~ HasStateDiffs(Chain[n])
  PROVE  Spec => []BlockAtomic
<1>1. IInv => BlockAtomic
  BY DEF IInv, BlockAtomic, DbAgreesWithHead, PhaseInv
<1>2. NoCrashBetweenCommits
  BY DEF NoCrashBetweenCommits
<1> QED BY <1>1, <1>2, Invariance, PTL

\* The database implements the ledger that moves one whole block at a time.
THEOREM Refinement ==
  ASSUME NoCrashBetweenCommits
  PROVE  Spec => ImplementsLedger
<1>1. IInv => ShownWorld = Post[db.head]
  BY DEF IInv, DbAgreesWithHead, ShownWorld
<1>2. Init => Durable!Genesis
  <2>1. Init => db.head = 0
    BY DEF Init, GenesisRows
  <2> QED BY <1>1, <2>1, InitStep DEF Durable!Genesis
<1>3. IInv /\ IInv' /\ [Next]_vars => [Durable!CommitNext]_(Durable!durable)
  <2> SUFFICES ASSUME IInv, IInv', [Next]_vars
               PROVE  [Durable!CommitNext]_(Durable!durable)
    OBVIOUS
  <2>1. ShownWorld = Post[db.head]
    BY <1>1
  <2>2. ShownWorld' = Post[db'.head]
    BY DEF IInv, DbAgreesWithHead, ShownWorld
  <2>3. CASE db'.head = db.head
    BY <2>1, <2>2, <2>3 DEF Durable!durable
  <2>4. CASE db'.head = db.head + 1
    <3>1. db'.head \in 1..Blocks
      BY <2>4, ChainType DEF IInv, TypeOK
    <3>2. Durable!CommitWhole(db'.head)
      BY <2>2, <2>4 DEF Durable!CommitWhole, Durable!durable
    <3> QED BY <3>1, <3>2 DEF Durable!CommitNext
  <2> QED BY <2>3, <2>4, HeadStep DEF CrashInv
<1> QED BY <1>2, <1>3, NoCrashBetweenCommits, Invariance, PTL
        DEF Spec, ImplementsLedger, Durable!Spec

=============================================================================
