--------------------------- MODULE Client_proofs ---------------------------
(***************************************************************************)
(* What the caches of the two clients hold, for every server history, call *)
(* and number of callers: IInv, then the two invariants that rest on it,   *)
(* StillInv while the server's database stays as it is and SliceInv of the *)
(* slice that a call in hand was given.                                    *)
(*                                                                         *)
(* The model's recursive functions (the runs, a slice being stored) are    *)
(* unrolled by induction on a set of numbers: SetInduction and Iteration.  *)
(*                                                                         *)
(* At the end, the rules that a prefetch and a block run under.            *)
(***************************************************************************)
EXTENDS ClientCorrect, FiniteSetTheorems, SequenceTheorems, TLAPS

----------------------------------------------------------------------------
\* Induction up to m, for a set S of numbers.
LEMMA SetInduction ==
  ASSUME NEW m \in Nat, NEW S, 0 \in S,
         \A i \in 0..(m - 1) : i \in S => i + 1 \in S
  PROVE  0..m \subseteq S
<1> DEFINE Bad == (0..m) \ S
           R == StrictSubsetOrdering(0..m)
           Below == {0..x : x \in Bad}
<1> SUFFICES ASSUME Bad # {}
             PROVE  FALSE
  OBVIOUS
<1>1. Below \subseteq FiniteSubsetsOf(0..m) /\ Below # {}
  <2>1. ASSUME NEW x \in Bad
        PROVE  0..x \in FiniteSubsetsOf(0..m)
    <3>1. 0..x \subseteq 0..m /\ 0 \in Int /\ x \in Int
      OBVIOUS
    <3> QED BY <3>1, FS_Interval DEF FiniteSubsetsOf
  <2> QED BY <2>1
<1>2. IsWellFoundedOn(R, FiniteSubsetsOf(0..m))
  BY FS_StrictSubsetOrderingWellFounded
<1>3. \E X \in Below : \A Y \in Below : ~ (<<Y, X>> \in R)
  <2> HIDE DEF Below, R
  <2> QED BY <1>1, <1>2, WFMin
<1>4. PICK x \in Bad : \A Y \in Below : ~ (<<Y, 0..x>> \in R)
  BY <1>3
<1>5. x # 0 /\ x \in 1..m
  OBVIOUS
<1>6. x - 1 \in Bad
  <2>1. x - 1 \in 0..(m - 1) /\ (x - 1) + 1 = x
    BY <1>5
  <2> QED BY <2>1, <1>5
<1>7. <<0..(x - 1), 0..x>> \in R
  <2>1. 0..(x - 1) \subseteq 0..m /\ 0..x \subseteq 0..m /\ 0..(x - 1) \subseteq 0..x
    BY <1>5
  <2>2. x \in 0..x /\ x \notin 0..(x - 1)
    BY <1>5
  <2> QED BY <2>1, <2>2 DEF StrictSubsetOrdering
<1> QED BY <1>4, <1>6, <1>7

\* What a step does, done m times from a.
Iterates(f, m, a, step) == f[0] = a /\ \A i \in 1..m : f[i] = step[<<f[i - 1], i>>]

LEMMA Iteration ==
  ASSUME NEW m \in Nat, NEW S, NEW a \in S, NEW step \in [S \X (1..m) -> S]
  PROVE  \E f \in [0..m -> S] : Iterates(f, m, a, step)
<1> DEFINE N == {n \in 0..m : \E f \in [0..n -> S] : Iterates(f, n, a, step)}
<1>1. 0 \in N
  <2>1. [i \in 0..0 |-> a] \in [0..0 -> S] /\ Iterates([i \in 0..0 |-> a], 0, a, step)
    BY DEF Iterates
  <2> QED BY <2>1
<1>2. ASSUME NEW n \in 0..(m - 1), n \in N
      PROVE  n + 1 \in N
  <2>1. PICK f \in [0..n -> S] : Iterates(f, n, a, step)
    BY <1>2
  <2>2. n \in 0..n /\ n + 1 \in 1..m /\ (n + 1) - 1 = n /\ f[n] \in S
    BY <1>2
  <2> DEFINE g == [i \in 0..(n + 1) |-> IF i = n + 1 THEN step[<<f[n], n + 1>>] ELSE f[i]]
  <2>3. g \in [0..(n + 1) -> S]
    <3>1. step[<<f[n], n + 1>>] \in S
      BY <2>2
    <3>2. \A i \in 0..(n + 1) : i # n + 1 => i \in 0..n
      BY <1>2
    <3> QED BY <3>1, <3>2
  <2>4. g[0] = f[0] /\ g[n + 1] = step[<<f[n], n + 1>>] /\ \A i \in 0..n : g[i] = f[i]
    BY <1>2
  <2> HIDE DEF g
  <2>5. Iterates(g, n + 1, a, step)
    <3>1. \A i \in 1..(n + 1) : i = n + 1 \/ (i \in 1..n /\ i \in 0..n /\ i - 1 \in 0..n)
      BY <1>2
    <3>2. ASSUME NEW i \in 1..(n + 1)
          PROVE  g[i] = step[<<g[i - 1], i>>]
      <4>1. CASE i = n + 1
        BY <2>2, <2>4, <4>1
      <4>2. CASE i \in 1..n
        BY <2>1, <2>4, <3>1, <4>2 DEF Iterates
      <4> QED BY <3>1, <4>1, <4>2
    <3> QED BY <2>1, <2>4, <3>2 DEF Iterates
  <2> QED BY <2>2, <2>3, <2>5
<1>3. 0..m \subseteq N
  <2> HIDE DEF N
  <2> QED BY <1>1, <1>2, SetInduction
<1> QED BY <1>3

----------------------------------------------------------------------------
\* The caches.
LEMMA HeldAt ==
  ASSUME NEW E, NEW tier \in Seq(E), NEW place, Held(tier, place)
  PROVE  PositionOf(tier, place) \in 1..Len(tier) /\ tier[PositionOf(tier, place)].at = place
<1>1. DOMAIN tier = 1..Len(tier)
  OBVIOUS
<1> QED BY <1>1 DEF Held, PositionOf

\* Taking the entry at p out of a sequence.
LEMMA RemoveAtSeq ==
  ASSUME NEW E, NEW s \in Seq(E), NEW p \in 1..Len(s)
  PROVE  /\ RemoveAt(s, p) \in Seq(E) /\ Len(RemoveAt(s, p)) = Len(s) - 1
         /\ \A i \in 1..(Len(s) - 1) : RemoveAt(s, p)[i] = s[IF i < p THEN i ELSE i + 1]
<1> DEFINE front == SubSeq(s, 1, p - 1)
           back == SubSeq(s, p + 1, Len(s))
<1>1. Len(s) \in Nat /\ p \in Int /\ p - 1 \in Int /\ p + 1 \in Int /\ 1 \in Int /\ Len(s) \in Int
  OBVIOUS
<1>2. front \in Seq(E) /\ Len(front) = p - 1 /\ \A i \in 1..(p - 1) : front[i] = s[i]
  <2>1. \A i \in 1..(p - 1) : s[i] \in E
    BY <1>1
  <2>2. /\ front \in Seq(E) /\ Len(front) = IF 1 <= p - 1 THEN (p - 1) - 1 + 1 ELSE 0
        /\ \A i \in 1..((p - 1) - 1 + 1) : front[i] = s[1 + i - 1]
    BY <1>1, <2>1, SubSeqProperties
  <2> QED BY <1>1, <2>2
<1>3. back \in Seq(E) /\ Len(back) = Len(s) - p /\ \A i \in 1..(Len(s) - p) : back[i] = s[p + i]
  <2>1. \A i \in (p + 1)..Len(s) : s[i] \in E
    BY <1>1
  <2>2. /\ back \in Seq(E) /\ Len(back) = IF p + 1 <= Len(s) THEN Len(s) - (p + 1) + 1 ELSE 0
        /\ \A i \in 1..(Len(s) - (p + 1) + 1) : back[i] = s[(p + 1) + i - 1]
    BY <1>1, <2>1, SubSeqProperties
  <2>3. \A i \in 1..(Len(s) - p) : i \in 1..(Len(s) - (p + 1) + 1) /\ (p + 1) + i - 1 = p + i
    BY <1>1
  <2> QED BY <1>1, <2>2, <2>3
<1>4. RemoveAt(s, p) = front \o back
  BY DEF RemoveAt
<1> HIDE DEF front, back
<1>5. /\ front \o back \in Seq(E) /\ Len(front \o back) = Len(front) + Len(back)
      /\ \A i \in 1..(Len(front) + Len(back)) :
           (front \o back)[i] = IF i <= Len(front) THEN front[i] ELSE back[i - Len(front)]
  BY <1>2, <1>3, ConcatProperties
<1>6. Len(front) + Len(back) = Len(s) - 1
  BY <1>1, <1>2, <1>3
<1>7. ASSUME NEW i \in 1..(Len(s) - 1)
      PROVE  (front \o back)[i] = s[IF i < p THEN i ELSE i + 1]
  <2>1. CASE i < p
    <3>1. i \in 1..(p - 1) /\ i <= p - 1
      BY <2>1, <1>1
    <3> QED BY <1>2, <1>5, <1>6, <2>1, <3>1
  <2>2. CASE ~ (i < p)
    <3>1. i - (p - 1) \in 1..(Len(s) - p) /\ ~ (i <= p - 1) /\ p + (i - (p - 1)) = i + 1
      BY <2>2, <1>1
    <3>2. (front \o back)[i] = back[i - (p - 1)]
      BY <1>2, <1>5, <1>6, <3>1
    <3> QED BY <1>3, <2>2, <3>1, <3>2
  <2> QED BY <2>1, <2>2
<1> QED BY <1>4, <1>5, <1>6, <1>7

\* What is left without a place: the other entries, in their order.
Remains(rest, tier, place) ==
  /\ Len(rest) <= Len(tier) /\ Distinct(rest)
  /\ \A i \in 1..Len(rest) : rest[i].at # place
  /\ \A i \in 1..Len(rest) : \E j \in 1..Len(tier) : rest[i] = tier[j]
  /\ \A j \in 1..Len(tier) : tier[j].at # place => \E i \in 1..Len(rest) : rest[i] = tier[j]

InOrder(rest, tier) == \A i, k \in 1..Len(rest) : i <= k =>
  \E x, y \in 1..Len(tier) : x <= y /\ rest[i] = tier[x] /\ rest[k] = tier[y]

LEMMA WithoutTier ==
  ASSUME NEW E, NEW tier \in Seq(E), Distinct(tier), NEW place
  PROVE  /\ Without(tier, place) \in Seq(E) /\ Remains(Without(tier, place), tier, place)
         /\ InOrder(Without(tier, place), tier)
<1> DEFINE rest == Without(tier, place)
           p == PositionOf(tier, place)
<1>1. DOMAIN tier = 1..Len(tier) /\ Len(tier) \in Nat
  OBVIOUS
<1>2. CASE Held(tier, place)
  <2>1. p \in 1..Len(tier) /\ tier[p].at = place
    BY <1>2, HeldAt
  <2>2. rest = RemoveAt(tier, p)
    BY <1>2 DEF Without
  <2> HIDE DEF p, rest
  <2>3. rest \in Seq(E) /\ Len(rest) = Len(tier) - 1
    BY <2>1, <2>2, RemoveAtSeq
  <2>4. \A i \in 1..Len(rest) : rest[i] = tier[IF i < p THEN i ELSE i + 1]
    BY <2>1, <2>2, <2>3, RemoveAtSeq
  <2>5. DOMAIN rest = 1..Len(rest)
    BY <2>3
  <2>6. ASSUME NEW i \in 1..Len(rest)
        PROVE  \E j \in 1..Len(tier) : rest[i] = tier[j] /\ j # p /\ j = IF i < p THEN i ELSE i + 1
    BY <1>1, <2>1, <2>3, <2>4
  <2>7. ASSUME NEW j \in 1..Len(tier), tier[j].at # place
        PROVE  \E i \in 1..Len(rest) : rest[i] = tier[j]
    <3>1. CASE j < p
      BY <1>1, <2>1, <2>3, <2>4, <3>1
    <3>2. CASE j > p
      <4>1. j - 1 \in 1..Len(rest) /\ ~ (j - 1 < p) /\ (j - 1) + 1 = j
        BY <1>1, <2>1, <2>3, <3>2
      <4> QED BY <2>4, <4>1
    <3> QED BY <1>1, <2>1, <2>7, <3>1, <3>2
  <2>8. Distinct(rest)
    <3> SUFFICES ASSUME NEW i \in 1..Len(rest), NEW k \in 1..Len(rest), rest[i].at = rest[k].at
                 PROVE  i = k
      BY <2>5 DEF Distinct
    <3>1. PICK x \in 1..Len(tier) : rest[i] = tier[x] /\ x # p /\ x = IF i < p THEN i ELSE i + 1
      BY <2>6
    <3>2. PICK y \in 1..Len(tier) : rest[k] = tier[y] /\ y # p /\ y = IF k < p THEN k ELSE k + 1
      BY <2>6
    <3>3. x = y
      BY <1>1, <3>1, <3>2 DEF Distinct
    <3> QED BY <1>1, <2>1, <2>3, <3>1, <3>2, <3>3
  <2>9. ASSUME NEW i \in 1..Len(rest)
        PROVE  rest[i].at # place
    <3>1. PICK j \in 1..Len(tier) : rest[i] = tier[j] /\ j # p
      BY <2>6
    <3>2. tier[j].at # tier[p].at
      BY <1>1, <2>1, <3>1 DEF Distinct
    <3> QED BY <2>1, <3>1, <3>2
  <2>10. Len(rest) <= Len(tier)
    BY <1>1, <2>3
  <2>11. ASSUME NEW i \in 1..Len(rest), NEW k \in 1..Len(rest), i <= k
         PROVE  \E x, y \in 1..Len(tier) : x <= y /\ rest[i] = tier[x] /\ rest[k] = tier[y]
    <3>1. PICK x \in 1..Len(tier) : rest[i] = tier[x] /\ x = IF i < p THEN i ELSE i + 1
      BY <2>6
    <3>2. PICK y \in 1..Len(tier) : rest[k] = tier[y] /\ y = IF k < p THEN k ELSE k + 1
      BY <2>6
    <3>3. x <= y
      BY <1>1, <2>1, <2>3, <2>11, <3>1, <3>2
    <3> QED BY <3>1, <3>2, <3>3
  <2> QED BY <2>3, <2>6, <2>7, <2>8, <2>9, <2>10, <2>11 DEF rest, Remains, InOrder
<1>3. CASE ~ Held(tier, place)
  BY <1>1, <1>3 DEF Without, Held, Remains, InOrder
<1> QED BY <1>2, <1>3

\* Storing an entry: it is there, last; nothing is there that was not there before, and
\* what was there still is, when there is room for one more.
Takes(new, old, e) ==
  /\ Len(new) <= client.capacity /\ Len(new) >= 1 /\ new[Len(new)] = e /\ Distinct(new)
  /\ \A i \in 1..Len(new) : new[i] = e \/ \E j \in 1..Len(old) : new[i] = old[j]

LEMMA PutTier ==
  ASSUME client.capacity \in Nat \ {0}, NEW E, NEW tier \in Seq(E), Distinct(tier),
         Len(tier) <= client.capacity, NEW e \in E
  PROVE  LET new == Trim(Append(Without(tier, e.at), e))
         IN  new \in Seq(E) /\ Takes(new, tier, e)
<1> DEFINE rest == Without(tier, e.at)
           long == Append(rest, e)
<1>1. rest \in Seq(E) /\ Remains(rest, tier, e.at)
  BY WithoutTier
<1> HIDE DEF rest
<1>2. /\ long \in Seq(E) /\ long # <<>> /\ Len(long) = Len(rest) + 1
      /\ \A i \in 1..Len(rest) : long[i] = rest[i]
      /\ long[Len(rest) + 1] = e
  BY <1>1, AppendProperties
<1>3. Len(rest) \in Nat /\ Len(tier) \in Nat /\ DOMAIN rest = 1..Len(rest)
  BY <1>1
<1> HIDE DEF long
<1>4. DOMAIN long = 1..Len(long)
  BY <1>2
<1>5. Distinct(long)
  <2> SUFFICES ASSUME NEW i \in 1..Len(long), NEW k \in 1..Len(long), long[i].at = long[k].at
               PROVE  i = k
    BY <1>4 DEF Distinct
  <2>1. \A x \in 1..Len(long) : x \in 1..Len(rest) \/ x = Len(rest) + 1
    BY <1>2, <1>3
  <2>2. \A x \in 1..Len(rest) : long[x].at # e.at
    BY <1>1, <1>2 DEF Remains
  <2>3. CASE i \in 1..Len(rest) /\ k \in 1..Len(rest)
    <3>1. rest[i].at = rest[k].at
      BY <1>2, <2>3
    <3>2. Distinct(rest)
      BY <1>1 DEF Remains
    <3> QED BY <1>3, <2>3, <3>1, <3>2 DEF Distinct
  <2>4. CASE i = Len(rest) + 1 \/ k = Len(rest) + 1
    <3>1. long[i].at = e.at /\ long[k].at = e.at
      BY <1>2, <2>4
    <3>2. i \notin 1..Len(rest) /\ k \notin 1..Len(rest)
      BY <2>2, <3>1
    <3> QED BY <2>1, <3>2
  <2> QED BY <2>1, <2>3, <2>4
<1>6. \A i \in 1..Len(long) : long[i] = e \/ \E j \in 1..Len(tier) : long[i] = tier[j]
  <2>1. ASSUME NEW i \in 1..Len(long)
        PROVE  i \in 1..Len(rest) \/ i = Len(rest) + 1
    BY <1>2, <1>3
  <2>2. \A i \in 1..Len(rest) : \E j \in 1..Len(tier) : rest[i] = tier[j]
    BY <1>1 DEF Remains
  <2> QED BY <1>2, <2>1, <2>2
<1>7. CASE Len(long) > client.capacity
  <2>1. Trim(long) = Tail(long)
    BY <1>7 DEF Trim
  <2>2. /\ Tail(long) \in Seq(E) /\ Len(Tail(long)) = Len(long) - 1
        /\ \A i \in 1..Len(Tail(long)) : Tail(long)[i] = long[i + 1]
    BY <1>2, HeadTailProperties
  <2> DEFINE short == Tail(long)
  <2> HIDE DEF short
  <2>3. short \in Seq(E) /\ Len(short) = Len(rest) /\ Len(rest) >= client.capacity
    BY <1>2, <1>3, <1>7, <2>2 DEF short
  <2>4. \A i \in 1..Len(short) : i + 1 \in 1..Len(long) /\ short[i] = long[i + 1]
    BY <1>2, <1>3, <2>2, <2>3 DEF short
  <2>5. DOMAIN short = 1..Len(short)
    BY <2>3
  <2>6. Distinct(short)
    <3> SUFFICES ASSUME NEW i \in 1..Len(short), NEW k \in 1..Len(short), short[i].at = short[k].at
                 PROVE  i = k
      BY <2>5 DEF Distinct
    <3>1. i + 1 = k + 1
      <4>1. i + 1 \in DOMAIN long /\ k + 1 \in DOMAIN long
        BY <1>4, <2>4
      <4>2. long[i + 1].at = long[k + 1].at
        BY <2>4
      <4> QED BY <1>5, <4>1, <4>2 DEF Distinct
    <3> QED BY <1>3, <2>3, <3>1
  <2>7. Len(short) <= client.capacity /\ Len(short) >= 1
    BY <1>1, <1>3, <2>3 DEF Remains
  <2>8. short[Len(short)] = e
    BY <1>2, <1>3, <2>3, <2>4, <2>7
  <2>9. \A i \in 1..Len(short) : short[i] = e \/ \E j \in 1..Len(tier) : short[i] = tier[j]
    BY <1>6, <2>4
  <2> QED BY <2>1, <2>3, <2>6, <2>7, <2>8, <2>9 DEF Takes, short, long, rest
<1>8. CASE ~ (Len(long) > client.capacity)
  <2>1. Trim(long) = long
    BY <1>8 DEF Trim
  <2> QED BY <1>2, <1>3, <1>5, <1>6, <1>8, <2>1 DEF Takes, long, rest
<1> QED BY <1>7, <1>8

Stores(after, caches, slice) ==
  /\ after[0] = caches /\ after[Len(slice)] = Stored(caches, slice)
  /\ \A i \in 1..Len(slice) : after[i] = Put(after[i - 1], slice[i])

\* A slice is stored step by step, and stays in a set that every entry's storing stays in.
LEMMA StoredSequence ==
  ASSUME NEW S, NEW caches \in S, NEW E, NEW slice \in Seq(E),
         \A x \in S, e \in E : Put(x, e) \in S
  PROVE  \E after \in [0..Len(slice) -> S] : Stores(after, caches, slice)
<1> DEFINE F(h) == [i \in 0..Len(slice) |-> IF i = 0 THEN caches ELSE Put(h[i - 1], slice[i])]
           after == CHOOSE h : h = F(h)
           step == [x \in S \X (1..Len(slice)) |-> Put(x[1], slice[x[2]])]
<1>1. Len(slice) \in Nat /\ \A i \in 1..Len(slice) : slice[i] \in E
  OBVIOUS
<1>2. \E h : h = F(h)
  <2>1. step \in [S \X (1..Len(slice)) -> S]
    BY <1>1
  <2> HIDE DEF step
  <2>2. PICK f \in [0..Len(slice) -> S] : Iterates(f, Len(slice), caches, step)
    BY <1>1, <2>1, Iteration
  <2>3. f = F(f)
    <3>1. ASSUME NEW i \in 1..Len(slice)
          PROVE  f[i] = Put(f[i - 1], slice[i])
      <4>1. f[i - 1] \in S
        BY <1>1
      <4> QED BY <2>2, <4>1 DEF Iterates, step
    <3>2. f[0] = caches
      BY <2>2 DEF Iterates
    <3> QED BY <1>1, <3>1, <3>2
  <2> QED BY <2>3
<1>3. after = F(after)
  <2> HIDE DEF F
  <2> QED BY <1>2
<1> HIDE DEF after
<1>4. 0..Len(slice) \subseteq {i \in 0..Len(slice) : after[i] \in S}
  <2> DEFINE N == {i \in 0..Len(slice) : after[i] \in S}
  <2>1. 0 \in N
    <3>1. after[0] = caches
      BY <1>1, <1>3
    <3> QED BY <1>1, <3>1
  <2>2. ASSUME NEW i \in 0..(Len(slice) - 1), i \in N
        PROVE  i + 1 \in N
    <3>1. i + 1 \in 1..Len(slice) /\ i + 1 # 0 /\ (i + 1) - 1 = i /\ i + 1 \in 0..Len(slice)
      BY <1>1
    <3>2. after[i + 1] = Put(after[i], slice[i + 1])
      BY <1>3, <3>1
    <3> QED BY <1>1, <2>2, <3>1, <3>2
  <2> HIDE DEF N
  <2>3. 0..Len(slice) \subseteq N
    BY <1>1, <2>1, <2>2, SetInduction
  <2> QED BY <2>3 DEF N
<1>5. Stored(caches, slice) = after[Len(slice)]
  BY DEF Stored, after
<1>6. after[0] = caches /\ \A i \in 1..Len(slice) : after[i] = Put(after[i - 1], slice[i])
  BY <1>1, <1>3
<1>7. after \in [0..Len(slice) -> S]
  BY <1>3, <1>4
<1> HIDE DEF F
<1> QED BY <1>5, <1>6, <1>7 DEF Stores

LEMMA StoredIn ==
  ASSUME NEW S, NEW caches \in S, NEW E, NEW slice \in Seq(E),
         \A x \in S, e \in E : Put(x, e) \in S
  PROVE  Stored(caches, slice) \in S
<1>1. Len(slice) \in 0..Len(slice)
  OBVIOUS
<1> QED BY <1>1, StoredSequence DEF Stores

----------------------------------------------------------------------------
\* What the server says: entries of the three kinds.
LEMMA SaidAt ==
  ASSUME NEW n, NEW e \in Said(n)
  PROVE  e = Entry(e.at, e.value) /\ e.at.tier \in Tiers
BY DEF Said, AccountEntries, SlotEntries, CodeEntries, Entry, AccountPlace, SlotPlace, CodePlace,
   Tiers

\* What was said stays said.
LEMMA SaidGrows ==
  ASSUME NEW n \in Nat, NEW m \in Nat, n <= m
  PROVE  Said(n) \subseteq Said(m)
<1>1. 1..n \subseteq 1..m
  OBVIOUS
<1>2. AskedFor(n) \subseteq AskedFor(m)
  BY <1>1 DEF AskedFor
<1> QED BY <1>1, <1>2 DEF Said, AccountEntries, SlotEntries, CodeEntries

LEMMA CachesGrow ==
  ASSUME NEW n \in Nat, NEW m \in Nat, n <= m, NEW caches \in Caches(n)
  PROVE  caches \in Caches(m)
<1>1. Said(n) \subseteq Said(m)
  BY SaidGrows
<1>2. \A t \in Tiers : caches[t] \in Seq(Said(m))
  BY <1>1 DEF Caches
<1> QED BY <1>2 DEF Caches

\* The caches go on holding what the server said.
LEMMA PutSaid ==
  ASSUME client.capacity \in Nat \ {0}, NEW n, NEW caches \in Caches(n), NEW e \in Said(n)
  PROVE  Put(caches, e) \in Caches(n)
<1> DEFINE t == e.at.tier
           new == Trim(Append(Without(caches[t], e.at), e))
<1>1. t \in Tiers
  BY SaidAt
<1>2. /\ caches \in [Tiers -> Seq(Said(n))]
      /\ \A u \in Tiers : /\ Len(caches[u]) <= client.capacity
                          /\ Distinct(caches[u]) /\ OfKind(caches[u], u)
  BY DEF Caches
<1>3. Put(caches, e) = [caches EXCEPT ![t] = new]
  BY DEF Put
<1>4. new \in Seq(Said(n)) /\ Takes(new, caches[t], e)
  BY <1>1, <1>2, PutTier
<1> HIDE DEF new
<1>5. OfKind(new, t)
  <2>1. DOMAIN new = 1..Len(new) /\ DOMAIN caches[t] = 1..Len(caches[t])
    BY <1>1, <1>2, <1>4
  <2> QED BY <1>1, <1>2, <1>4, <2>1 DEF Takes, OfKind
<1>6. [caches EXCEPT ![t] = new] \in [Tiers -> Seq(Said(n))]
  BY <1>1, <1>2, <1>4
<1> QED BY <1>1, <1>2, <1>3, <1>4, <1>5, <1>6 DEF Caches, Takes

LEMMA StoredSaid ==
  ASSUME client.capacity \in Nat \ {0}, NEW n, NEW caches \in Caches(n),
         NEW slice \in Seq(Said(n))
  PROVE  Stored(caches, slice) \in Caches(n)
<1>1. \A x \in Caches(n), e \in Said(n) : Put(x, e) \in Caches(n)
  BY PutSaid
<1> QED BY <1>1, StoredIn

LEMMA StoredCaches ==
  ASSUME client.capacity \in Nat \ {0}, NEW n, NEW caches \in Caches(n),
         NEW slice \in Seq(Said(n))
  PROVE  \E after \in [0..Len(slice) -> Caches(n)] : Stores(after, caches, slice)
<1>1. \A x \in Caches(n), e \in Said(n) : Put(x, e) \in Caches(n)
  BY PutSaid
<1> QED BY <1>1, StoredSequence

\* What a cache has for a place is an entry for that place.
LEMMA HeldSaid ==
  ASSUME NEW n, NEW caches \in Caches(n), NEW place, place.tier \in Tiers,
         Held(caches[place.tier], place)
  PROVE  Entry(place, ValueOf(caches[place.tier], place)) \in Said(n)
<1> DEFINE tier == caches[place.tier]
           i == PositionOf(tier, place)
<1>1. tier \in Seq(Said(n)) /\ Held(tier, place)
  BY DEF Caches
<1>2. i \in 1..Len(tier) /\ tier[i].at = place
  BY <1>1, HeldAt
<1>3. tier[i] \in Said(n)
  BY <1>1, <1>2
<1>4. tier[i] = Entry(place, tier[i].value)
  BY <1>2, <1>3, SaidAt
<1> QED BY <1>3, <1>4 DEF ValueOf

----------------------------------------------------------------------------
\* Runs.
LEMMA StepKinds ==
  /\ Steps = AccountSteps \cup RunSteps \cup OtherSteps
  /\ \A s \in AccountSteps : ReadsAccount(s) /\ s.op # "run" /\ s.what = None
  /\ \A s \in RunSteps : ~ ReadsAccount(s) /\ s.what \in Code
  /\ \A s \in OtherSteps : ~ ReadsAccount(s) /\ s.op # "run"
  /\ \A s \in Steps : s.of \in Addr /\ s.self \in Addr
BY DEF Steps, AccountSteps, RunSteps, OtherSteps, ReadsAccount, AccountOps, BlockOps

LEMMA LoggedValues ==
  ASSUME NEW s, NEW v
  PROVE  [step |-> s, value |-> v] \in Logged <=>
           \/ s \in AccountSteps /\ v \in AccountInfo \cup {None}
           \/ s \in RunSteps /\ v \in Code \cup {NoCode}
           \/ s \in OtherSteps /\ v \in Numbers
BY DEF Logged

LEMMA InFrameType ==
  ASSUME NEW body \in Seq({s \in Steps : s.op \notin {"caller", "run"}}), NEW self \in Addr
  PROVE  InFrame(body, self) \in Seq(Steps)
<1>1. DOMAIN body = 1..Len(body) /\ Len(body) \in Nat
  OBVIOUS
<1>2. ASSUME NEW i \in 1..Len(body)
      PROVE  [body[i] EXCEPT !.self = self, !.of = IF body[i].op = "sload" THEN self ELSE @] \in Steps
  <2>1. body[i] \in Steps /\ body[i].op \notin {"caller", "run"}
    BY <1>1
  <2> QED BY <2>1 DEF Steps
<1> DEFINE framed == [i \in 1..Len(body) |->
       [body[i] EXCEPT !.self = self, !.of = IF body[i].op = "sload" THEN self ELSE @]]
<1>3. framed \in [1..Len(body) -> Steps]
  BY <1>2
<1>4. InFrame(body, self) = framed
  BY <1>1 DEF InFrame
<1> HIDE DEF framed
<1> QED BY <1>1, <1>3, <1>4

LEMMA UnfoldsType ==
  ASSUME NEW s, NEW v, [step |-> s, value |-> v] \in Logged
  PROVE  Unfolds(s, v) \in Seq(Steps)
<1>1. s \in Steps
  BY LoggedValues, StepKinds
<1>2. CASE s.op \in {"call", "delegatecall"} /\ HasCode(v)
  <2>1. v \in AccountInfo /\ v.code \in Code
    <3>1. s \in AccountSteps
      BY <1>1, <1>2 DEF AccountSteps, ReadsAccount, AccountOps
    <3>2. s \notin RunSteps /\ s \notin OtherSteps
      BY <3>1, StepKinds
    <3> QED BY <1>2, <3>2, LoggedValues DEF HasCode, AccountInfo
  <2>2. [op |-> "run", self |-> IF s.op = "call" THEN s.of ELSE s.self,
         of |-> s.of, what |-> v.code] \in Steps
    BY <1>1, <2>1, StepKinds DEF Steps
  <2> QED BY <1>2, <2>2 DEF Unfolds
<1>3. CASE s.op = "run" /\ v # NoCode /\ ~ (s.op \in {"call", "delegatecall"} /\ HasCode(v))
  <2>1. s \in RunSteps /\ s \notin AccountSteps /\ s \notin OtherSteps
    BY <1>1, <1>3, StepKinds DEF RunSteps
  <2>2. v \in Code
    BY <1>3, <2>1, LoggedValues
  <2>3. InFrame(Body[v], s.self) \in Seq(Steps)
    BY <1>1, <2>2, BodyType, StepKinds, InFrameType
  <2> QED BY <1>3, <2>3 DEF Unfolds
<1> QED BY <1>2, <1>3 DEF Unfolds

LEMMA AdvanceType ==
  ASSUME NEW r \in Runs, r.todo # <<>>, NEW v, [step |-> Head(r.todo), value |-> v] \in Logged
  PROVE  Advance(r, v) \in Runs
<1>1. r.todo \in Seq(Steps) /\ r.log \in Seq(Logged)
  BY DEF Runs
<1>2. Unfolds(Head(r.todo), v) \in Seq(Steps) /\ Tail(r.todo) \in Seq(Steps)
  BY <1>1, UnfoldsType, HeadTailProperties
<1>3. Unfolds(Head(r.todo), v) \o Tail(r.todo) \in Seq(Steps)
  BY <1>2, ConcatProperties
<1>4. Append(r.log, [step |-> Head(r.todo), value |-> v]) \in Seq(Logged)
  BY <1>1, AppendProperties
<1> QED BY <1>3, <1>4 DEF Advance, Runs

LEMMA BeginType ==
  ASSUME NEW c \in Calls
  PROVE  Begin(c) \in Runs
<1>1. c.from \in Addr /\ c.to \in Addr
  BY DEF Calls
<1>2. /\ [op |-> "caller", self |-> c.to, of |-> c.from, what |-> None] \in Steps
      /\ [op |-> "call", self |-> c.to, of |-> c.to, what |-> None] \in Steps
  BY <1>1 DEF Steps, AccountOps
<1> QED BY <1>2 DEF Begin, Runs

LEMMA JournalType ==
  ASSUME NEW r \in Runs, r.todo # <<>>, Journaled(r)
  PROVE  [step |-> Head(r.todo), value |-> FromJournal(r)] \in Logged
<1> DEFINE s == Head(r.todo)
           i == CHOOSE k \in Loaded(r, s) : TRUE
<1>1. i \in Loaded(r, s)
  BY DEF Journaled
<1>2. s \in Steps
  BY HeadTailProperties DEF Runs
<1>3. i \in 1..Len(r.log) /\ r.log \in Seq(Logged)
  <2>1. r.log \in Seq(Logged) /\ i \in DOMAIN r.log
    BY <1>1 DEF Loaded, Runs
  <2> QED BY <2>1
<1>4. r.log[i] \in Logged
  BY <1>3
<1>5. r.log[i] = [step |-> r.log[i].step, value |-> r.log[i].value]
  BY <1>4 DEF Logged
<1>6. IF ReadsAccount(s) THEN ReadsAccount(r.log[i].step) ELSE r.log[i].step.op = s.op
  BY <1>1 DEF Loaded
<1>7. FromJournal(r) = r.log[i].value
  BY DEF FromJournal
<1> HIDE DEF s, i
<1>8. /\ r.log[i].step \in AccountSteps => s \in AccountSteps
      /\ r.log[i].step \in RunSteps => s \in RunSteps
      /\ r.log[i].step \in OtherSteps => s \in OtherSteps
  <2>1. ReadsAccount(s) <=> ReadsAccount(r.log[i].step)
    BY <1>6 DEF ReadsAccount
  <2>2. ~ ReadsAccount(s) => r.log[i].step.op = s.op
    BY <1>6
  <2> QED BY <1>2, <2>1, <2>2, StepKinds DEF AccountSteps, RunSteps, OtherSteps
<1>9. [step |-> s, value |-> r.log[i].value] \in Logged
  BY <1>4, <1>5, <1>8, LoggedValues
<1> QED BY <1>7, <1>9 DEF s

\* What a run may read.
Answers(read) == \A s \in Steps : [step |-> s, value |-> read[s]] \in Logged

LEMMA StepOfType ==
  ASSUME NEW r \in Runs, NEW read, Answers(read)
  PROVE  StepOf(r, read) \in Runs
<1>1. CASE Over(r)
  BY <1>1 DEF StepOf
<1>2. CASE ~ Over(r)
  <2>1. r.todo # <<>> /\ Head(r.todo) \in Steps
    BY <1>2, HeadTailProperties DEF Over, Runs
  <2>2. [step |-> Head(r.todo),
         value |-> IF Journaled(r) THEN FromJournal(r) ELSE read[Head(r.todo)]] \in Logged
    BY <2>1, JournalType DEF Answers
  <2> QED BY <1>2, <2>1, <2>2, AdvanceType DEF StepOf
<1> QED BY <1>1, <1>2

\* A run is the outcome of Gas steps.
LEMMA RunSequence ==
  ASSUME NEW c \in Calls, NEW read, Answers(read)
  PROVE  \E after \in [0..Gas -> Runs] :
           /\ after[0] = Begin(c) /\ after[Gas] = RunOf(c, read)
           /\ \A n \in 1..Gas : after[n] = StepOf(after[n - 1], read)
<1> DEFINE F(h) == [n \in 0..Gas |-> IF n = 0 THEN Begin(c)
                     ELSE CHOOSE r \in {StepOf(x, read) : x \in {h[n - 1]}} : TRUE]
           after == CHOOSE h : h = F(h)
           step == [x \in Runs \X (1..Gas) |-> StepOf(x[1], read)]
<1>1. Gas \in Nat
  BY GasType
<1>2. \A h, n : (CHOOSE r \in {StepOf(x, read) : x \in {h[n - 1]}} : TRUE)
                  = StepOf(h[n - 1], read)
  OBVIOUS
<1>3. \A h : F(h) = [n \in 0..Gas |-> IF n = 0 THEN Begin(c) ELSE StepOf(h[n - 1], read)]
  BY <1>2
<1>4. \E h : h = F(h)
  <2>1. step \in [Runs \X (1..Gas) -> Runs]
    BY StepOfType
  <2> HIDE DEF step
  <2>2. PICK f \in [0..Gas -> Runs] : Iterates(f, Gas, Begin(c), step)
    BY <1>1, <2>1, BeginType, Iteration
  <2>3. f = [n \in 0..Gas |-> IF n = 0 THEN Begin(c) ELSE StepOf(f[n - 1], read)]
    <3>1. ASSUME NEW n \in 1..Gas
          PROVE  f[n] = StepOf(f[n - 1], read)
      <4>1. f[n - 1] \in Runs
        BY <1>1
      <4> QED BY <2>2, <4>1 DEF Iterates, step
    <3>2. f[0] = Begin(c)
      BY <2>2 DEF Iterates
    <3> QED BY <1>1, <3>1, <3>2
  <2>4. f = F(f)
    <3> HIDE DEF F
    <3> QED BY <1>3, <2>3
  <2> HIDE DEF F
  <2> QED BY <2>4
<1>5. after = F(after)
  <2> HIDE DEF F
  <2> QED BY <1>4
<1>6. RunOf(c, read) = after[Gas]
  BY DEF RunOf
<1> HIDE DEF after
<1>7. after = [n \in 0..Gas |-> IF n = 0 THEN Begin(c) ELSE StepOf(after[n - 1], read)]
  BY <1>3, <1>5
<1> HIDE DEF F
<1>8. after[0] = Begin(c) /\ \A n \in 1..Gas : after[n] = StepOf(after[n - 1], read)
  BY <1>1, <1>7
<1> DEFINE N == {n \in 0..Gas : after[n] \in Runs}
<1>9. 0 \in N
  BY <1>1, <1>8, BeginType
<1>10. ASSUME NEW n \in 0..(Gas - 1), n \in N
       PROVE  n + 1 \in N
  <2>1. n + 1 \in 1..Gas /\ (n + 1) - 1 = n /\ n + 1 \in 0..Gas
    BY <1>1
  <2>2. after[n + 1] = StepOf(after[n], read)
    BY <1>8, <2>1
  <2> QED BY <1>10, <2>1, <2>2, StepOfType
<1>11. 0..Gas \subseteq N
  <2> HIDE DEF N
  <2> QED BY <1>1, <1>9, <1>10, SetInduction
<1>12. after \in [0..Gas -> Runs]
  BY <1>7, <1>11
<1> QED BY <1>6, <1>8, <1>12

----------------------------------------------------------------------------
\* The slice.
LEMMA FiniteImage ==
  ASSUME NEW S, IsFiniteSet(S), NEW f
  PROVE  IsFiniteSet({f[x] : x \in S})
<1> DEFINE g == [x \in S |-> f[x]]
<1>1. g \in Surjection(S, {f[x] : x \in S})
  BY DEF Surjection
<1> QED BY <1>1, FS_Surjection

LEMMA SetToSeqType ==
  ASSUME NEW S, IsFiniteSet(S)
  PROVE  SetToSeq(S) \in Seq(S) /\ \A x \in S : \E i \in DOMAIN SetToSeq(S) : SetToSeq(S)[i] = x
<1> DEFINE n == Cardinality(S)
<1>1. n \in Nat /\ ExistsBijection(1..n, S)
  BY FS_CardinalityType
<1>2. \E f \in [1..n -> S] : IsInjective(f)
  BY <1>1 DEF ExistsBijection, Bijection, Injection
<1>3. SetToSeq(S) \in [1..n -> S] /\ IsInjective(SetToSeq(S))
  BY <1>2 DEF SetToSeq
<1>4. SetToSeq(S) \in Injection(1..n, S)
  BY <1>3 DEF Injection
<1>5. IsFiniteSet(1..n) /\ Cardinality(1..n) = n
  BY <1>1, FS_Interval
<1>6. SetToSeq(S) \in Surjection(1..n, S)
  BY <1>4, <1>5, FS_Injection
<1> QED BY <1>1, <1>3, <1>6 DEF Surjection

\* A mapped finite set, as a sequence.
LEMMA MappedSeq ==
  ASSUME NEW S, IsFiniteSet(S), NEW f, NEW E, \A x \in S : f[x] \in E,
         NEW T, \A y : y \in T <=> \E x \in S : y = f[x]
  PROVE  /\ SetToSeq(T) \in Seq(E)
         /\ \A x \in S : \E i \in DOMAIN SetToSeq(T) : SetToSeq(T)[i] = f[x]
<1>1. T = {f[x] : x \in S}
  OBVIOUS
<1>2. IsFiniteSet(T) /\ T \subseteq E /\ \A x \in S : f[x] \in T
  BY <1>1, FiniteImage
<1>3. SetToSeq(T) \in Seq(T) /\ \A x \in T : \E i \in DOMAIN SetToSeq(T) : SetToSeq(T)[i] = x
  BY <1>2, SetToSeqType
<1>4. SetToSeq(T) \in Seq(E)
  BY <1>2, <1>3
<1> QED BY <1>2, <1>3, <1>4

LEMMA RecordedType ==
  ASSUME NEW r \in Runs
  PROVE  Recorded(r) \subseteq Steps /\ IsFiniteSet(Recorded(r))
<1>1. r.log \in Seq(Logged) /\ DOMAIN r.log = 1..Len(r.log) /\ Len(r.log) \in Nat
  BY DEF Runs
<1>2. \A i \in 1..Len(r.log) : r.log[i].step \in Steps
  <2>1. \A e \in Logged : e.step \in Steps
    BY DEF Logged, AccountSteps, RunSteps, OtherSteps
  <2> QED BY <1>1, <2>1
<1>3. IsFiniteSet(1..Len(r.log))
  BY <1>1, FS_Interval
<1> DEFINE f == [i \in 1..Len(r.log) |-> r.log[i].step]
<1>4. IsFiniteSet({f[i] : i \in 1..Len(r.log)})
  BY <1>3, FiniteImage
<1>5. Recorded(r) = {f[i] : i \in 1..Len(r.log)}
  BY <1>1 DEF Recorded
<1> QED BY <1>1, <1>2, <1>4, <1>5 DEF Recorded

LEMMA AccessesType ==
  ASSUME NEW r \in Runs, NEW c \in Calls
  PROVE  Accesses(c, r) \subseteq Addr /\ IsFiniteSet(Accesses(c, r))
<1> DEFINE T == {t \in Recorded(r) : t.op \in {"balance", "sload"}}
           f == [s \in T |-> s.of]
<1>1. c.from \in Addr /\ c.to \in Addr
  BY DEF Calls
<1>2. T \subseteq Steps /\ IsFiniteSet(T)
  BY RecordedType, FS_Subset
<1>3. IsFiniteSet({f[s] : s \in T}) /\ {f[s] : s \in T} = {s.of : s \in T}
  BY <1>2, FiniteImage
<1>4. {s.of : s \in T} \subseteq Addr
  BY <1>2, StepKinds
<1>5. IsFiniteSet({c.from, c.to})
  <2>1. IsFiniteSet({c.from}) /\ {c.from, c.to} = {c.from} \cup {c.to}
    BY FS_Singleton
  <2> QED BY <2>1, FS_AddElement
<1>6. Accesses(c, r) = {c.from, c.to} \cup {s.of : s \in T}
  BY DEF Accesses
<1>7. IsFiniteSet({s.of : s \in T})
  BY <1>3
<1>8. IsFiniteSet({c.from, c.to} \cup {s.of : s \in T})
  BY <1>5, <1>7, FS_Union
<1>9. {c.from, c.to} \cup {s.of : s \in T} \subseteq Addr
  BY <1>1, <1>4
<1> QED BY <1>6, <1>8, <1>9

LEMMA SlotSteps_ ==
  ASSUME NEW s \in Steps, s.op = "sload"
  PROVE  s.of \in Addr /\ s.what \in Slot
BY DEF Steps, AccountOps, BlockOps

LEMMA GetCodeOf ==
  ASSUME NEW rows, NEW a, GetCode(rows, a) # None
  PROVE  HasCode(rows.acct[a]) /\ GetCode(rows, a) = rows.acct[a].code
BY DEF GetCode

\* What one database says.
FromRows(rows) ==
  {Entry(AccountPlace(a), GetAccount(rows, a)) : a \in Addr}
    \cup {Entry(SlotPlace(a, s), ReadSlot(GetStorage(rows, a, s))) : a \in Addr, s \in Slot}
    \cup {Entry(CodePlace(c), c) : c \in rows.code}

LEMMA OneValue ==
  ASSUME NEW rows, NEW e \in FromRows(rows), NEW f \in FromRows(rows), e.at = f.at
  PROVE  e = f
<1>1. CASE \E a \in Addr : e = Entry(AccountPlace(a), GetAccount(rows, a))
  BY <1>1 DEF FromRows, Entry, AccountPlace, SlotPlace, CodePlace
<1>2. CASE \E a \in Addr, s \in Slot : e = Entry(SlotPlace(a, s), ReadSlot(GetStorage(rows, a, s)))
  BY <1>2 DEF FromRows, Entry, AccountPlace, SlotPlace, CodePlace
<1>3. CASE \E c \in rows.code : e = Entry(CodePlace(c), c)
  BY <1>3 DEF FromRows, Entry, AccountPlace, SlotPlace, CodePlace
<1> QED BY <1>1, <1>2, <1>3 DEF FromRows

\* The slice holds what the database says of the accounts and slots of the call, and of
\* the accounts' code.
LEMMA SliceHolds ==
  ASSUME NEW w \in Nat \ {0}, NEW r \in Runs, NEW c \in Calls
  PROVE  LET rows == history[w]
             slice == Slice(rows, c, r)
             Has(p) == \E i \in 1..Len(slice) : slice[i].at = p
         IN  /\ slice \in Seq(Said(w)) /\ slice \in Seq(FromRows(rows))
             /\ \A a \in Addr : Has(AccountPlace(a)) <=>
                                  a \in Accesses(c, r) /\ GetAccount(rows, a) # None
             /\ \A s \in SlotsRead(r) : Has(SlotPlace(s.of, s.what))
             /\ \A a \in Accesses(c, r) : (GetAccount(rows, a) # None /\ GetCode(rows, a) # None) =>
                  Has(CodePlace(GetCode(rows, a)))
<1> DEFINE rows == history[w]
           known == {a \in Accesses(c, r) : GetAccount(rows, a) # None}
           coded == {b \in known : GetCode(rows, b) # None}
           accounts == [a \in known |-> Entry(AccountPlace(a), GetAccount(rows, a))]
           slots == [s \in SlotsRead(r) |->
                       Entry(SlotPlace(s.of, s.what), ReadSlot(GetStorage(rows, s.of, s.what)))]
           codes == [a \in coded |-> Entry(CodePlace(GetCode(rows, a)), GetCode(rows, a))]
           A == SetToSeq({accounts[a] : a \in known})
           S == SetToSeq({slots[s] : s \in SlotsRead(r)})
           C == SetToSeq({codes[a] : a \in coded})
           slice == Slice(rows, c, r)
<1>1. IsFiniteSet(known) /\ IsFiniteSet(coded) /\ known \subseteq Addr
  BY AccessesType, FS_Subset
<1>2. IsFiniteSet(SlotsRead(r))
  BY RecordedType, FS_Subset DEF SlotsRead
<1>3. slice = A \o S \o C
  BY DEF Slice
<1> DEFINE E == {accounts[a] : a \in known} \cup {slots[s] : s \in SlotsRead(r)}
                  \cup {codes[a] : a \in coded}
<1>4. /\ \A a \in known : accounts[a] \in E
      /\ \A s \in SlotsRead(r) : slots[s] \in E
      /\ \A a \in coded : codes[a] \in E
  OBVIOUS
<1>5. \A e \in E : e.at.tier = "account" => \E a \in known : e.at = AccountPlace(a)
  BY DEF Entry, AccountPlace, SlotPlace, CodePlace
<1>6. /\ \A a \in known : accounts[a].at = AccountPlace(a)
      /\ \A s \in SlotsRead(r) : slots[s].at = SlotPlace(s.of, s.what)
      /\ \A a \in coded : codes[a].at = CodePlace(GetCode(rows, a))
  BY DEF Entry
<1>7. w \in 1..w /\ \A a \in coded : a \in Addr
  BY <1>1
<1>8. \A a \in known : accounts[a] \in Said(w)
  BY <1>7, <1>1 DEF Said, AccountEntries
<1>9. \A s \in SlotsRead(r) : slots[s] \in Said(w)
  <2>1. \A s \in SlotsRead(r) : s.of \in Addr /\ s.what \in Slot
    BY RecordedType, SlotSteps_ DEF SlotsRead
  <2> QED BY <1>7, <2>1 DEF Said, SlotEntries
<1>10. \A a \in coded : codes[a] \in Said(w)
  <2> SUFFICES ASSUME NEW a \in coded
               PROVE  codes[a] \in CodeEntries(w)
    BY DEF Said
  <2>1. HasCode(rows.acct[a]) /\ GetCode(rows, a) = rows.acct[a].code /\ GetCode(rows, a) # None
    BY GetCodeOf
  <2>2. <<w, w, a>> \in AskedFor(w)
    BY <1>7, <1>1, <2>1 DEF AskedFor
  <2> QED BY <2>1, <2>2 DEF CodeEntries
<1>11. E \subseteq Said(w)
  BY <1>8, <1>9, <1>10
<1>12. E \subseteq FromRows(rows)
  <2>1. \A s \in SlotsRead(r) : s.of \in Addr /\ s.what \in Slot
    BY RecordedType, SlotSteps_ DEF SlotsRead
  <2>2. \A a \in coded : GetCode(rows, a) \in rows.code
    BY DEF GetCode
  <2> QED BY <1>1, <2>1, <2>2 DEF FromRows
<1> HIDE DEF accounts, slots, codes, slice, E
<1>13. /\ A \in Seq(E) /\ S \in Seq(E) /\ C \in Seq(E)
       /\ \A a \in known : \E i \in DOMAIN A : A[i] = accounts[a]
       /\ \A s \in SlotsRead(r) : \E i \in DOMAIN S : S[i] = slots[s]
       /\ \A a \in coded : \E i \in DOMAIN C : C[i] = codes[a]
  <2> HIDE DEF known, coded, A, S, C
  <2>1. A \in Seq(E) /\ \A a \in known : \E i \in DOMAIN A : A[i] = accounts[a]
    <3> DEFINE T == {accounts[a] : a \in known}
    <3>1. \A y : y \in T <=> \E a \in known : y = accounts[a]
      OBVIOUS
    <3>2. A = SetToSeq(T)
      BY DEF A
    <3> HIDE DEF T
    <3> QED BY <1>1, <1>4, <3>1, <3>2, MappedSeq
  <2>2. S \in Seq(E) /\ \A s \in SlotsRead(r) : \E i \in DOMAIN S : S[i] = slots[s]
    <3> DEFINE T == {slots[s] : s \in SlotsRead(r)}
    <3>1. \A y : y \in T <=> \E s \in SlotsRead(r) : y = slots[s]
      OBVIOUS
    <3>2. S = SetToSeq(T)
      BY DEF S
    <3> HIDE DEF T
    <3> QED BY <1>2, <1>4, <3>1, <3>2, MappedSeq
  <2>3. C \in Seq(E) /\ \A a \in coded : \E i \in DOMAIN C : C[i] = codes[a]
    <3> DEFINE T == {codes[a] : a \in coded}
    <3>1. \A y : y \in T <=> \E a \in coded : y = codes[a]
      OBVIOUS
    <3>2. C = SetToSeq(T)
      BY DEF C
    <3> HIDE DEF T
    <3> QED BY <1>1, <1>4, <3>1, <3>2, MappedSeq
  <2> QED BY <2>1, <2>2, <2>3
<1> HIDE DEF A, S, C
<1>14. /\ DOMAIN A = 1..Len(A) /\ DOMAIN S = 1..Len(S) /\ DOMAIN C = 1..Len(C)
       /\ Len(A) \in Nat /\ Len(S) \in Nat /\ Len(C) \in Nat
  BY <1>13
<1>15. /\ A \o S \in Seq(E) /\ Len(A \o S) = Len(A) + Len(S)
       /\ \A i \in 1..(Len(A) + Len(S)) :
            (A \o S)[i] = IF i <= Len(A) THEN A[i] ELSE S[i - Len(A)]
  BY <1>13, ConcatProperties
<1>16. /\ slice \in Seq(E) /\ Len(slice) = Len(A) + Len(S) + Len(C)
       /\ \A i \in 1..(Len(A) + Len(S) + Len(C)) :
            slice[i] = IF i <= Len(A) + Len(S) THEN (A \o S)[i] ELSE C[i - (Len(A) + Len(S))]
  BY <1>3, <1>13, <1>15, ConcatProperties
<1>17. ASSUME NEW i \in 1..Len(A)
       PROVE  i \in 1..Len(slice) /\ slice[i] = A[i]
  BY <1>14, <1>15, <1>16
<1>18. ASSUME NEW i \in 1..Len(S)
       PROVE  Len(A) + i \in 1..Len(slice) /\ slice[Len(A) + i] = S[i]
  <2>1. /\ Len(A) + i \in 1..(Len(A) + Len(S) + Len(C)) /\ Len(A) + i \in 1..(Len(A) + Len(S))
        /\ Len(A) + i <= Len(A) + Len(S) /\ ~ (Len(A) + i <= Len(A)) /\ (Len(A) + i) - Len(A) = i
    BY <1>14
  <2> QED BY <1>15, <1>16, <2>1
<1>19. ASSUME NEW i \in 1..Len(C)
       PROVE  Len(A) + Len(S) + i \in 1..Len(slice) /\ slice[Len(A) + Len(S) + i] = C[i]
  <2>1. /\ Len(A) + Len(S) + i \in 1..(Len(A) + Len(S) + Len(C))
        /\ ~ (Len(A) + Len(S) + i <= Len(A) + Len(S))
        /\ (Len(A) + Len(S) + i) - (Len(A) + Len(S)) = i
    BY <1>14
  <2> QED BY <1>16, <2>1
<1> DEFINE Has(p) == \E i \in 1..Len(slice) : slice[i].at = p
<1>20. ASSUME NEW a \in known
       PROVE  Has(AccountPlace(a))
  <2>1. PICK i \in 1..Len(A) : A[i] = accounts[a]
    BY <1>13, <1>14
  <2> QED BY <1>6, <1>17, <2>1
<1>21. ASSUME NEW s \in SlotsRead(r)
       PROVE  Has(SlotPlace(s.of, s.what))
  <2>1. PICK i \in 1..Len(S) : S[i] = slots[s]
    BY <1>13, <1>14
  <2>2. Len(A) + i \in 1..Len(slice) /\ slice[Len(A) + i].at = SlotPlace(s.of, s.what)
    BY <1>6, <1>18, <2>1
  <2> QED BY <2>2
<1>22. ASSUME NEW a \in coded
       PROVE  Has(CodePlace(GetCode(rows, a)))
  <2>1. PICK i \in 1..Len(C) : C[i] = codes[a]
    BY <1>13, <1>14
  <2>2. /\ Len(A) + Len(S) + i \in 1..Len(slice)
        /\ slice[Len(A) + Len(S) + i].at = CodePlace(GetCode(rows, a))
    BY <1>6, <1>19, <2>1
  <2> QED BY <2>2
<1>23. ASSUME NEW a \in Addr, Has(AccountPlace(a))
       PROVE  a \in known
  <2>1. PICK i \in 1..Len(slice) : slice[i].at = AccountPlace(a)
    BY <1>23
  <2>2. slice[i] \in E /\ slice[i].at.tier = "account"
    BY <1>16, <2>1 DEF AccountPlace
  <2>3. PICK b \in known : slice[i].at = AccountPlace(b)
    BY <1>5, <2>2
  <2> QED BY <2>1, <2>3 DEF AccountPlace
<1>24. slice \in Seq(Said(w)) /\ slice \in Seq(FromRows(rows))
  BY <1>16, <1>11, <1>12
<1> QED BY <1>20, <1>21, <1>22, <1>23, <1>24 DEF slice

----------------------------------------------------------------------------
\* What is read, from the server or from the caches, is of the step's kind.
LEMMA HistoryType ==
  ASSUME history \in Histories
  PROVE  /\ history \in Seq(Rows) /\ Len(history) \in Nat /\ DOMAIN history = 1..Len(history)
         /\ \A w \in DOMAIN history : history[w] \in Rows
<1>1. history \in Seq(Rows)
  BY HistoriesType
<1> QED BY <1>1

LEMMA RowsRead ==
  ASSUME NEW rows \in Rows
  PROVE  /\ \A a \in Addr : GetAccount(rows, a) \in AccountInfo \cup {None}
         /\ \A a \in Addr, s \in Slot : ReadSlot(GetStorage(rows, a, s)) \in Nat
         /\ \A a \in Addr : GetCode(rows, a) \in Code \cup {None}
         /\ rows.head \in Nat
BY DEF Rows, GetAccount, GetStorage, ReadSlot, GetCode, HasCode, AccountInfo

LEMMA StepCases ==
  ASSUME NEW s \in Steps
  PROVE  \/ s \in AccountSteps \/ s \in RunSteps \/ s \in SlotSteps
         \/ s \in OtherSteps /\ ReadsBlock(s)
BY DEF Steps, AccountSteps, RunSteps, SlotSteps, OtherSteps, ReadsBlock, ReadsAccount

LEMMA ServerReadsType ==
  ASSUME history \in Histories, NEW w \in DOMAIN history, NEW s \in Steps
  PROVE  [step |-> s, value |-> ServerReads(history[w], s)] \in Logged
<1>1. history[w] \in Rows
  BY HistoryType
<1>2. CASE s \in AccountSteps
  <2>1. ServerReads(history[w], s) = GetAccount(history[w], s.of) /\ s.of \in Addr
    BY <1>2, StepKinds DEF ServerReads, ReadsAccount, AccountOps
  <2> QED BY <1>1, <1>2, <2>1, RowsRead, LoggedValues
<1>3. CASE s \in RunSteps
  BY <1>1, <1>3, StepKinds, LoggedValues DEF ServerReads, RunSteps
<1>4. CASE s \in SlotSteps
  <2>1. ~ ReadsAccount(s) /\ s.op = "sload" /\ s \in OtherSteps
    BY <1>4 DEF SlotSteps, OtherSteps, ReadsAccount, AccountOps
  <2>2. ServerReads(history[w], s) = ReadSlot(GetStorage(history[w], s.of, s.what))
    BY <2>1 DEF ServerReads
  <2> QED BY <1>1, <2>1, <2>2, SlotSteps_, RowsRead, LoggedValues DEF Numbers
<1>5. CASE s \in OtherSteps /\ ReadsBlock(s)
  <2>1. ~ ReadsAccount(s) /\ s.op \in {"number", "rules"}
    BY <1>5 DEF OtherSteps, ReadsBlock, BlockOps
  <2>2. ServerReads(history[w], s) \in Numbers
    BY <1>1, <2>1, RowsRead DEF ServerReads, Numbers
  <2> QED BY <1>5, <2>2, LoggedValues
<1> QED BY <1>2, <1>3, <1>4, <1>5, StepCases

LEMMA SaidValues ==
  ASSUME history \in Histories, NEW n \in DOMAIN history, NEW p, NEW v, Entry(p, v) \in Said(n)
  PROVE  /\ p.tier = "account" => \E a \in Addr, w \in 1..n :
              p = AccountPlace(a) /\ v = GetAccount(history[w], a) /\ v \in AccountInfo \cup {None}
         /\ p.tier = "slot" => \E a \in Addr, s \in Slot, w \in 1..n :
              p = SlotPlace(a, s) /\ v = ReadSlot(GetStorage(history[w], a, s)) /\ v \in Nat
         /\ p.tier = "code" => \E a \in Addr, w, u \in 1..n :
              /\ HasCode(history[w].acct[a]) /\ HasCode(history[u].acct[a])
              /\ p = CodePlace(history[w].acct[a].code) /\ v = history[u].acct[a].code
              /\ p.what \in Code /\ v \in Code
<1>1. \A w \in 1..n : history[w] \in Rows
  BY HistoryType
<1>2. CASE Entry(p, v) \in AccountEntries(n)
  <2>1. PICK a \in Addr, w \in 1..n : Entry(p, v) = Entry(AccountPlace(a), GetAccount(history[w], a))
    BY <1>2 DEF AccountEntries
  <2>2. p = AccountPlace(a) /\ v = GetAccount(history[w], a)
    BY <2>1 DEF Entry
  <2>3. v \in AccountInfo \cup {None}
    BY <1>1, <2>2, RowsRead
  <2>4. p.tier = "account"
    BY <2>2 DEF AccountPlace
  <2> QED BY <2>2, <2>3, <2>4
<1>3. CASE Entry(p, v) \in SlotEntries(n)
  <2>1. PICK a \in Addr, s \in Slot, w \in 1..n :
          Entry(p, v) = Entry(SlotPlace(a, s), ReadSlot(GetStorage(history[w], a, s)))
    BY <1>3 DEF SlotEntries
  <2>2. p = SlotPlace(a, s) /\ v = ReadSlot(GetStorage(history[w], a, s))
    BY <2>1 DEF Entry
  <2>3. v \in Nat
    BY <1>1, <2>2, RowsRead
  <2>4. p.tier = "slot"
    BY <2>2 DEF SlotPlace
  <2> QED BY <2>2, <2>3, <2>4
<1>4. CASE Entry(p, v) \in CodeEntries(n)
  <2>1. PICK x \in AskedFor(n) :
          Entry(p, v) = Entry(CodePlace(history[x[1]].acct[x[3]].code), GetCode(history[x[2]], x[3]))
    BY <1>4 DEF CodeEntries
  <2>2. x[1] \in 1..n /\ x[2] \in 1..n /\ x[3] \in Addr /\ HasCode(history[x[1]].acct[x[3]])
        /\ GetCode(history[x[2]], x[3]) # None
    BY DEF AskedFor
  <2>3. HasCode(history[x[2]].acct[x[3]])
        /\ GetCode(history[x[2]], x[3]) = history[x[2]].acct[x[3]].code
    BY <2>2, GetCodeOf
  <2>4. p = CodePlace(history[x[1]].acct[x[3]].code) /\ v = history[x[2]].acct[x[3]].code
    BY <2>1, <2>3 DEF Entry
  <2>5. history[x[1]].acct[x[3]].code \in Code /\ history[x[2]].acct[x[3]].code \in Code
    BY <1>1, <2>2, <2>3 DEF Rows, HasCode, AccountInfo
  <2> QED BY <2>2, <2>3, <2>4, <2>5 DEF CodePlace
<1> QED BY <1>2, <1>3, <1>4 DEF Said

LEMMA PlaceKinds ==
  ASSUME NEW s \in Steps, ~ ReadsBlock(s)
  PROVE  /\ PlaceOf(s).tier \in Tiers
         /\ s \in AccountSteps => PlaceOf(s) = AccountPlace(s.of)
         /\ s \in RunSteps => PlaceOf(s) = CodePlace(s.what)
         /\ s \in SlotSteps => PlaceOf(s) = SlotPlace(s.of, s.what)
<1>1. s \in AccountSteps \/ s \in RunSteps \/ s \in SlotSteps
  BY StepCases
<1>2. s \in AccountSteps => ReadsAccount(s)
  BY DEF AccountSteps
<1>3. s \in RunSteps => ~ ReadsAccount(s) /\ s.op = "run"
  BY StepKinds DEF RunSteps
<1>4. s \in SlotSteps => ~ ReadsAccount(s) /\ s.op = "sload"
  BY DEF SlotSteps, ReadsAccount, AccountOps
<1>5. s \in AccountSteps => PlaceOf(s) = AccountPlace(s.of)
  BY <1>2 DEF PlaceOf, ReadsAccount, AccountOps
<1>6. s \in RunSteps => PlaceOf(s) = CodePlace(s.what)
  BY <1>3 DEF PlaceOf
<1>7. s \in SlotSteps => PlaceOf(s) = SlotPlace(s.of, s.what)
  BY <1>4 DEF PlaceOf
<1>8. PlaceOf(s).tier \in Tiers
  BY <1>1, <1>5, <1>6, <1>7 DEF AccountPlace, CodePlace, SlotPlace, Tiers
<1> QED BY <1>5, <1>6, <1>7, <1>8

\* What a cache has for the place of a step, the step may read.
LEMMA HeldType ==
  ASSUME history \in Histories, NEW n \in DOMAIN history, NEW s \in Steps, ~ ReadsBlock(s),
         NEW v, Entry(PlaceOf(s), v) \in Said(n)
  PROVE  [step |-> s, value |-> v] \in Logged
<1>1. CASE s \in AccountSteps
  <2>1. PlaceOf(s).tier = "account"
    BY <1>1, PlaceKinds DEF AccountPlace
  <2>2. v \in AccountInfo \cup {None}
    BY <2>1, SaidValues
  <2> QED BY <1>1, <2>2, LoggedValues
<1>2. CASE s \in RunSteps
  <2>1. PlaceOf(s).tier = "code"
    BY <1>2, PlaceKinds DEF CodePlace
  <2>2. v \in Code
    BY <2>1, SaidValues
  <2> QED BY <1>2, <2>2, LoggedValues
<1>3. CASE s \in SlotSteps
  <2>1. PlaceOf(s).tier = "slot"
    BY <1>3, PlaceKinds DEF SlotPlace
  <2>2. v \in Nat
    BY <2>1, SaidValues
  <2>3. s \in OtherSteps
    BY <1>3 DEF SlotSteps, OtherSteps, ReadsAccount, AccountOps
  <2> QED BY <2>2, <2>3, LoggedValues DEF Numbers
<1> QED BY <1>1, <1>2, <1>3, StepCases

LEMMA ClientType ==
  ASSUME client \in Clients
  PROVE  client.capacity \in Nat \ {0} /\ client.rules \in Nat /\ client.fetches \in BOOLEAN
BY ClientsType DEF Kinds

LEMMA BlockValueType ==
  ASSUME client \in Clients, NEW s \in Steps, ReadsBlock(s)
  PROVE  [step |-> s, value |-> BlockValue(s)] \in Logged
<1>1. s \in OtherSteps
  BY DEF ReadsBlock, BlockOps, OtherSteps, ReadsAccount, AccountOps
<1>2. BlockValue(s) \in Nat
  BY ClientType DEF BlockValue
<1> QED BY <1>1, <1>2, LoggedValues DEF Numbers

LEMMA MapReadsType ==
  ASSUME client \in Clients, history \in Histories, NEW n \in DOMAIN history,
         NEW caches \in Caches(n), NEW s \in Steps
  PROVE  [step |-> s, value |-> MapReads(caches, s)] \in Logged
<1>1. CASE ReadsBlock(s)
  BY <1>1, BlockValueType DEF MapReads
<1>2. CASE ~ ReadsBlock(s) /\ Held(caches[PlaceOf(s).tier], PlaceOf(s))
  <2>1. Entry(PlaceOf(s), ValueOf(caches[PlaceOf(s).tier], PlaceOf(s))) \in Said(n)
    BY <1>2, HeldSaid, PlaceKinds
  <2> QED BY <1>2, <2>1, HeldType DEF MapReads
<1>3. CASE ~ ReadsBlock(s) /\ ~ Held(caches[PlaceOf(s).tier], PlaceOf(s))
  <2>1. MapReads(caches, s) = Absent(s)
    BY <1>3 DEF MapReads
  <2>2. [step |-> s, value |-> Absent(s)] \in Logged
    BY StepKinds, LoggedValues DEF Absent, RunSteps, Numbers
  <2> QED BY <2>1, <2>2
<1> QED BY <1>1, <1>2, <1>3

----------------------------------------------------------------------------
\* The inductive invariant.
LEMMA NoRunType == NoRun \in Runs
BY DEF NoRun, Runs

LEMMA PrefetchType ==
  ASSUME history \in Histories, NEW w \in DOMAIN history, NEW r \in Calls,
         Prefetch(history[w], r) # None
  PROVE  Prefetch(history[w], r).slice \in Seq(Said(w))
<1> DEFINE read == [step \in Steps |-> ServerReads(history[w], step)]
           local == RunOf(r, read)
<1>1. Answers(read)
  BY ServerReadsType DEF Answers
<1> HIDE DEF read
<1>2. local \in Runs
  <2>1. Gas \in 0..Gas
    BY GasType
  <2> QED BY <1>1, <2>1, RunSequence
<1>3. w \in Nat \ {0}
  BY HistoryType
<1>4. Slice(history[w], r, local) \in Seq(Said(w))
  BY <1>2, <1>3, SliceHolds
<1> QED BY <1>4 DEF Prefetch, read

LEMMA InitInvariant == Init => IInv
<1> SUFFICES ASSUME Init
             PROVE  IInv
  OBVIOUS
<1>1. world \in DOMAIN history
  <2>1. history \in Seq(Rows) /\ history # <<>> /\ world = 1
    BY HistoriesType DEF Init
  <2> QED BY <2>1
<1>2. cache \in Caches(world)
  <2>1. client.capacity \in Nat
    BY ClientType DEF Init
  <2> QED BY <2>1 DEF Init, Caches, Distinct, OfKind
<1>3. CallerTypes
  BY NoRunType DEF Init, CallerTypes, States, Verdicts
<1>4. \A c \in Callers : AnswerInv(c) /\ ReadInv(c) /\ CodeInv(c)
  BY DEF Init, AnswerInv, ReadInv, CodeInv, Fetching
<1> QED BY <1>1, <1>2, <1>3, <1>4, MaxCallsType DEF Init, IInv

----------------------------------------------------------------------------
\* A step of one caller leaves the others and what the server said as they are.
Keeps(c) ==
  /\ UNCHANGED <<client, history, world>>
  /\ \A d \in Callers \ {c} :
       /\ pc'[d] = pc[d] /\ call'[d] = call[d] /\ reply'[d] = reply[d]
       /\ run'[d] = run[d] /\ got'[d] = got[d] /\ code'[d] = code[d]

LEMMA SaidKept ==
  ASSUME UNCHANGED <<client, history>>, NEW n
  PROVE  Caches(n)' = Caches(n) /\ Said(n)' = Said(n) /\ Runs' = Runs
<1>1. Said(n)' = Said(n)
  BY DEF Said, AccountEntries, SlotEntries, CodeEntries, AskedFor
<1>2. Runs' = Runs
  BY DEF Runs, Logged, Numbers
<1> QED BY <1>1, <1>2 DEF Caches

CallerInv(c) == AnswerInv(c) /\ ReadInv(c) /\ CodeInv(c)

LEMMA OthersKept ==
  ASSUME \A d \in Callers : CallerInv(d), NEW c \in Callers, Keeps(c)
  PROVE  \A d \in Callers \ {c} : CallerInv(d)'
<1> SUFFICES ASSUME NEW d \in Callers \ {c}
             PROVE  CallerInv(d)'
  OBVIOUS
<1>1. Said(world)' = Said(world)
  BY DEF Keeps, Said, AccountEntries, SlotEntries, CodeEntries, AskedFor
<1>2. /\ pc'[d] = pc[d] /\ call'[d] = call[d] /\ reply'[d] = reply[d] /\ run'[d] = run[d]
      /\ got'[d] = got[d] /\ code'[d] = code[d] /\ world' = world /\ history' = history
  BY DEF Keeps
<1>3. AnswerInv(d)'
  BY <1>1, <1>2 DEF CallerInv, AnswerInv
<1>4. ReadInv(d)'
  BY <1>2 DEF CallerInv, ReadInv, Fetching, Now
<1>5. CodeInv(d)'
  BY <1>2 DEF CallerInv, CodeInv, Now
<1> QED BY <1>3, <1>4, <1>5 DEF CallerInv

LEMMA KeepsInvariant ==
  ASSUME IInv, NEW c \in Callers, Keeps(c), left' \in 0..MaxCalls, cache' \in Caches(world),
         pc' \in [Callers -> States], verdict' \in [Callers -> Verdicts],
         run' \in [Callers -> Runs], DOMAIN call' = Callers, DOMAIN reply' = Callers,
         DOMAIN got' = Callers, DOMAIN code' = Callers, CallerInv(c)'
  PROVE  IInv'
<1>1. \A d \in Callers : CallerInv(d)'
  BY OthersKept DEF IInv, CallerInv
<1>2. Caches(world)' = Caches(world) /\ Runs' = Runs
  BY SaidKept DEF Keeps, Caches, Said, AccountEntries, SlotEntries, CodeEntries, AskedFor
<1>3. CallerTypes'
  BY <1>2 DEF CallerTypes, States, Verdicts
<1> QED BY <1>1, <1>2, <1>3 DEF IInv, Keeps, CallerInv

----------------------------------------------------------------------------
\* Each action keeps the invariant.
LEMMA MoveInvariant == IInv /\ Move => IInv'
<1> SUFFICES ASSUME IInv, Move
             PROVE  IInv'
  OBVIOUS
<1>1. world \in Nat /\ world' = world + 1 /\ world' \in DOMAIN history /\ world' \in Nat
      /\ 1..world \subseteq 1..world' /\ world <= world'
  BY HistoryType DEF IInv, Move
<1>2. UNCHANGED <<client, history, left, cache, pc, call, reply, run, got, code, verdict>>
  BY DEF Move, caller
<1>3. cache \in Caches(world')
  BY <1>1, CachesGrow DEF IInv
<1>4. cache' \in Caches(world)'
  BY <1>2, <1>3 DEF Caches, Said, AccountEntries, SlotEntries, CodeEntries, AskedFor
<1>5. Said(world) \subseteq Said(world')
  BY <1>1, SaidGrows
<1>6. Said(world)' = Said(world')
  BY <1>2 DEF Said, AccountEntries, SlotEntries, CodeEntries, AskedFor
<1>7. ASSUME NEW c \in Callers
      PROVE  AnswerInv(c)' /\ ReadInv(c)' /\ CodeInv(c)'
  <2>1. AnswerInv(c)'
    BY <1>2, <1>5, <1>6 DEF IInv, AnswerInv
  <2>2. ReadInv(c)'
    BY <1>1, <1>2 DEF IInv, ReadInv, Fetching, Now
  <2>3. CodeInv(c)'
    BY <1>1, <1>2 DEF IInv, CodeInv, Now
  <2> QED BY <2>1, <2>2, <2>3
<1>8. CallerTypes'
  BY <1>2 DEF IInv, CallerTypes, Runs, Logged, Numbers
<1> QED BY <1>1, <1>2, <1>4, <1>7, <1>8 DEF IInv

LEMMA Facts ==
  ASSUME IInv
  PROVE  /\ client \in Clients /\ history \in Histories /\ world \in DOMAIN history
         /\ client.capacity \in Nat \ {0} /\ left \in 0..MaxCalls
         /\ cache \in Caches(world) /\ pc \in [Callers -> States]
         /\ verdict \in [Callers -> Verdicts] /\ run \in [Callers -> Runs]
         /\ DOMAIN call = Callers /\ DOMAIN reply = Callers
         /\ DOMAIN got = Callers /\ DOMAIN code = Callers
         /\ \A c \in Callers : CallerInv(c)
BY ClientType DEF IInv, CallerTypes, CallerInv

LEMMA AskInvariant ==
  ASSUME IInv, NEW c \in Callers, NEW r \in Requests, Ask(c, r)
  PROVE  IInv'
<1> USE Facts
<1>1. Keeps(c) /\ cache' \in Caches(world) /\ left' \in 0..MaxCalls
  BY MaxCallsType DEF Ask, Keeps
<1>2. /\ pc' \in [Callers -> States] /\ verdict' \in [Callers -> Verdicts]
      /\ run' \in [Callers -> Runs] /\ DOMAIN call' = Callers /\ DOMAIN reply' = Callers
      /\ DOMAIN got' = Callers /\ DOMAIN code' = Callers
  BY NoRunType DEF Ask, States, Verdicts
<1>3. AnswerInv(c)'
  <2> SUFFICES ASSUME pc'[c] = "answered"
               PROVE  call'[c] \in Calls /\ reply'[c].slice \in Seq(Said(world)')
    BY DEF AnswerInv
  <2>1. Prefetch(db, r) # None /\ reply'[c] = Prefetch(db, r) /\ call'[c] = r
    BY DEF Ask
  <2>2. reply'[c].slice \in Seq(Said(world))
    BY <2>1, PrefetchType, RequestsType DEF db
  <2>3. Said(world)' = Said(world)
    BY <1>1 DEF Keeps, Said, AccountEntries, SlotEntries, CodeEntries, AskedFor
  <2> QED BY <2>1, <2>2, <2>3, RequestsType
<1>4. pc'[c] \in {"idle", "answered"}
  BY DEF Ask
<1>5. ReadInv(c)' /\ CodeInv(c)'
  BY <1>4 DEF ReadInv, CodeInv, Fetching
<1> QED BY <1>1, <1>2, <1>3, <1>5, KeepsInvariant DEF CallerInv

\* A caller that is neither answered nor fetching has nothing to know.
LEMMA NothingToKnow ==
  ASSUME NEW c, pc'[c] \in {"idle", "run"}
  PROVE  CallerInv(c)'
BY DEF CallerInv, AnswerInv, ReadInv, CodeInv, Fetching

LEMMA FailInvariant ==
  ASSUME IInv, NEW c \in Callers, Fail(c)
  PROVE  IInv'
<1> USE Facts
<1>1. Keeps(c) /\ pc'[c] = "idle" /\ UNCHANGED <<left, cache, call, reply, run, got, code>>
  BY DEF Fail, Keeps
<1>2. pc' \in [Callers -> States] /\ verdict' \in [Callers -> Verdicts]
  BY DEF Fail, States, Verdicts
<1> QED BY <1>1, <1>2, NothingToKnow, KeepsInvariant

LEMMA StoreSliceSaid ==
  ASSUME IInv, NEW c \in Callers, pc[c] = "answered"
  PROVE  StoreSlice(cache, c) \in Caches(world) /\ call[c] \in Calls
BY Facts, StoredSaid DEF CallerInv, AnswerInv, StoreSlice

LEMMA PreloadInvariant ==
  ASSUME IInv, NEW c \in Callers, Preload(c)
  PROVE  IInv'
<1> USE Facts
<1>1. Keeps(c) /\ pc'[c] = "idle" /\ UNCHANGED <<left, call, reply, run, got, code>>
  BY DEF Preload, Keeps
<1>2. pc' \in [Callers -> States] /\ verdict' \in [Callers -> Verdicts]
  BY DEF Preload, States, Verdicts
<1>3. cache' \in Caches(world)
  BY StoreSliceSaid DEF Preload
<1> QED BY <1>1, <1>2, <1>3, NothingToKnow, KeepsInvariant

LEMMA VerdictType ==
  ASSUME NEW c, NEW r
  PROVE  Verdict(c, r) \in Verdicts
BY DEF Verdict, Verdicts

LEMMA VerifyAtOnceInvariant ==
  ASSUME IInv, NEW c \in Callers, VerifyAtOnce(c)
  PROVE  IInv'
<1> USE Facts
<1> DEFINE stored == StoreSlice(cache, c)
           read == [step \in Steps |-> MapReads(stored, step)]
           r == RunOf(call[c], read)
<1>1. Keeps(c) /\ pc'[c] = "idle" /\ UNCHANGED <<left, call, reply, got, code>>
  BY DEF VerifyAtOnce, Keeps
<1>2. stored \in Caches(world) /\ call[c] \in Calls /\ cache' = stored
  BY StoreSliceSaid DEF VerifyAtOnce
<1> HIDE DEF stored
<1>3. r \in Runs
  <2>1. Answers(read)
    BY <1>2, MapReadsType DEF Answers
  <2>2. Gas \in 0..Gas
    BY GasType
  <2> HIDE DEF read
  <2> QED BY <1>2, <2>1, <2>2, RunSequence
<1> HIDE DEF read
<1>4. run' = [run EXCEPT ![c] = r] /\ verdict' = [verdict EXCEPT ![c] = Verdict(c, r)]
  BY DEF VerifyAtOnce, stored, read
<1> HIDE DEF r
<1>5. /\ pc' \in [Callers -> States] /\ verdict' \in [Callers -> Verdicts]
      /\ run' \in [Callers -> Runs]
  BY <1>3, <1>4, VerdictType DEF VerifyAtOnce, States
<1> QED BY <1>1, <1>2, <1>5, NothingToKnow, KeepsInvariant

LEMMA StartRunInvariant ==
  ASSUME IInv, NEW c \in Callers, StartRun(c)
  PROVE  IInv'
<1> USE Facts
<1>1. Keeps(c) /\ pc'[c] = "run" /\ UNCHANGED <<left, call, reply, got, code, verdict>>
  BY DEF StartRun, Keeps
<1>2. StoreSlice(cache, c) \in Caches(world) /\ call[c] \in Calls
  BY StoreSliceSaid DEF StartRun
<1>3. pc' \in [Callers -> States] /\ run' \in [Callers -> Runs] /\ cache' \in Caches(world)
  BY <1>2, BeginType DEF StartRun, States
<1> QED BY <1>1, <1>3, NothingToKnow, KeepsInvariant

\* A caller that runs has a step in hand.
LEMMA InHand ==
  ASSUME IInv, NEW c \in Callers, Running(c)
  PROVE  run[c] \in Runs /\ run[c].todo # <<>> /\ Now(c) \in Steps
<1>1. run[c] \in Runs /\ run[c].todo # <<>>
  BY Facts DEF Running, Over
<1> QED BY <1>1, HeadTailProperties DEF Now, Runs

\* A read that ends with its value in the log.
LEMMA GoInvariant ==
  ASSUME IInv, NEW c \in Callers, Keeps(c), NEW value, Go(c, value),
         run[c].todo # <<>>, [step |-> Now(c), value |-> value] \in Logged,
         UNCHANGED <<left, call, reply, verdict>>, DOMAIN got' = Callers, DOMAIN code' = Callers,
         cache' \in Caches(world), pc' \in [Callers -> States], pc'[c] = "run"
  PROVE  IInv'
<1>1. Advance(run[c], value) \in Runs
  BY Facts, AdvanceType DEF Now
<1>2. run' \in [Callers -> Runs]
  BY <1>1, Facts DEF Go
<1> QED BY <1>2, Facts, NothingToKnow, KeepsInvariant

LEMMA KnownInvariant ==
  ASSUME IInv, NEW c \in Callers, Known(c)
  PROVE  IInv'
<1> DEFINE value == IF Journaled(run[c]) THEN FromJournal(run[c]) ELSE BlockValue(Now(c))
<1>1. run[c] \in Runs /\ run[c].todo # <<>> /\ Now(c) \in Steps
  BY InHand DEF Known
<1>2. [step |-> Now(c), value |-> value] \in Logged
  <2>1. CASE Journaled(run[c])
    BY <1>1, <2>1, JournalType DEF Now
  <2>2. CASE ~ Journaled(run[c])
    BY <1>1, <2>2, BlockValueType, Facts DEF Known
  <2> QED BY <2>1, <2>2
<1>3. Keeps(c) /\ Go(c, value)
  BY DEF Known, Keeps, Go
<1>4. /\ UNCHANGED <<left, call, reply, verdict, got, code, cache, pc>> /\ pc[c] = "run"
  BY DEF Known, Running
<1> HIDE DEF value
<1> QED BY <1>1, <1>2, <1>3, <1>4, Facts, GoInvariant

LEMMA HitInvariant ==
  ASSUME IInv, NEW c \in Callers, Hit(c)
  PROVE  IInv'
<1> DEFINE p == PlaceOf(Now(c))
<1>1. run[c] \in Runs /\ run[c].todo # <<>> /\ Now(c) \in Steps /\ ~ ReadsBlock(Now(c))
  BY InHand DEF Hit, Looks
<1>2. Entry(p, CachedValue(p)) \in Said(world)
  BY <1>1, Facts, HeldSaid, PlaceKinds DEF Hit, Cached, CachedValue
<1>3. [step |-> Now(c), value |-> CachedValue(p)] \in Logged
  BY <1>1, <1>2, Facts, HeldType
<1>4. cache' \in Caches(world)
  BY <1>2, Facts, PutSaid DEF Hit, Use
<1>5. Keeps(c) /\ Go(c, CachedValue(p))
  BY DEF Hit, Keeps, Go
<1>6. UNCHANGED <<left, call, reply, verdict, got, code, pc>> /\ pc[c] = "run"
  BY DEF Hit, Looks, Running
<1> HIDE DEF p
<1> QED BY <1>1, <1>3, <1>4, <1>5, <1>6, Facts, GoInvariant

LEMMA NoSuchCodeInvariant ==
  ASSUME IInv, NEW c \in Callers, NoSuchCode(c)
  PROVE  IInv'
<1>1. run[c] \in Runs /\ run[c].todo # <<>> /\ Now(c) \in Steps /\ Now(c).op = "run"
  BY InHand DEF NoSuchCode, Misses, Looks
<1>2. [step |-> Now(c), value |-> NoCode] \in Logged
  BY <1>1, LoggedValues DEF RunSteps
<1>3. Keeps(c) /\ Go(c, NoCode)
  BY DEF NoSuchCode, Keeps, Go
<1>4. UNCHANGED <<left, call, reply, verdict, got, code, cache, pc>> /\ pc[c] = "run"
  BY DEF NoSuchCode, Misses, Looks, Running
<1> QED BY <1>1, <1>2, <1>3, <1>4, Facts, GoInvariant

LEMMA GetInvariant ==
  ASSUME IInv, NEW c \in Callers, Get(c)
  PROVE  IInv'
<1> USE Facts
<1>1. /\ run[c] \in Runs /\ run[c].todo # <<>> /\ Now(c) \in Steps
      /\ ~ ReadsBlock(Now(c)) /\ Now(c).op # "run"
  BY InHand DEF Get, Misses, Looks
<1>2. Now(c) \in AccountSteps \cup SlotSteps
  BY <1>1, StepCases DEF RunSteps
<1>3. Keeps(c) /\ pc'[c] = "got" /\ UNCHANGED <<left, cache, call, reply, run, code, verdict>>
  BY DEF Get, Keeps
<1>4. pc' \in [Callers -> States] /\ DOMAIN got' = Callers
  BY DEF Get, States
<1>5. got'[c] = ServerReads(history[world], Now(c)) /\ run' = run
  BY DEF Get, db
<1>6. world \in 1..world /\ world' = world /\ history' = history
  BY <1>3, HistoryType DEF Keeps
<1>7. ReadInv(c)'
  BY <1>1, <1>2, <1>5, <1>6 DEF ReadInv, Now
<1>8. AnswerInv(c)' /\ CodeInv(c)'
  BY <1>3 DEF AnswerInv, CodeInv
<1> QED BY <1>3, <1>4, <1>7, <1>8, KeepsInvariant DEF CallerInv

LEMMA GetItsCodeInvariant ==
  ASSUME IInv, NEW c \in Callers, GetItsCode(c)
  PROVE  IInv'
<1> USE Facts
<1>1. Keeps(c) /\ pc'[c] = "coded" /\ UNCHANGED <<left, cache, call, reply, run, got, verdict>>
  BY DEF GetItsCode, Keeps
<1>2. pc' \in [Callers -> States] /\ DOMAIN code' = Callers
  BY DEF GetItsCode, States
<1>3. ReadsAccount(Now(c)) /\ HasCode(got[c]) /\ code'[c] = GetCode(history[world], Now(c).of)
  BY DEF GetItsCode, NeedsCode, db
<1>4. world \in 1..world /\ world' = world /\ history' = history /\ run' = run /\ got' = got
  BY <1>1, HistoryType DEF Keeps
<1>5. ReadInv(c)'
  BY <1>1, <1>4 DEF CallerInv, ReadInv, Fetching, Now, GetItsCode
<1>6. CodeInv(c)'
  BY <1>3, <1>4 DEF CodeInv, Now
<1>7. AnswerInv(c)'
  BY <1>1 DEF AnswerInv
<1> QED BY <1>1, <1>2, <1>5, <1>6, <1>7, KeepsInvariant DEF CallerInv

\* The code that was asked for, and the hash it is stored under.
LEMMA CodeSaid ==
  ASSUME IInv, NEW c \in Callers, pc[c] = "coded", code[c] # None
  PROVE  /\ Entry(CodePlace(got[c].code), code[c]) \in Said(world)
         /\ ReadsAccount(Now(c)) /\ HasCode(got[c])
<1> USE Facts
<1>1. ReadInv(c) /\ CodeInv(c)
  BY DEF CallerInv
<1>2. PICK w \in 1..world : got[c] = ServerReads(history[w], Now(c))
  BY <1>1 DEF ReadInv, Fetching
<1>3. PICK v \in 1..world : code[c] = GetCode(history[v], Now(c).of)
  BY <1>1 DEF CodeInv
<1>4. ReadsAccount(Now(c)) /\ HasCode(got[c]) /\ Now(c) \in Steps
  BY <1>1, StepKinds DEF CodeInv, ReadInv, Fetching, AccountSteps, SlotSteps
<1>5. got[c] = history[w].acct[Now(c).of] /\ Now(c).of \in Addr
  BY <1>2, <1>4, StepKinds DEF ServerReads, GetAccount, ReadsAccount, AccountOps
<1>6. <<w, v, Now(c).of>> \in AskedFor(world)
  BY <1>3, <1>4, <1>5 DEF AskedFor
<1> QED BY <1>3, <1>4, <1>5, <1>6 DEF Said, CodeEntries

LEMMA StoreCodeInvariant ==
  ASSUME IInv, NEW c \in Callers, StoreCode(c)
  PROVE  IInv'
<1> USE Facts
<1>1. Keeps(c) /\ pc'[c] = "store" /\ UNCHANGED <<left, call, reply, run, got, code, verdict>>
  BY DEF StoreCode, Keeps
<1>2. pc' \in [Callers -> States]
  BY DEF StoreCode, States
<1>3. ReadInv(c) /\ pc[c] = "coded"
  BY DEF CallerInv, StoreCode
<1>4. cache' \in Caches(world)
  BY <1>3, CodeSaid, PutSaid DEF StoreCode
<1>5. ReadInv(c)'
  BY <1>1, <1>3 DEF ReadInv, Fetching, Now, Keeps
<1>6. AnswerInv(c)' /\ CodeInv(c)'
  BY <1>1 DEF AnswerInv, CodeInv
<1> QED BY <1>1, <1>2, <1>4, <1>5, <1>6, KeepsInvariant DEF CallerInv

\* The answer to a read goes into the cache and into the log.
LEMMA AnswerSaid ==
  ASSUME IInv, NEW c \in Callers, Fetching(c)
  PROVE  /\ run[c].todo # <<>> /\ Entry(PlaceOf(Now(c)), got[c]) \in Said(world)
         /\ [step |-> Now(c), value |-> got[c]] \in Logged
<1> USE Facts
<1>1. run[c].todo # <<>> /\ Now(c) \in AccountSteps \cup SlotSteps
  BY DEF CallerInv, ReadInv
<1>2. PICK w \in 1..world : got[c] = ServerReads(history[w], Now(c))
  BY DEF CallerInv, ReadInv
<1>3. w \in DOMAIN history /\ Now(c) \in Steps
  BY <1>1, HistoryType DEF AccountSteps, SlotSteps
<1>4. [step |-> Now(c), value |-> got[c]] \in Logged
  BY <1>2, <1>3, ServerReadsType
<1>5. CASE Now(c) \in AccountSteps
  <2>1. /\ PlaceOf(Now(c)) = AccountPlace(Now(c).of) /\ Now(c).of \in Addr
        /\ got[c] = GetAccount(history[w], Now(c).of)
    BY <1>2, <1>5, StepKinds
       DEF PlaceOf, ServerReads, ReadsAccount, AccountOps, AccountSteps
  <2> QED BY <1>1, <1>4, <2>1 DEF Said, AccountEntries
<1>6. CASE Now(c) \in SlotSteps
  <2>1. Now(c).op = "sload" /\ ~ ReadsAccount(Now(c)) /\ Now(c).of \in Addr /\ Now(c).what \in Slot
    BY <1>3, <1>6, SlotSteps_ DEF SlotSteps, ReadsAccount, AccountOps
  <2>2. /\ PlaceOf(Now(c)) = SlotPlace(Now(c).of, Now(c).what)
        /\ got[c] = ReadSlot(GetStorage(history[w], Now(c).of, Now(c).what))
    BY <1>2, <2>1 DEF PlaceOf, ServerReads
  <2> QED BY <1>1, <1>4, <2>1, <2>2 DEF Said, SlotEntries
<1> QED BY <1>1, <1>5, <1>6

LEMMA StoreInvariant ==
  ASSUME IInv, NEW c \in Callers, Store(c)
  PROVE  IInv'
<1> USE Facts
<1>1. Fetching(c)
  BY DEF Store, Fetching
<1>2. /\ run[c].todo # <<>> /\ Entry(PlaceOf(Now(c)), got[c]) \in Said(world)
      /\ [step |-> Now(c), value |-> got[c]] \in Logged
  BY <1>1, AnswerSaid
<1>3. cache' \in Caches(world)
  BY <1>2, PutSaid DEF Store
<1>4. Keeps(c) /\ Go(c, got[c])
  BY DEF Store, Keeps, Go
<1>5. UNCHANGED <<left, call, reply, verdict>> /\ DOMAIN got' = Callers /\ DOMAIN code' = Callers
  BY DEF Store
<1>6. pc' \in [Callers -> States] /\ pc'[c] = "run"
  BY DEF Store, States
<1> QED BY <1>2, <1>3, <1>4, <1>5, <1>6, GoInvariant

LEMMA FinishInvariant ==
  ASSUME IInv, NEW c \in Callers, Finish(c)
  PROVE  IInv'
<1> USE Facts
<1>1. Keeps(c) /\ pc'[c] = "idle" /\ UNCHANGED <<left, cache, call, reply, run, got, code>>
  BY DEF Finish, Keeps
<1>2. pc' \in [Callers -> States] /\ verdict' \in [Callers -> Verdicts]
  BY VerdictType DEF Finish, States
<1> QED BY <1>1, <1>2, NothingToKnow, KeepsInvariant

LEMMA StutterInvariant == IInv /\ UNCHANGED vars => IInv'
<1> SUFFICES ASSUME IInv, UNCHANGED vars
             PROVE  IInv'
  OBVIOUS
<1>1. UNCHANGED <<client, history, world, left, cache, pc, call, reply, run, got, code, verdict>>
  BY DEF vars, caller
<1>2. Said(world)' = Said(world)
  BY <1>1 DEF Said, AccountEntries, SlotEntries, CodeEntries, AskedFor
<1>3. cache' \in Caches(world)'
  BY <1>1, <1>2 DEF IInv, Caches
<1>4. CallerTypes'
  <2>1. Runs' = Runs
    BY <1>1 DEF Runs, Logged, Numbers
  <2> QED BY <1>1, <2>1 DEF IInv, CallerTypes, States, Verdicts
<1>5. ASSUME NEW c \in Callers
      PROVE  AnswerInv(c)' /\ ReadInv(c)' /\ CodeInv(c)'
  BY <1>1, <1>2 DEF IInv, AnswerInv, ReadInv, CodeInv, Fetching, Now
<1> QED BY <1>1, <1>3, <1>4, <1>5 DEF IInv

LEMMA StepInvariant == IInv /\ [Next]_vars => IInv'
<1> SUFFICES ASSUME IInv, [Next]_vars
             PROVE  IInv'
  OBVIOUS
<1>1. CASE Move
  BY <1>1, MoveInvariant
<1>2. ASSUME NEW c \in Callers, Step(c)
      PROVE  IInv'
  BY <1>2, PreloadInvariant, VerifyAtOnceInvariant, StartRunInvariant, KnownInvariant,
     HitInvariant, NoSuchCodeInvariant, GetInvariant, GetItsCodeInvariant, StoreCodeInvariant,
     StoreInvariant, FinishInvariant DEF Step
<1>3. ASSUME NEW c \in Callers, Fail(c)
      PROVE  IInv'
  BY <1>3, FailInvariant
<1>4. ASSUME NEW c \in Callers, NEW r \in Requests, Ask(c, r)
      PROVE  IInv'
  BY <1>4, AskInvariant
<1>5. CASE UNCHANGED vars
  BY <1>5, StutterInvariant
<1> QED BY <1>1, <1>2, <1>3, <1>4, <1>5 DEF Next

\* The invariant holds of every client, server history and number of callers.
THEOREM Invariance == Spec => []IInv
BY InitInvariant, StepInvariant, PTL DEF Spec

\* A cache holds one entry for a place: as many places as entries.
LEMMA OnePlaceEach ==
  ASSUME NEW E, NEW tier \in Seq(E), Distinct(tier)
  PROVE  Cardinality(PlacesIn(tier)) = Len(tier)
<1> DEFINE f == [i \in 1..Len(tier) |-> tier[i].at]
<1>1. Len(tier) \in Nat /\ DOMAIN tier = 1..Len(tier)
  OBVIOUS
<1>2. PlacesIn(tier) = {f[i] : i \in 1..Len(tier)}
  BY <1>1 DEF PlacesIn
<1>3. f \in Bijection(1..Len(tier), PlacesIn(tier))
  <2>1. f \in [1..Len(tier) -> PlacesIn(tier)]
    BY <1>2
  <2>2. \A i, j \in 1..Len(tier) : f[i] = f[j] => i = j
    BY <1>1 DEF Distinct
  <2>3. \A place \in PlacesIn(tier) : \E i \in 1..Len(tier) : f[i] = place
    BY <1>2
  <2> HIDE DEF f
  <2>4. f \in Injection(1..Len(tier), PlacesIn(tier))
    BY <2>1, <2>2 DEF Injection, IsInjective
  <2>5. f \in Surjection(1..Len(tier), PlacesIn(tier))
    BY <2>1, <2>3 DEF Surjection
  <2> QED BY <2>4, <2>5 DEF Bijection
<1>4. IsFiniteSet(1..Len(tier)) /\ Cardinality(1..Len(tier)) = Len(tier)
  BY <1>1, FS_Interval
<1> QED BY <1>3, <1>4, FS_Bijection DEF ExistsBijection

LEMMA SaidPlaces ==
  ASSUME history \in Histories, NEW n \in DOMAIN history, NEW e \in Said(n)
  PROVE  e.at \in TierOf(Places, e.at.tier)
<1>1. e = Entry(e.at, e.value) /\ e.at.tier \in Tiers
  BY SaidAt
<1>2. CASE e.at.tier = "account"
  BY <1>1, <1>2, SaidValues DEF TierOf, Places
<1>3. CASE e.at.tier = "slot"
  BY <1>1, <1>3, SaidValues DEF TierOf, Places
<1>4. CASE e.at.tier = "code"
  BY <1>1, <1>4, SaidValues DEF TierOf, Places, CodePlace
<1> QED BY <1>1, <1>2, <1>3, <1>4 DEF Tiers

\* Every variable has its type, and a cache stays a map within its capacity.
THEOREM TypeCorrect == Spec => []TypeOK
<1>1. ASSUME IInv
      PROVE  TypeOK
  <2>1. /\ client \in Clients /\ history \in Histories /\ world \in DOMAIN history
        /\ left \in 0..MaxCalls
        /\ \A c \in Callers : pc[c] \in States /\ verdict[c] \in Verdicts
    BY <1>1, Facts
  <2>2. ASSUME NEW t \in Tiers
        PROVE  /\ Len(cache[t]) <= client.capacity
               /\ Cardinality(PlacesIn(cache[t])) = Len(cache[t])
               /\ PlacesIn(cache[t]) \subseteq TierOf(Places, t)
    <3>1. /\ cache[t] \in Seq(Said(world)) /\ Len(cache[t]) <= client.capacity
          /\ Distinct(cache[t]) /\ OfKind(cache[t], t)
      BY <1>1, Facts DEF Caches
    <3>2. \A i \in DOMAIN cache[t] : cache[t][i] \in Said(world) /\ cache[t][i].at.tier = t
      BY <3>1 DEF OfKind
    <3> QED BY <2>1, <3>1, <3>2, OnePlaceEach, SaidPlaces DEF PlacesIn
  <2> QED BY <2>1, <2>2 DEF TypeOK
<1> QED BY <1>1, Invariance, PTL

LEMMA CachedEntry ==
  ASSUME IInv, NEW t \in Tiers, NEW i \in DOMAIN cache[t]
  PROVE  /\ cache[t][i].at.tier = t
         /\ Entry(cache[t][i].at, cache[t][i].value) \in Said(world)
<1>1. cache[t] \in Seq(Said(world)) /\ OfKind(cache[t], t)
  BY Facts DEF Caches
<1>2. cache[t][i] \in Said(world)
  BY <1>1
<1> QED BY <1>1, <1>2, SaidAt DEF OfKind

\* A cached account or slot is one that the server had at that place, whatever the clients
\* evict, fetch and overwrite while its database moves on.
THEOREM CachesGenuine == Spec => []CacheIsGenuine
<1>1. ASSUME IInv
      PROVE  CacheIsGenuine
  <2>1. history \in Histories /\ world \in DOMAIN history
    BY <1>1, Facts
  <2>2. ASSUME NEW i \in DOMAIN cache["account"]
        PROVE  \E w \in 1..world :
                 cache["account"][i].value = GetAccount(history[w], cache["account"][i].at.of)
    <3>1. PICK a \in Addr, w \in 1..world :
            /\ cache["account"][i].at = AccountPlace(a)
            /\ cache["account"][i].value = GetAccount(history[w], a)
      BY <1>1, <2>1, CachedEntry, SaidValues DEF Tiers
    <3> QED BY <3>1 DEF AccountPlace
  <2>3. ASSUME NEW i \in DOMAIN cache["slot"]
        PROVE  \E w \in 1..world : cache["slot"][i].value =
                 ReadSlot(GetStorage(history[w], cache["slot"][i].at.of, cache["slot"][i].at.what))
    <3>1. PICK a \in Addr, s \in Slot, w \in 1..world :
            /\ cache["slot"][i].at = SlotPlace(a, s)
            /\ cache["slot"][i].value = ReadSlot(GetStorage(history[w], a, s))
      BY <1>1, <2>1, CachedEntry, SaidValues DEF Tiers
    <3> QED BY <3>1 DEF SlotPlace
  <2> QED BY <2>2, <2>3 DEF CacheIsGenuine
<1> QED BY <1>1, Invariance, PTL

\* A code stands under its own hash, if no account of the history changes its code.
THEOREM CodesUnderTheirHashes == Spec => []CodeUnderItsHash
<1>1. ASSUME IInv
      PROVE  CodeUnderItsHash
  <2> SUFFICES ASSUME CodeStays, NEW i \in DOMAIN cache["code"]
               PROVE  cache["code"][i].value = cache["code"][i].at.what
    BY DEF CodeUnderItsHash
  <2>1. history \in Histories /\ world \in DOMAIN history
    BY <1>1, Facts
  <2>2. PICK a \in Addr, v, w \in 1..world :
          /\ HasCode(history[v].acct[a]) /\ HasCode(history[w].acct[a])
          /\ cache["code"][i].at = CodePlace(history[v].acct[a].code)
          /\ cache["code"][i].value = history[w].acct[a].code
    BY <1>1, <2>1, CachedEntry, SaidValues DEF Tiers
  <2>3. v \in DOMAIN history /\ w \in DOMAIN history
    BY <2>1, HistoryType
  <2> QED BY <2>2, <2>3 DEF CodeStays, CodePlace
<1> QED BY <1>1, Invariance, PTL

----------------------------------------------------------------------------
\* Room: nothing is lost.
LEMMA TierRoom ==
  ASSUME HasRoom, history \in Histories, client.capacity \in Nat, NEW n \in DOMAIN history,
         NEW t \in Tiers, NEW tier \in Seq(Said(n)), Distinct(tier), OfKind(tier, t)
  PROVE  Len(tier) <= client.capacity
<1>1. PlacesIn(tier) \subseteq TierOf(Places, t)
  <2>1. \A i \in DOMAIN tier : tier[i] \in Said(n) /\ tier[i].at.tier = t
    BY DEF OfKind
  <2> QED BY <2>1, SaidPlaces DEF PlacesIn
<1>2. IsFiniteSet(TierOf(Places, t))
  BY PlacesAreFinite, FS_Subset DEF TierOf
<1>3. Cardinality(PlacesIn(tier)) <= Cardinality(TierOf(Places, t))
  BY <1>1, <1>2, FS_Subset
<1>4. Cardinality(TierOf(Places, t)) <= client.capacity /\ Cardinality(TierOf(Places, t)) \in Nat
  BY <1>2, FS_CardinalityType DEF HasRoom
<1>5. Cardinality(PlacesIn(tier)) = Len(tier) /\ Len(tier) \in Nat
  BY OnePlaceEach
<1> QED BY <1>3, <1>4, <1>5

LEMMA PutHolds ==
  ASSUME client.capacity \in Nat \ {0}, NEW n, NEW caches \in Caches(n), NEW e \in Said(n)
  PROVE  /\ Held(Put(caches, e)[e.at.tier], e.at)
         /\ \A p : (p.tier \in Tiers /\ Held(Put(caches, e)[p.tier], p)) =>
              p = e.at \/ Held(caches[p.tier], p)
<1> DEFINE t == e.at.tier
           new == Trim(Append(Without(caches[t], e.at), e))
<1>1. t \in Tiers
  BY SaidAt
<1>2. /\ caches \in [Tiers -> Seq(Said(n))]
      /\ Len(caches[t]) <= client.capacity /\ Distinct(caches[t])
  BY <1>1 DEF Caches
<1>3. Put(caches, e) = [caches EXCEPT ![t] = new]
  BY DEF Put
<1>4. new \in Seq(Said(n)) /\ Takes(new, caches[t], e)
  BY <1>1, <1>2, PutTier
<1> HIDE DEF new
<1>5. DOMAIN new = 1..Len(new) /\ Len(new) \in Nat /\ DOMAIN caches[t] = 1..Len(caches[t])
  BY <1>1, <1>2, <1>4
<1>6. Put(caches, e)[t] = new /\ \A u \in Tiers : u # t => Put(caches, e)[u] = caches[u]
  BY <1>1, <1>2, <1>3
<1>7. Held(new, e.at)
  BY <1>4, <1>5 DEF Held, Takes
<1>8. ASSUME NEW p, p.tier = t, Held(new, p)
      PROVE  p = e.at \/ Held(caches[t], p)
  BY <1>4, <1>5, <1>8 DEF Held, Takes
<1> QED BY <1>6, <1>7, <1>8

LEMMA PutKeeps ==
  ASSUME HasRoom, history \in Histories, client.capacity \in Nat \ {0},
         NEW n \in DOMAIN history, NEW caches \in Caches(n), NEW e \in Said(n),
         NEW p, p.tier \in Tiers, Held(caches[p.tier], p)
  PROVE  Held(Put(caches, e)[p.tier], p)
<1> DEFINE t == e.at.tier
           rest == Without(caches[t], e.at)
           long == Append(rest, e)
<1>1. t \in Tiers
  BY SaidAt
<1>2. /\ caches \in [Tiers -> Seq(Said(n))]
      /\ caches[t] \in Seq(Said(n)) /\ Distinct(caches[t]) /\ OfKind(caches[t], t)
      /\ Len(caches[t]) <= client.capacity
  BY <1>1 DEF Caches
<1>3. Put(caches, e) = [caches EXCEPT ![t] = Trim(long)]
  BY DEF Put
<1>4. rest \in Seq(Said(n)) /\ Remains(rest, caches[t], e.at)
  BY <1>2, WithoutTier
<1> HIDE DEF rest
<1>5. /\ long \in Seq(Said(n)) /\ Len(long) = Len(rest) + 1
      /\ \A i \in 1..Len(rest) : long[i] = rest[i]
      /\ long[Len(rest) + 1] = e
  BY <1>4, AppendProperties
<1> HIDE DEF long
<1>6. /\ Len(rest) \in Nat /\ DOMAIN rest = 1..Len(rest) /\ DOMAIN long = 1..Len(long)
      /\ DOMAIN caches[t] = 1..Len(caches[t])
      /\ \A i \in 1..Len(long) : i \in 1..Len(rest) \/ i = Len(rest) + 1
  BY <1>2, <1>4, <1>5
<1>7. Distinct(rest) /\ OfKind(rest, t)
  <2>1. \A i \in 1..Len(rest) : \E j \in 1..Len(caches[t]) : rest[i] = caches[t][j]
    BY <1>4 DEF Remains
  <2>2. \A j \in 1..Len(caches[t]) : caches[t][j].at.tier = t
    BY <1>2, <1>6 DEF OfKind
  <2>3. Distinct(rest)
    BY <1>4 DEF Remains
  <2> QED BY <1>6, <2>1, <2>2, <2>3 DEF OfKind
<1>8. Len(long) <= client.capacity
  <2>1. OfKind(long, t)
    BY <1>5, <1>6, <1>7 DEF OfKind
  <2>2. Distinct(long)
    <3> SUFFICES ASSUME NEW i \in 1..Len(long), NEW k \in 1..Len(long), long[i].at = long[k].at
                 PROVE  i = k
      BY <1>6 DEF Distinct
    <3>1. \A x \in 1..Len(rest) : long[x].at # e.at
      BY <1>4, <1>5 DEF Remains
    <3>2. CASE i \in 1..Len(rest) /\ k \in 1..Len(rest)
      BY <1>5, <1>6, <1>7, <3>2 DEF Distinct
    <3> QED BY <1>5, <1>6, <3>1, <3>2
  <2> QED BY <1>1, <1>5, <2>1, <2>2, TierRoom
<1>9. Trim(long) = long
  BY <1>5, <1>6, <1>8 DEF Trim
<1>10. CASE p.tier # t
  BY <1>2, <1>3, <1>10
<1>11. CASE p.tier = t
  <2>1. Put(caches, e)[t] = long
    BY <1>1, <1>2, <1>3, <1>9
  <2>2. CASE p = e.at
    BY <1>5, <1>6, <1>11, <2>1, <2>2 DEF Held
  <2>3. CASE p # e.at
    <3>1. PICK j \in 1..Len(caches[t]) : caches[t][j].at = p
      BY <1>6, <1>11 DEF Held
    <3>2. PICK i \in 1..Len(rest) : rest[i] = caches[t][j]
      BY <1>4, <2>3, <3>1 DEF Remains
    <3>3. i \in DOMAIN long /\ long[i].at = p
      BY <1>5, <1>6, <3>1, <3>2
    <3> QED BY <1>11, <2>1, <3>3 DEF Held
  <2> QED BY <2>2, <2>3
<1> QED BY <1>10, <1>11

\* What a stored slice leaves in the caches, when there is room.
LEMMA StoredPlaces ==
  ASSUME HasRoom, history \in Histories, client.capacity \in Nat \ {0},
         NEW n \in DOMAIN history, NEW caches \in Caches(n), NEW slice \in Seq(Said(n)),
         NEW p, p.tier \in Tiers
  PROVE  Held(Stored(caches, slice)[p.tier], p) <=>
           Held(caches[p.tier], p) \/ \E i \in 1..Len(slice) : slice[i].at = p
<1>1. PICK after \in [0..Len(slice) -> Caches(n)] :
        /\ after[0] = caches /\ after[Len(slice)] = Stored(caches, slice)
        /\ \A i \in 1..Len(slice) : after[i] = Put(after[i - 1], slice[i])
  BY StoredCaches DEF Stores
<1>2. Len(slice) \in Nat /\ \A i \in 1..Len(slice) : slice[i] \in Said(n)
  OBVIOUS
<1> DEFINE Has(x) == Held(x[p.tier], p)
           N == {i \in 0..Len(slice) :
                   Has(after[i]) <=> Has(caches) \/ \E j \in 1..i : slice[j].at = p}
<1>3. 0 \in N
  BY <1>1, <1>2
<1>4. ASSUME NEW i \in 0..(Len(slice) - 1), i \in N
      PROVE  i + 1 \in N
  <2>1. /\ i + 1 \in 1..Len(slice) /\ (i + 1) - 1 = i /\ i + 1 \in 0..Len(slice) /\ i \in 0..Len(slice)
        /\ \A j \in 1..(i + 1) : j \in 1..i \/ j = i + 1
        /\ \A j \in 1..i : j \in 1..(i + 1)
    BY <1>2
  <2>2. after[i + 1] = Put(after[i], slice[i + 1]) /\ slice[i + 1] \in Said(n)
    BY <1>1, <1>2, <2>1
  <2>3. after[i] \in Caches(n)
    BY <2>1
  <2>4. Has(after[i + 1]) <=> Has(after[i]) \/ slice[i + 1].at = p
    <3>1. Has(after[i]) => Has(after[i + 1])
      BY <2>2, <2>3, PutKeeps
    <3>2. slice[i + 1].at = p => Has(after[i + 1])
      BY <2>2, <2>3, PutHolds
    <3>3. Has(after[i + 1]) => Has(after[i]) \/ slice[i + 1].at = p
      BY <2>2, <2>3, PutHolds
    <3> QED BY <3>1, <3>2, <3>3
  <2> HIDE DEF Has
  <2> QED BY <1>4, <2>1, <2>4
<1>5. 0..Len(slice) \subseteq N
  <2> HIDE DEF N
  <2> QED BY <1>2, <1>3, <1>4, SetInduction
<1>6. Len(slice) \in N
  BY <1>2, <1>5
<1> QED BY <1>1, <1>6

----------------------------------------------------------------------------
\* In the first world, what a cache has for a step is what the server reads for it.
LEMMA SaidFirst ==
  ASSUME history \in Histories, NEW s \in Steps, ~ ReadsBlock(s), NEW v,
         Entry(PlaceOf(s), v) \in Said(1)
  PROVE  v = ServerReads(history[1], s)
<1>1. 1 \in DOMAIN history /\ \A w \in 1..1 : w = 1
  <2>1. history \in Seq(Rows) /\ history # <<>>
    BY HistoriesType
  <2> QED BY <2>1
<1>2. CASE s \in AccountSteps
  <2>1. PlaceOf(s) = AccountPlace(s.of) /\ PlaceOf(s).tier = "account"
    BY <1>2, PlaceKinds DEF AccountPlace
  <2>2. PICK a \in Addr : PlaceOf(s) = AccountPlace(a) /\ v = GetAccount(history[1], a)
    BY <1>1, <2>1, SaidValues
  <2>3. a = s.of
    BY <2>1, <2>2 DEF AccountPlace
  <2> QED BY <1>2, <2>2, <2>3 DEF ServerReads, AccountSteps, ReadsAccount, AccountOps
<1>3. CASE s \in RunSteps
  <2>1. PlaceOf(s) = CodePlace(s.what) /\ PlaceOf(s).tier = "code" /\ s.op = "run" /\ ~ ReadsAccount(s)
    BY <1>3, PlaceKinds, StepKinds DEF CodePlace, RunSteps
  <2>2. v = s.what /\ v \in history[1].code
    <3>1. Entry(PlaceOf(s), v) \in CodeEntries(1)
      <4>1. /\ \A e \in AccountEntries(1) : e.at.tier = "account"
            /\ \A e \in SlotEntries(1) : e.at.tier = "slot"
        BY DEF AccountEntries, SlotEntries, Entry, AccountPlace, SlotPlace
      <4>2. Entry(PlaceOf(s), v).at.tier = "code"
        BY <2>1 DEF Entry
      <4> QED BY <4>1, <4>2 DEF Said
    <3>2. PICK x \in AskedFor(1) :
            Entry(PlaceOf(s), v) = Entry(CodePlace(history[x[1]].acct[x[3]].code), GetCode(history[x[2]], x[3]))
      BY <3>1 DEF CodeEntries
    <3>3. x[1] = 1 /\ x[2] = 1 /\ GetCode(history[1], x[3]) # None
      BY <1>1 DEF AskedFor
    <3>4. CodePlace(s.what) = CodePlace(history[1].acct[x[3]].code) /\ v = GetCode(history[1], x[3])
      BY <2>1, <3>2, <3>3 DEF Entry
    <3> QED BY <3>3, <3>4 DEF CodePlace, GetCode
  <2> QED BY <2>1, <2>2 DEF ServerReads
<1>4. CASE s \in SlotSteps
  <2>1. PlaceOf(s) = SlotPlace(s.of, s.what) /\ PlaceOf(s).tier = "slot"
        /\ ~ ReadsAccount(s) /\ s.op = "sload"
    BY <1>4, PlaceKinds DEF SlotPlace, SlotSteps, ReadsAccount, AccountOps
  <2>2. PICK a \in Addr, k \in Slot :
          PlaceOf(s) = SlotPlace(a, k) /\ v = ReadSlot(GetStorage(history[1], a, k))
    BY <1>1, <2>1, SaidValues
  <2>3. a = s.of /\ k = s.what
    BY <2>1, <2>2 DEF SlotPlace
  <2> QED BY <2>1, <2>2, <2>3 DEF ServerReads
<1> QED BY <1>2, <1>3, <1>4, StepCases

LEMMA HeldFirst ==
  ASSUME history \in Histories, NEW caches \in Caches(1), NEW s \in Steps, ~ ReadsBlock(s),
         Held(caches[PlaceOf(s).tier], PlaceOf(s))
  PROVE  ValueOf(caches[PlaceOf(s).tier], PlaceOf(s)) = ServerReads(history[1], s)
BY PlaceKinds, HeldSaid, SaidFirst

\* With room, what was available stays available.
LEMMA PutAvailable ==
  ASSUME HasRoom, history \in Histories, client.capacity \in Nat \ {0},
         NEW caches \in Caches(1), NEW e \in Said(1), NEW x, Available(caches, x)
  PROVE  Available(Put(caches, e), x)
<1>1. 1 \in DOMAIN history
  <2>1. history \in Seq(Rows) /\ history # <<>>
    BY HistoriesType
  <2> QED BY <2>1
<1>2. CodePlace(x).tier = "code" /\ "code" \in Tiers
  BY DEF CodePlace, Tiers
<1> QED BY <1>1, <1>2, PutKeeps DEF Available

LEMMA PutReady ==
  ASSUME HasRoom, history \in Histories, client.capacity \in Nat \ {0},
         NEW caches \in Caches(1), NEW e \in Said(1), NEW r, Ready(caches, r)
  PROVE  Ready(Put(caches, e), r)
BY PutAvailable DEF Ready

LEMMA PutCodesKept ==
  ASSUME HasRoom, history \in Histories, client.capacity \in Nat \ {0},
         NEW caches \in Caches(1), NEW e \in Said(1), CodesKept(caches),
         \A a \in Addr : (e.at = AccountPlace(a) /\ HasCode(GetAccount(history[1], a))) =>
           Available(caches, GetAccount(history[1], a).code)
  PROVE  CodesKept(Put(caches, e))
<1> SUFFICES ASSUME NEW a \in Addr, Held(Put(caches, e)["account"], AccountPlace(a)),
                    HasCode(GetAccount(history[1], a))
             PROVE  Available(Put(caches, e), GetAccount(history[1], a).code)
  BY DEF CodesKept
<1>1. AccountPlace(a).tier = "account" /\ "account" \in Tiers
  BY DEF AccountPlace, Tiers
<1>2. e.at = AccountPlace(a) \/ Held(caches["account"], AccountPlace(a))
  BY <1>1, PutHolds
<1>3. Available(caches, GetAccount(history[1], a).code)
  BY <1>2 DEF CodesKept
<1> QED BY <1>3, PutAvailable

\* A slice comes with the codes of its accounts.
LEMMA StoredCodesKept ==
  ASSUME HasRoom, history \in Histories, client.capacity \in Nat \ {0},
         NEW caches \in Caches(1), CodesKept(caches), NEW r \in Runs, NEW c \in Calls
  PROVE  CodesKept(Stored(caches, Slice(history[1], c, r)))
<1> DEFINE slice == Slice(history[1], c, r)
           Has(p) == \E i \in 1..Len(slice) : slice[i].at = p
<1>1. 1 \in DOMAIN history /\ 1 \in Nat \ {0}
  <2>1. history \in Seq(Rows) /\ history # <<>>
    BY HistoriesType
  <2> QED BY <2>1
<1>2. /\ slice \in Seq(Said(1))
      /\ \A a \in Addr : Has(AccountPlace(a)) =>
           a \in Accesses(c, r) /\ GetAccount(history[1], a) # None
      /\ \A a \in Accesses(c, r) :
           (GetAccount(history[1], a) # None /\ GetCode(history[1], a) # None) =>
             Has(CodePlace(GetCode(history[1], a)))
  BY <1>1, SliceHolds
<1> HIDE DEF slice
<1>3. ASSUME NEW p, p.tier \in Tiers
      PROVE  Held(Stored(caches, slice)[p.tier], p) <=> Held(caches[p.tier], p) \/ Has(p)
  BY <1>1, <1>2, <1>3, StoredPlaces
<1> SUFFICES ASSUME NEW a \in Addr, Held(Stored(caches, slice)["account"], AccountPlace(a)),
                    HasCode(GetAccount(history[1], a)),
                    GetAccount(history[1], a).code \in history[1].code
             PROVE  Held(Stored(caches, slice)["code"], CodePlace(GetAccount(history[1], a).code))
  BY DEF CodesKept, Available, slice
<1>4. /\ AccountPlace(a).tier = "account" /\ "account" \in Tiers
      /\ CodePlace(GetAccount(history[1], a).code).tier = "code" /\ "code" \in Tiers
  BY DEF AccountPlace, CodePlace, Tiers
<1>5. CASE Held(caches["account"], AccountPlace(a))
  <2>1. Held(caches["code"], CodePlace(GetAccount(history[1], a).code))
    BY <1>5 DEF CodesKept, Available
  <2> QED BY <1>3, <1>4, <2>1
<1>6. CASE Has(AccountPlace(a))
  <2>1. a \in Accesses(c, r) /\ GetAccount(history[1], a) # None
    BY <1>2, <1>6
  <2>2. GetCode(history[1], a) = GetAccount(history[1], a).code /\ GetCode(history[1], a) # None
    <3>1. history[1] \in Rows
      BY <1>1, HistoryType
    <3>2. GetAccount(history[1], a).code \in Code
      BY <3>1 DEF Rows
    <3> QED BY <3>2, MarkersDiffer DEF GetCode, GetAccount
  <2>3. Has(CodePlace(GetAccount(history[1], a).code))
    BY <1>2, <2>1, <2>2
  <2> QED BY <1>3, <1>4, <2>3
<1>7. Held(caches["account"], AccountPlace(a)) \/ Has(AccountPlace(a))
  BY <1>3, <1>4
<1> QED BY <1>5, <1>6, <1>7

----------------------------------------------------------------------------
\* A run whose codes are there: it goes on so when the accounts that it reads have theirs.
LEMMA ConcatAt ==
  ASSUME NEW E, NEW s \in Seq(E), NEW t \in Seq(E), NEW i \in DOMAIN (s \o t)
  PROVE  (\E j \in DOMAIN s : (s \o t)[i] = s[j]) \/ (\E j \in DOMAIN t : (s \o t)[i] = t[j])
<1>1. /\ s \o t \in Seq(E) /\ Len(s \o t) = Len(s) + Len(t)
      /\ \A k \in 1..(Len(s) + Len(t)) : (s \o t)[k] = IF k <= Len(s) THEN s[k] ELSE t[k - Len(s)]
  BY ConcatProperties
<1>2. /\ DOMAIN s = 1..Len(s) /\ DOMAIN t = 1..Len(t) /\ Len(s) \in Nat /\ Len(t) \in Nat
      /\ i \in 1..(Len(s) + Len(t))
  BY <1>1
<1>3. CASE i <= Len(s)
  BY <1>1, <1>2, <1>3
<1>4. CASE ~ (i <= Len(s))
  <2>1. i - Len(s) \in DOMAIN t
    BY <1>2, <1>4
  <2> QED BY <1>1, <1>2, <1>4, <2>1
<1> QED BY <1>3, <1>4

\* Where the steps and the entries of a run come from.
LEMMA AdvanceAt ==
  ASSUME NEW r \in Runs, r.todo # <<>>, NEW v, [step |-> Head(r.todo), value |-> v] \in Logged
  PROVE  /\ \A i \in DOMAIN Advance(r, v).todo :
              \/ \E j \in DOMAIN Unfolds(Head(r.todo), v) :
                   Advance(r, v).todo[i] = Unfolds(Head(r.todo), v)[j]
              \/ \E j \in DOMAIN r.todo : Advance(r, v).todo[i] = r.todo[j]
         /\ Len(Advance(r, v).log) = Len(r.log) + 1
         /\ \A i \in DOMAIN r.log : i \in DOMAIN Advance(r, v).log /\ Advance(r, v).log[i] = r.log[i]
         /\ Advance(r, v).log[Len(r.log) + 1] = [step |-> Head(r.todo), value |-> v]
         /\ \A i \in DOMAIN Advance(r, v).log : i \in DOMAIN r.log \/ i = Len(r.log) + 1
<1>1. r.todo \in Seq(Steps) /\ r.log \in Seq(Logged)
  BY DEF Runs
<1>2. Unfolds(Head(r.todo), v) \in Seq(Steps)
  BY UnfoldsType
<1>3. Tail(r.todo) \in Seq(Steps) /\ \A j \in DOMAIN Tail(r.todo) :
        j + 1 \in DOMAIN r.todo /\ Tail(r.todo)[j] = r.todo[j + 1]
  BY <1>1
<1>4. /\ Advance(r, v).todo = Unfolds(Head(r.todo), v) \o Tail(r.todo)
      /\ Advance(r, v).log = Append(r.log, [step |-> Head(r.todo), value |-> v])
  BY DEF Advance
<1>5. \A i \in DOMAIN Advance(r, v).todo :
        \/ \E j \in DOMAIN Unfolds(Head(r.todo), v) :
             Advance(r, v).todo[i] = Unfolds(Head(r.todo), v)[j]
        \/ \E j \in DOMAIN r.todo : Advance(r, v).todo[i] = r.todo[j]
  <2> DEFINE new == Unfolds(Head(r.todo), v)
             rest == Tail(r.todo)
  <2>1. new \in Seq(Steps) /\ rest \in Seq(Steps) /\ Advance(r, v).todo = new \o rest
    BY <1>2, <1>3, <1>4
  <2>2. \A j \in DOMAIN rest : \E k \in DOMAIN r.todo : rest[j] = r.todo[k]
    BY <1>3
  <2> HIDE DEF new, rest
  <2>3. \A i \in DOMAIN (new \o rest) :
          \/ \E j \in DOMAIN new : (new \o rest)[i] = new[j]
          \/ \E j \in DOMAIN rest : (new \o rest)[i] = rest[j]
    BY <2>1, ConcatAt
  <2>4. \A i \in DOMAIN Advance(r, v).todo :
          \/ \E j \in DOMAIN new : Advance(r, v).todo[i] = new[j]
          \/ \E j \in DOMAIN r.todo : Advance(r, v).todo[i] = r.todo[j]
    BY <2>1, <2>2, <2>3
  <2> QED BY <2>4 DEF new
<1>6. DOMAIN r.log = 1..Len(r.log) /\ Len(r.log) \in Nat
  BY <1>1
<1>7. /\ Len(Advance(r, v).log) = Len(r.log) + 1 /\ Advance(r, v).log \in Seq(Logged)
      /\ \A i \in 1..Len(r.log) : Advance(r, v).log[i] = r.log[i]
      /\ Advance(r, v).log[Len(r.log) + 1] = [step |-> Head(r.todo), value |-> v]
  BY <1>1, <1>4, AppendProperties
<1>8. DOMAIN Advance(r, v).log = 1..(Len(r.log) + 1)
  BY <1>7
<1> QED BY <1>5, <1>6, <1>7, <1>8

\* A step unfolds into the run of an account's code, or into the reads of a bytecode.
LEMMA UnfoldsAt ==
  ASSUME NEW s, NEW v, [step |-> s, value |-> v] \in Logged, NEW j \in DOMAIN Unfolds(s, v)
  PROVE  /\ Unfolds(s, v)[j].op # "caller"
         /\ Unfolds(s, v)[j].op = "run" => ReadsAccount(s) /\ HasCode(v) /\ Unfolds(s, v)[j].what = v.code
<1>1. s \in Steps
  BY LoggedValues, StepKinds
<1>2. CASE s.op \in {"call", "delegatecall"} /\ HasCode(v)
  <2>1. Unfolds(s, v) = <<[op |-> "run", self |-> IF s.op = "call" THEN s.of ELSE s.self,
                           of |-> s.of, what |-> v.code]>>
    BY <1>2 DEF Unfolds
  <2> QED BY <1>2, <2>1 DEF ReadsAccount, AccountOps
<1>3. CASE s.op = "run" /\ v # NoCode /\ ~ (s.op \in {"call", "delegatecall"} /\ HasCode(v))
  <2>1. Unfolds(s, v) = InFrame(Body[v], s.self)
    BY <1>3 DEF Unfolds
  <2>2. v \in Code
    BY <1>1, <1>3, LoggedValues, StepKinds DEF RunSteps
  <2>3. Body[v] \in Seq({x \in Steps : x.op \notin {"caller", "run"}})
    BY <2>2, BodyType
  <2>4. j \in DOMAIN Body[v]
    BY <2>1 DEF InFrame
  <2>5. Body[v][j].op \notin {"caller", "run"} /\ Body[v][j] \in Steps
    BY <2>3, <2>4
  <2>6. Unfolds(s, v)[j].op = Body[v][j].op
    BY <2>1, <2>4, <2>5 DEF InFrame, Steps
  <2> QED BY <2>5, <2>6
<1>4. CASE Unfolds(s, v) = <<>>
  BY <1>4
<1> QED BY <1>2, <1>3, <1>4 DEF Unfolds

LEMMA AdvanceReady ==
  ASSUME NEW caches, NEW r \in Runs, r.todo # <<>>, Ready(caches, r),
         NEW v, [step |-> Head(r.todo), value |-> v] \in Logged,
         (ReadsAccount(Head(r.todo)) /\ HasCode(v)) => Available(caches, v.code)
  PROVE  Ready(caches, Advance(r, v))
<1> DEFINE next == Advance(r, v)
<1>1. ASSUME NEW i \in DOMAIN next.todo, next.todo[i].op = "run"
      PROVE  Available(caches, next.todo[i].what)
  <2>1. CASE \E j \in DOMAIN Unfolds(Head(r.todo), v) : next.todo[i] = Unfolds(Head(r.todo), v)[j]
    <3>1. PICK j \in DOMAIN Unfolds(Head(r.todo), v) : next.todo[i] = Unfolds(Head(r.todo), v)[j]
      BY <2>1
    <3>2. ReadsAccount(Head(r.todo)) /\ HasCode(v) /\ next.todo[i].what = v.code
      BY <1>1, <3>1, UnfoldsAt
    <3> QED BY <3>2
  <2>2. CASE \E j \in DOMAIN r.todo : next.todo[i] = r.todo[j]
    BY <1>1, <2>2 DEF Ready
  <2> QED BY <2>1, <2>2, AdvanceAt
<1>2. ASSUME NEW i \in DOMAIN next.log, ReadsAccount(next.log[i].step), HasCode(next.log[i].value)
      PROVE  Available(caches, next.log[i].value.code)
  <2>1. CASE i \in DOMAIN r.log
    <3>1. next.log[i] = r.log[i]
      BY <2>1, AdvanceAt
    <3> QED BY <1>2, <2>1, <3>1 DEF Ready
  <2>2. CASE i = Len(r.log) + 1
    <3>1. next.log[i] = [step |-> Head(r.todo), value |-> v]
      BY <2>2, AdvanceAt
    <3> QED BY <1>2, <3>1
  <2> QED BY <2>1, <2>2, AdvanceAt
<1> HIDE DEF next
<1>3. Ready(caches, next)
  BY <1>1, <1>2 DEF Ready
<1> QED BY <1>3 DEF next

LEMMA JournalReady ==
  ASSUME NEW caches, NEW r \in Runs, Ready(caches, r), Journaled(r),
         ReadsAccount(Head(r.todo)), HasCode(FromJournal(r))
  PROVE  Available(caches, FromJournal(r).code)
<1> DEFINE i == CHOOSE k \in Loaded(r, Head(r.todo)) : TRUE
<1>1. i \in Loaded(r, Head(r.todo))
  BY DEF Journaled
<1>2. i \in DOMAIN r.log /\ ReadsAccount(r.log[i].step) /\ FromJournal(r) = r.log[i].value
  BY <1>1 DEF Loaded, FromJournal
<1> QED BY <1>2 DEF Ready

----------------------------------------------------------------------------
\* A run, step by step.
LEMMA UnrolledRun ==
  ASSUME NEW c \in Calls, NEW read, Answers(read)
  PROVE  /\ Unrolled(c, read) \in [0..Gas -> Runs] /\ Unrolled(c, read)[0] = Begin(c)
         /\ \A n \in 1..Gas : Unrolled(c, read)[n] = StepOf(Unrolled(c, read)[n - 1], read)
         /\ Unrolled(c, read)[Gas] = RunOf(c, read)
<1> DEFINE G(h) == [n \in 0..Gas |-> IF n = 0 THEN Begin(c) ELSE StepOf(h[n - 1], read)]
           U == CHOOSE h : h = G(h)
<1>1. Gas \in Nat
  BY GasType
<1>2. PICK after \in [0..Gas -> Runs] :
        /\ after[0] = Begin(c) /\ after[Gas] = RunOf(c, read)
        /\ \A n \in 1..Gas : after[n] = StepOf(after[n - 1], read)
  BY RunSequence
<1>3. after = G(after)
  BY <1>1, <1>2
<1>4. U = G(U)
  <2> HIDE DEF G
  <2> QED BY <1>3
<1>5. Unrolled(c, read) = U
  BY DEF Unrolled
<1> HIDE DEF U
<1>6. U[0] = Begin(c) /\ \A n \in 1..Gas : U[n] = StepOf(U[n - 1], read)
  BY <1>1, <1>4
<1> DEFINE N == {n \in 0..Gas : U[n] = after[n]}
<1>7. 0 \in N
  BY <1>1, <1>2, <1>6
<1>8. ASSUME NEW n \in 0..(Gas - 1), n \in N
      PROVE  n + 1 \in N
  <2>1. n + 1 \in 1..Gas /\ (n + 1) - 1 = n /\ n + 1 \in 0..Gas
    BY <1>1
  <2>2. U[n + 1] = StepOf(U[n], read) /\ after[n + 1] = StepOf(after[n], read)
    BY <1>2, <1>6, <2>1
  <2> QED BY <1>8, <2>1, <2>2
<1>9. 0..Gas \subseteq N
  <2> HIDE DEF N
  <2> QED BY <1>1, <1>7, <1>8, SetInduction
<1>10. U = after
  BY <1>2, <1>4, <1>9
<1> QED BY <1>2, <1>5, <1>10

\* When it is over it stays as it is.
LEMMA OverStays ==
  ASSUME NEW c \in Calls, NEW read, Answers(read), NEW n \in 0..Gas,
         Over(Unrolled(c, read)[n])
  PROVE  RunOf(c, read) = Unrolled(c, read)[n]
<1> DEFINE U == Unrolled(c, read)
           N == {k \in 0..(Gas - n) : U[n + k] = U[n]}
<1>1. Gas \in Nat /\ n \in Nat /\ Gas - n \in Nat
  BY GasType
<1>2. /\ \A m \in 1..Gas : U[m] = StepOf(U[m - 1], read)
      /\ U[Gas] = RunOf(c, read)
  BY UnrolledRun
<1> HIDE DEF U
<1>3. 0 \in N
  BY <1>1
<1>4. ASSUME NEW k \in 0..(Gas - n - 1), k \in N
      PROVE  k + 1 \in N
  <2>1. n + (k + 1) \in 1..Gas /\ n + (k + 1) - 1 = n + k /\ k + 1 \in 0..(Gas - n)
    BY <1>1
  <2>2. U[n + (k + 1)] = StepOf(U[n + k], read)
    BY <1>2, <2>1
  <2>3. StepOf(U[n], read) = U[n]
    BY DEF StepOf, U
  <2> QED BY <1>4, <2>1, <2>2, <2>3
<1>5. 0..(Gas - n) \subseteq N
  <2> HIDE DEF N
  <2> QED BY <1>1, <1>3, <1>4, SetInduction
<1>6. U[n + (Gas - n)] = U[n] /\ n + (Gas - n) = Gas
  BY <1>1, <1>5
<1> QED BY <1>2, <1>6 DEF U

\* What is in its log stays there.
LEMMA LogStays ==
  ASSUME NEW c \in Calls, NEW read, Answers(read), NEW n \in 0..Gas
  PROVE  \A i \in DOMAIN Unrolled(c, read)[n].log :
           /\ i \in DOMAIN RunOf(c, read).log
           /\ RunOf(c, read).log[i] = Unrolled(c, read)[n].log[i]
<1> DEFINE U == Unrolled(c, read)
           Within(r, s) == \A i \in DOMAIN r.log : i \in DOMAIN s.log /\ s.log[i] = r.log[i]
           N == {k \in 0..(Gas - n) : Within(U[n], U[n + k])}
<1>1. Gas \in Nat /\ n \in Nat /\ Gas - n \in Nat
  BY GasType
<1>2. /\ U \in [0..Gas -> Runs]
      /\ \A m \in 1..Gas : U[m] = StepOf(U[m - 1], read)
      /\ U[Gas] = RunOf(c, read)
  BY UnrolledRun
<1> HIDE DEF U
<1>3. 0 \in N
  BY <1>1
<1>4. ASSUME NEW r \in Runs
      PROVE  Within(r, StepOf(r, read))
  <2>1. CASE Over(r)
    BY <2>1 DEF StepOf
  <2>2. CASE ~ Over(r)
    <3> DEFINE v == IF Journaled(r) THEN FromJournal(r) ELSE read[Head(r.todo)]
    <3>1. r.todo # <<>> /\ Head(r.todo) \in Steps
      BY <2>2, HeadTailProperties DEF Over, Runs
    <3>2. [step |-> Head(r.todo), value |-> v] \in Logged
      BY <3>1, JournalType DEF Answers
    <3>3. StepOf(r, read) = Advance(r, v)
      BY <2>2 DEF StepOf
    <3> HIDE DEF v
    <3> QED BY <3>1, <3>2, <3>3, AdvanceAt
  <2> QED BY <2>1, <2>2
<1>5. ASSUME NEW k \in 0..(Gas - n - 1), k \in N
      PROVE  k + 1 \in N
  <2>1. /\ n + (k + 1) \in 1..Gas /\ n + (k + 1) - 1 = n + k /\ k + 1 \in 0..(Gas - n)
        /\ n + k \in 0..Gas
    BY <1>1
  <2>2. U[n + (k + 1)] = StepOf(U[n + k], read) /\ U[n + k] \in Runs
    BY <1>2, <2>1
  <2>3. Within(U[n + k], U[n + (k + 1)])
    BY <1>4, <2>2
  <2> QED BY <1>5, <2>1, <2>3
<1>6. 0..(Gas - n) \subseteq N
  <2> HIDE DEF N
  <2> QED BY <1>1, <1>3, <1>5, SetInduction
<1>7. Within(U[n], U[n + (Gas - n)]) /\ n + (Gas - n) = Gas
  BY <1>1, <1>6
<1> QED BY <1>2, <1>7 DEF U

LEMMA ServerReadAnswers ==
  ASSUME history \in Histories
  PROVE  Answers(ServerRead)
<1>1. 1 \in DOMAIN history
  <2>1. history \in Seq(Rows) /\ history # <<>>
    BY HistoriesType
  <2> QED BY <2>1
<1> QED BY <1>1, ServerReadsType DEF Answers, ServerRead

----------------------------------------------------------------------------
\* The native client.  A read that gives what the server reads keeps a run faithful.
LEMMA GoFaithful ==
  ASSUME IInv, NEW c \in Callers, Faithful(c), call[c] \in Calls, ~ Over(run[c]), NEW value, Go(c, value),
         [step |-> Now(c), value |-> value] \in Logged,
         value = IF Journaled(run[c]) THEN FromJournal(run[c]) ELSE ServerRead[Now(c)],
         UNCHANGED <<call, history>>
  PROVE  Faithful(c)'
<1> DEFINE U == Unrolled(call[c], ServerRead)
<1>1. PICK n \in 0..Gas : run[c] = U[n] /\ Len(run[c].log) = n
  BY DEF Faithful
<1>2. /\ Gas \in Nat /\ n + 1 \in 1..Gas /\ (n + 1) - 1 = n /\ n + 1 \in 0..Gas
  BY <1>1, GasType DEF Over
<1>3. run[c] \in Runs /\ run[c].todo # <<>>
  BY Facts DEF Over
<1>4. Len(Advance(run[c], value).log) = n + 1
  BY <1>1, <1>3, AdvanceAt DEF Now
<1>5. U[n + 1] = Advance(run[c], value)
  <2>1. U[n + 1] = StepOf(U[n], ServerRead)
    BY <1>2, Facts, UnrolledRun, ServerReadAnswers
  <2> QED BY <1>1, <2>1 DEF StepOf, Now
<1>6. run'[c] = Advance(run[c], value)
  BY Facts DEF Go
<1>7. ServerRead' = ServerRead /\ call'[c] = call[c]
  BY DEF ServerRead
<1>8. run'[c] = Unrolled(call'[c], ServerRead')[n + 1] /\ Len(run'[c].log) = n + 1
  BY <1>4, <1>5, <1>6, <1>7
<1> QED BY <1>2, <1>8 DEF Faithful

\* What a run has done it has done.
LEMMA DoneStays ==
  ASSUME IInv, NEW c \in Callers, ~ Over(run[c]), NEW value, Go(c, value),
         [step |-> Now(c), value |-> value] \in Logged,
         UNCHANGED <<client, history, world>>, Excused(c)
  PROVE  Excused(c)'
<1>1. run[c] \in Runs /\ run[c].todo # <<>>
  BY Facts DEF Over
<1>2. run'[c] = Advance(run[c], value)
  BY Facts DEF Go
<1>3. \A i \in DOMAIN run[c].log : i \in DOMAIN run'[c].log /\ run'[c].log[i] = run[c].log[i]
  BY <1>1, <1>2, AdvanceAt DEF Now
<1>4. CASE Done(c, LAMBDA e : ReadsBlock(e.step))
  BY <1>3, <1>4 DEF Excused, Done, ReadsBlock
<1>5. CASE ~ HasRoom /\ Done(c, LostCode)
  BY <1>3, <1>5 DEF Excused, Done, LostCode, HasRoom, db
<1> QED BY <1>4, <1>5 DEF Excused

----------------------------------------------------------------------------
\* While the world is the first one: what each action keeps.
LooksAtBlock(c) == Done(c, LAMBDA e : ReadsBlock(e.step))
LosesCode(c) == Done(c, LostCode)
LacksAccount(c) == Done(c, LAMBDA e : LeftOut(c, e))
Verifies(c) == verdict[c] = "mismatch" =>
  \/ LooksAtBlock(c)
  \/ client.fetches /\ ~ HasRoom /\ LosesCode(c)
  \/ ~ client.fetches /\ LacksAccount(c)

Still == IInv /\ StillInv /\ world = 1

LEMMA StillFacts ==
  ASSUME Still
  PROVE  /\ IInv /\ world = 1 /\ cache \in Caches(1) /\ history \in Histories
         /\ client \in Clients /\ client.capacity \in Nat \ {0} /\ 1 \in DOMAIN history
         /\ \A c \in Callers : HonestInv(c) /\ Verifies(c)
         /\ HasRoom => CodesKept(cache)
         /\ HasRoom => \A c \in Callers : /\ (InRun(c) => Ready(cache, run[c]))
                                         /\ (pc[c] = "store" => Available(cache, got[c].code))
<1>1. IInv /\ world = 1 /\ RoomInv /\ HonestServerVerifies /\ \A c \in Callers : HonestInv(c)
  BY DEF Still, StillInv
<1>2. \A c \in Callers : Verifies(c)
  BY <1>1 DEF HonestServerVerifies, Verifies, LooksAtBlock, LosesCode, LacksAccount
<1> QED BY <1>1, <1>2, Facts DEF RoomInv

\* The caches lose no code that was there.
RoomKept == HasRoom =>
  CodesKept(cache') /\ \A x : Available(cache, x) => Available(cache', x)

LEMMA KeepsStill ==
  ASSUME Still, NEW c \in Callers, Keeps(c), \A d \in Callers \ {c} : verdict'[d] = verdict[d],
         HonestInv(c)', Verifies(c)', RoomKept,
         HasRoom => (InRun(c)' => Ready(cache', run'[c])),
         HasRoom => (pc'[c] = "store" => Available(cache', got'[c].code))
  PROVE  StillInv'
<1>1. client' = client /\ history' = history /\ world' = 1
  BY StillFacts DEF Keeps
<1>2. HasRoom' = HasRoom /\ ServerRead' = ServerRead
  BY <1>1 DEF HasRoom, ServerRead
<1>3. \A x : Available(cache, x)' = Available(cache', x)
  BY <1>1 DEF Available
<1>4. ASSUME NEW d \in Callers \ {c}
      PROVE  /\ pc'[d] = pc[d] /\ call'[d] = call[d] /\ reply'[d] = reply[d] /\ run'[d] = run[d]
             /\ got'[d] = got[d] /\ code'[d] = code[d] /\ verdict'[d] = verdict[d]
  BY DEF Keeps
<1>5. ASSUME NEW d \in Callers \ {c}
      PROVE  HonestInv(d)' /\ Verifies(d)'
  <2>1. HonestInv(d) /\ Verifies(d)
    BY StillFacts
  <2>2. Excused(d)' = Excused(d)
    BY <1>1, <1>2, <1>4, StillFacts DEF Excused, Done, LostCode, ReadsBlock, db
  <2>3. Faithful(d)' = Faithful(d)
    BY <1>2, <1>4 DEF Faithful
  <2>4. HonestInv(d)'
    BY <1>1, <1>4, <2>1, <2>2, <2>3 DEF HonestInv, Answered, InRun, Fetching
  <2>5. Verifies(d)'
    <3>1. db' = db
      BY <1>1, StillFacts DEF db
    <3>2. LooksAtBlock(d)' = LooksAtBlock(d)
      BY <1>4 DEF LooksAtBlock, Done, ReadsBlock
    <3>3. LosesCode(d)' = LosesCode(d)
      BY <1>4, <3>1 DEF LosesCode, Done, LostCode
    <3>4. LacksAccount(d)' = LacksAccount(d)
      BY <1>4, <3>1 DEF LacksAccount, Done, LeftOut
    <3> QED BY <1>1, <1>2, <1>4, <2>1, <3>2, <3>3, <3>4 DEF Verifies
  <2> QED BY <2>4, <2>5
<1>6. ASSUME HasRoom, NEW d \in Callers
      PROVE  (InRun(d)' => Ready(cache', run'[d]))
             /\ (pc'[d] = "store" => Available(cache', got'[d].code))
  <2>1. CASE d = c
    BY <1>6, <2>1
  <2>2. CASE d # c
    BY <1>4, <1>6, <2>2, StillFacts DEF RoomKept, Ready, InRun
  <2> QED BY <2>1, <2>2
<1>7. RoomInv'
  <2>1. \A r : Ready(cache, r)' = Ready(cache', r)
    BY <1>1 DEF Ready, Available
  <2>2. HasRoom => CodesKept(cache)'
    BY <1>1 DEF RoomKept, CodesKept, Available
  <2>3. ASSUME HasRoom, NEW d \in Callers
        PROVE  (InRun(d) => Ready(cache, run[d]))' /\ (pc[d] = "store" => Available(cache, got[d].code))'
    BY <1>1, <1>6, <2>3 DEF Ready, Available
  <2> QED BY <1>2, <2>2, <2>3 DEF RoomInv
<1>8. HonestServerVerifies'
  <2>1. \A d \in Callers : Verifies(d)'
    BY <1>5
  <2> QED BY <2>1 DEF HonestServerVerifies, Verifies, LooksAtBlock, LosesCode, LacksAccount
<1> QED BY <1>5, <1>7, <1>8 DEF StillInv

LEMMA SameCache ==
  ASSUME Still, UNCHANGED cache
  PROVE  RoomKept
BY StillFacts DEF RoomKept

LEMMA AskStill ==
  ASSUME Still, NEW c \in Callers, NEW r \in Requests, Ask(c, r)
  PROVE  StillInv'
<1> USE StillFacts, Facts
<1>1. Keeps(c) /\ (\A d \in Callers \ {c} : verdict'[d] = verdict[d]) /\ RoomKept /\ world' = 1
  BY SameCache DEF Ask, Keeps
<1>2. CASE Prefetch(db, r) = None
  <2>1. pc'[c] = "idle" /\ verdict'[c] = "error"
    BY <1>2 DEF Ask
  <2> QED BY <1>1, <2>1, KeepsStill DEF HonestInv, Verifies, Answered, InRun, Fetching
<1>3. CASE Prefetch(db, r) # None
  <2>1. pc'[c] = "answered" /\ verdict'[c] = "none" /\ call'[c] = r /\ reply'[c] = Prefetch(history[1], r)
    BY <1>3 DEF Ask, db
  <2>2. r \in Calls /\ history' = history /\ reply'[c] # None
    BY <1>3, <2>1, RequestsType DEF Ask, db
  <2> QED BY <1>1, <2>1, <2>2, KeepsStill DEF HonestInv, Verifies, Answered, InRun, Fetching
<1> QED BY <1>2, <1>3

LEMMA FailStill ==
  ASSUME Still, NEW c \in Callers, Fail(c)
  PROVE  StillInv'
<1> USE StillFacts, Facts
<1>1. Keeps(c) /\ (\A d \in Callers \ {c} : verdict'[d] = verdict[d]) /\ RoomKept
  BY SameCache DEF Fail, Keeps
<1>2. pc'[c] = "idle" /\ verdict'[c] = "error"
  BY DEF Fail
<1> QED BY <1>1, <1>2, KeepsStill DEF HonestInv, Verifies, Answered, InRun, Fetching

LEMMA SliceOf ==
  ASSUME Still, NEW c \in Callers, pc[c] = "answered"
  PROVE  /\ call[c] \in Calls /\ RunOf(call[c], ServerRead) \in Runs
         /\ reply[c].slice = Slice(history[1], call[c], RunOf(call[c], ServerRead))
         /\ reply[c].outcome = Outcome(RunOf(call[c], ServerRead))
         /\ reply[c].slice \in Seq(Said(1))
<1>1. /\ call[c] \in Calls /\ reply[c] = Prefetch(history[1], call[c]) /\ reply[c] # None
  BY StillFacts DEF HonestInv, Answered
<1>2. Answers(ServerRead)
  BY StillFacts, ServerReadAnswers
<1>3. RunOf(call[c], ServerRead) \in Runs
  <2>1. Gas \in 0..Gas
    BY GasType
  <2> QED BY <1>1, <1>2, <2>1, UnrolledRun
<1>4. /\ reply[c].slice = Slice(history[1], call[c], RunOf(call[c], ServerRead))
      /\ reply[c].outcome = Outcome(RunOf(call[c], ServerRead))
  BY <1>1 DEF Prefetch, ServerRead
<1>5. reply[c].slice \in Seq(Said(1))
  <2>1. 1 \in Nat \ {0}
    OBVIOUS
  <2> QED BY <1>1, <1>3, <1>4, <2>1, SliceHolds
<1> QED BY <1>1, <1>3, <1>4, <1>5

LEMMA StoreSliceRoom ==
  ASSUME Still, NEW c \in Callers, pc[c] = "answered", cache' = StoreSlice(cache, c)
  PROVE  RoomKept
<1> SUFFICES ASSUME HasRoom
             PROVE  CodesKept(cache') /\ \A x : Available(cache, x) => Available(cache', x)
  BY DEF RoomKept
<1>1. cache' = Stored(cache, reply[c].slice)
  BY DEF StoreSlice
<1>2. CodesKept(cache')
  BY <1>1, SliceOf, StoredCodesKept, StillFacts
<1>3. ASSUME NEW x, Available(cache, x)
      PROVE  Available(cache', x)
  <2>1. CodePlace(x).tier = "code" /\ "code" \in Tiers
    BY DEF CodePlace, Tiers
  <2>2. Held(cache["code"], CodePlace(x)) => Held(cache'["code"], CodePlace(x))
    BY <1>1, <2>1, SliceOf, StoredPlaces, StillFacts
  <2> QED BY <1>3, <2>2 DEF Available
<1> QED BY <1>2, <1>3

LEMMA PreloadStill ==
  ASSUME Still, NEW c \in Callers, Preload(c)
  PROVE  StillInv'
<1> USE StillFacts, Facts
<1>1. Keeps(c) /\ (\A d \in Callers \ {c} : verdict'[d] = verdict[d])
  BY DEF Preload, Keeps
<1>2. RoomKept
  BY StoreSliceRoom DEF Preload
<1>3. pc'[c] = "idle" /\ verdict'[c] = "unverified"
  BY DEF Preload
<1> QED BY <1>1, <1>2, <1>3, KeepsStill DEF HonestInv, Verifies, Answered, InRun, Fetching

LEMMA BeginReady ==
  ASSUME NEW caches, NEW c
  PROVE  Ready(caches, Begin(c))
BY DEF Ready, Begin

LEMMA StartRunStill ==
  ASSUME Still, NEW c \in Callers, StartRun(c)
  PROVE  StillInv'
<1> USE StillFacts, Facts
<1>1. Keeps(c) /\ (\A d \in Callers \ {c} : verdict'[d] = verdict[d])
  BY DEF StartRun, Keeps
<1>2. RoomKept
  BY StoreSliceRoom DEF StartRun
<1>3. /\ pc'[c] = "run" /\ verdict' = verdict /\ pc[c] = "answered" /\ client.fetches
      /\ run'[c] = Begin(call[c]) /\ UNCHANGED <<client, history, call, reply>>
  BY DEF StartRun
<1>4. Answered(c) /\ verdict[c] = "none"
  BY <1>3 DEF HonestInv, Answered
<1>5. /\ call[c] \in Calls /\ reply[c] = Prefetch(history[1], call[c]) /\ reply[c] # None
  BY <1>4 DEF HonestInv
<1>6. Faithful(c)'
  <2>1. 0 \in 0..Gas /\ Unrolled(call[c], ServerRead)[0] = Begin(call[c])
    BY <1>5, UnrolledRun, ServerReadAnswers, GasType
  <2>2. Len(Begin(call[c]).log) = 0 /\ ServerRead' = ServerRead /\ call'[c] = call[c]
    BY <1>3 DEF Begin, ServerRead
  <2> QED BY <1>3, <2>1, <2>2 DEF Faithful
<1>7. HonestInv(c)' /\ Verifies(c)'
  BY <1>3, <1>4, <1>5, <1>6 DEF HonestInv, Verifies, Answered, InRun, Fetching
<1>8. Ready(cache', run'[c])
  BY <1>3, BeginReady
<1> QED BY <1>1, <1>2, <1>3, <1>7, <1>8, KeepsStill

\* A read that ends with its value in the log: the server's value, or an excuse.
LEMMA GoStill ==
  ASSUME Still, NEW c \in Callers, Keeps(c), NEW value, Go(c, value), InRun(c), ~ Over(run[c]),
         [step |-> Now(c), value |-> value] \in Logged,
         UNCHANGED <<call, reply, verdict>>, pc'[c] = "run",
         RoomKept,
         HasRoom => Ready(cache, run'[c]),
         \/ value = IF Journaled(run[c]) THEN FromJournal(run[c]) ELSE ServerRead[Now(c)]
         \/ ReadsBlock(Now(c))
         \/ ~ HasRoom /\ Now(c).op = "run" /\ value = NoCode /\ Now(c).what \in history[1].code
  PROVE  StillInv'
<1> USE StillFacts, Facts
<1>1. /\ history' = history /\ client' = client /\ world' = world
  BY DEF Keeps
<1>2. run'[c] = Advance(run[c], value) /\ run[c] \in Runs /\ run[c].todo # <<>>
  BY DEF Go, Over
<1>3. /\ pc[c] # "idle" /\ verdict[c] = "none" /\ client.fetches /\ (Faithful(c) \/ Excused(c))
      /\ call[c] \in Calls /\ reply[c] = Prefetch(history[1], call[c]) /\ reply[c] # None
  BY DEF HonestInv, InRun, Answered
<1>4. /\ Len(run[c].log) + 1 \in DOMAIN run'[c].log
      /\ run'[c].log[Len(run[c].log) + 1] = [step |-> Now(c), value |-> value]
  <2>1. /\ Len(run'[c].log) = Len(run[c].log) + 1 /\ run'[c].log \in Seq(Logged)
        /\ run'[c].log[Len(run[c].log) + 1] = [step |-> Now(c), value |-> value]
    <3>1. Now(c) = Head(run[c].todo)
      BY DEF Now
    <3>2. Advance(run[c], value) \in Runs
      BY <1>2, <3>1, AdvanceType
    <3>3. /\ Len(Advance(run[c], value).log) = Len(run[c].log) + 1
          /\ Advance(run[c], value).log[Len(run[c].log) + 1] = [step |-> Now(c), value |-> value]
      BY <1>2, <3>1, AdvanceAt
    <3>4. Advance(run[c], value).log \in Seq(Logged)
      BY <3>2 DEF Runs
    <3> QED BY <1>2, <3>3, <3>4
  <2>2. Len(run[c].log) \in Nat
    BY <1>2 DEF Runs
  <2> QED BY <2>1, <2>2
<1>5. Faithful(c)' \/ Excused(c)'
  <2>1. CASE Excused(c)
    BY <1>1, <2>1, DoneStays
  <2>2. CASE /\ Faithful(c)
             /\ value = IF Journaled(run[c]) THEN FromJournal(run[c]) ELSE ServerRead[Now(c)]
    BY <1>1, <1>3, <2>2, GoFaithful
  <2>3. CASE ReadsBlock(Now(c))
    BY <1>4, <2>3 DEF Excused, Done, ReadsBlock
  <2>4. CASE ~ HasRoom /\ Now(c).op = "run" /\ value = NoCode /\ Now(c).what \in history[1].code
    <3>1. ~ HasRoom' /\ db' = history[1]
      BY <1>1, <2>4 DEF HasRoom, db
    <3> QED BY <1>4, <2>4, <3>1 DEF Excused, Done, LostCode
  <2> QED BY <1>3, <2>1, <2>2, <2>3, <2>4
<1>6. HonestInv(c)'
  BY <1>1, <1>3, <1>5 DEF HonestInv, Answered, InRun, Fetching
<1>7. Verifies(c)' /\ \A d \in Callers \ {c} : verdict'[d] = verdict[d]
  BY <1>3 DEF Verifies, LooksAtBlock
<1>8. HasRoom => Ready(cache', run'[c])
  BY DEF RoomKept, Ready
<1> QED BY <1>6, <1>7, <1>8, KeepsStill

LEMMA KnownStill ==
  ASSUME Still, NEW c \in Callers, Known(c)
  PROVE  StillInv'
<1> USE StillFacts, Facts
<1> DEFINE value == IF Journaled(run[c]) THEN FromJournal(run[c]) ELSE BlockValue(Now(c))
<1>1. /\ run[c] \in Runs /\ run[c].todo # <<>> /\ Now(c) \in Steps /\ InRun(c) /\ ~ Over(run[c])
  BY InHand DEF Known, Running, InRun
<1>2. [step |-> Now(c), value |-> value] \in Logged
  <2>1. CASE Journaled(run[c])
    BY <1>1, <2>1, JournalType DEF Now
  <2>2. CASE ~ Journaled(run[c])
    BY <1>1, <2>2, BlockValueType DEF Known
  <2> QED BY <2>1, <2>2
<1>3. Keeps(c) /\ Go(c, value) /\ UNCHANGED <<call, reply, verdict, cache>> /\ pc'[c] = "run"
  BY DEF Known, Keeps, Go, Running
<1>4. \/ value = IF Journaled(run[c]) THEN FromJournal(run[c]) ELSE ServerRead[Now(c)]
      \/ ReadsBlock(Now(c))
  BY DEF Known
<1>5. (ReadsAccount(Now(c)) /\ HasCode(value) /\ HasRoom) => Available(cache, value.code)
  <2>1. CASE Journaled(run[c])
    BY <1>1, <2>1, JournalReady DEF Now
  <2>2. CASE ReadsBlock(Now(c))
    BY <2>2 DEF ReadsAccount, AccountOps, ReadsBlock, BlockOps
  <2> QED BY <2>1, <2>2 DEF Known
<1> HIDE DEF value
<1>6. HasRoom => Ready(cache, run'[c])
  <2>1. run'[c] = Advance(run[c], value)
    BY <1>3 DEF Go
  <2> QED BY <1>1, <1>2, <1>5, <2>1, AdvanceReady DEF Now
<1> QED BY <1>1, <1>2, <1>3, <1>4, <1>6, SameCache, GoStill

\* Storing what the server said makes nothing unavailable.
LEMMA PutRoom ==
  ASSUME Still, NEW e \in Said(1), cache' = Put(cache, e),
         HasRoom => \A a \in Addr : (e.at = AccountPlace(a) /\ HasCode(GetAccount(history[1], a))) =>
                      Available(cache, GetAccount(history[1], a).code)
  PROVE  RoomKept
BY StillFacts, PutCodesKept, PutAvailable DEF RoomKept

LEMMA HitStill ==
  ASSUME Still, NEW c \in Callers, Hit(c)
  PROVE  StillInv'
<1> USE StillFacts, Facts
<1> DEFINE p == PlaceOf(Now(c))
           value == CachedValue(p)
<1>1. /\ run[c] \in Runs /\ run[c].todo # <<>> /\ Now(c) \in Steps /\ ~ ReadsBlock(Now(c))
      /\ InRun(c) /\ ~ Over(run[c]) /\ ~ Journaled(run[c])
  BY InHand DEF Hit, Looks, Running, InRun
<1>2. p.tier \in Tiers /\ Held(cache[p.tier], p)
  BY <1>1, PlaceKinds DEF Hit, Cached
<1>3. Entry(p, value) \in Said(1)
  BY <1>2, HeldSaid DEF CachedValue
<1>4. [step |-> Now(c), value |-> value] \in Logged
  BY <1>1, <1>3, HeldType
<1>5. value = ServerReads(history[1], Now(c))
  BY <1>1, <1>3, SaidFirst
<1>6. cache' = Put(cache, Entry(p, value))
  BY DEF Hit, Use
<1>7. Keeps(c) /\ Go(c, value) /\ UNCHANGED <<call, reply, verdict>> /\ pc'[c] = "run"
  BY DEF Hit, Keeps, Go, Looks, Running
<1> HIDE DEF value
<1>8. ASSUME HasRoom, NEW a \in Addr, p = AccountPlace(a), HasCode(GetAccount(history[1], a))
      PROVE  Available(cache, GetAccount(history[1], a).code)
  <2>1. Held(cache["account"], AccountPlace(a))
    BY <1>2, <1>8 DEF AccountPlace
  <2> QED BY <1>8, <2>1 DEF CodesKept
<1>9. RoomKept
  <2>1. Entry(p, value).at = p
    BY DEF Entry
  <2> HIDE DEF p
  <2> QED BY <1>3, <1>6, <1>8, <2>1, PutRoom
<1>10. ASSUME HasRoom, ReadsAccount(Now(c)), HasCode(value)
       PROVE  Available(cache, value.code)
  <2>1. /\ p = AccountPlace(Now(c).of) /\ Now(c).of \in Addr
        /\ value = GetAccount(history[1], Now(c).of)
    BY <1>1, <1>5, <1>10, StepKinds DEF PlaceOf, ServerReads, ReadsAccount, AccountOps
  <2> QED BY <1>8, <1>10, <2>1
<1>11. HasRoom => Ready(cache, run'[c])
  <2>1. run'[c] = Advance(run[c], value)
    BY <1>7 DEF Go
  <2> QED BY <1>1, <1>4, <1>10, <2>1, AdvanceReady DEF Now
<1>12. value = IF Journaled(run[c]) THEN FromJournal(run[c]) ELSE ServerRead[Now(c)]
  BY <1>1, <1>5 DEF ServerRead
<1> QED BY <1>1, <1>4, <1>7, <1>9, <1>11, <1>12, GoStill

LEMMA NoSuchCodeStill ==
  ASSUME Still, NEW c \in Callers, NoSuchCode(c)
  PROVE  StillInv'
<1> USE StillFacts, Facts
<1>1. /\ run[c] \in Runs /\ run[c].todo # <<>> /\ Now(c) \in Steps /\ Now(c).op = "run"
      /\ InRun(c) /\ ~ Over(run[c]) /\ ~ Journaled(run[c]) /\ ~ Cached(PlaceOf(Now(c)))
  BY InHand DEF NoSuchCode, Misses, Looks, Running, InRun
<1>2. [step |-> Now(c), value |-> NoCode] \in Logged
  BY <1>1, LoggedValues DEF RunSteps
<1>3. Keeps(c) /\ Go(c, NoCode) /\ UNCHANGED <<call, reply, verdict, cache>> /\ pc'[c] = "run"
  BY DEF NoSuchCode, Keeps, Go, Misses, Looks, Running
<1>4. ~ ReadsAccount(Now(c))
  BY <1>1 DEF ReadsAccount, AccountOps
<1>5. HasRoom => Ready(cache, run'[c])
  <2>1. run'[c] = Advance(run[c], NoCode)
    BY <1>3 DEF Go
  <2> QED BY <1>1, <1>2, <1>4, <2>1, AdvanceReady DEF Now
<1>6. \/ NoCode = IF Journaled(run[c]) THEN FromJournal(run[c]) ELSE ServerRead[Now(c)]
      \/ ~ HasRoom /\ Now(c).op = "run" /\ NoCode = NoCode /\ Now(c).what \in history[1].code
  <2>1. CASE Now(c).what \notin history[1].code
    BY <1>1, <1>4, <2>1 DEF ServerRead, ServerReads
  <2>2. CASE Now(c).what \in history[1].code
    <3>1. ASSUME HasRoom
          PROVE  FALSE
      <4>1. Ready(cache, run[c]) /\ 1 \in DOMAIN run[c].todo /\ run[c].todo[1] = Now(c)
        BY <1>1, <3>1 DEF Now, Runs
      <4>2. Held(cache["code"], CodePlace(Now(c).what))
        BY <1>1, <2>2, <4>1 DEF Ready, Available
      <4>3. PlaceOf(Now(c)) = CodePlace(Now(c).what)
        BY <1>1, <1>4 DEF PlaceOf
      <4> QED BY <1>1, <4>2, <4>3 DEF Cached, CodePlace
    <3> QED BY <1>1, <2>2, <3>1
  <2> QED BY <2>1, <2>2
<1> QED BY <1>1, <1>2, <1>3, <1>5, <1>6, SameCache, GoStill

LEMMA GetStill ==
  ASSUME Still, NEW c \in Callers, Get(c)
  PROVE  StillInv'
<1> USE StillFacts, Facts
<1>1. Keeps(c) /\ (\A d \in Callers \ {c} : verdict'[d] = verdict[d]) /\ RoomKept
  BY SameCache DEF Get, Keeps
<1>2. /\ pc'[c] = "got" /\ pc[c] = "run" /\ ~ Over(run[c]) /\ ~ Journaled(run[c])
      /\ UNCHANGED <<client, history, world, cache, call, reply, run, verdict>>
  BY DEF Get, Misses, Looks, Running
<1>3. HonestInv(c)' /\ Verifies(c)'
  <2>1. (Faithful(c) \/ Excused(c)) => (Faithful(c)' \/ Excused(c)')
    BY <1>2 DEF Faithful, Excused, ServerRead, Done, LostCode, ReadsBlock, HasRoom, db
  <2> QED BY <1>2, <2>1 DEF HonestInv, Verifies, Answered, InRun, Fetching
<1>4. HasRoom => (InRun(c)' => Ready(cache', run'[c]))
  BY <1>2 DEF InRun
<1> QED BY <1>1, <1>2, <1>3, <1>4, KeepsStill

LEMMA GetItsCodeStill ==
  ASSUME Still, NEW c \in Callers, GetItsCode(c)
  PROVE  StillInv'
<1> USE StillFacts, Facts
<1>1. Keeps(c) /\ (\A d \in Callers \ {c} : verdict'[d] = verdict[d]) /\ RoomKept
  BY SameCache DEF GetItsCode, Keeps
<1>2. /\ pc'[c] = "coded" /\ pc[c] = "got"
      /\ UNCHANGED <<client, history, world, cache, call, reply, run, verdict>>
  BY DEF GetItsCode
<1>3. HonestInv(c)' /\ Verifies(c)'
  <2>1. (Faithful(c) \/ Excused(c)) => (Faithful(c)' \/ Excused(c)')
    BY <1>2 DEF Faithful, Excused, ServerRead, Done, LostCode, ReadsBlock, HasRoom, db
  <2> QED BY <1>2, <2>1 DEF HonestInv, Verifies, Answered, InRun, Fetching
<1>4. HasRoom => (InRun(c)' => Ready(cache', run'[c]))
  BY <1>2 DEF InRun
<1> QED BY <1>1, <1>2, <1>3, <1>4, KeepsStill

\* Code and account come from the server: the code is in the cache before its account is.
LEMMA ReadFirst ==
  ASSUME Still, NEW c \in Callers, Fetching(c)
  PROVE  /\ run[c] \in Runs /\ run[c].todo # <<>> /\ Now(c) \in AccountSteps \cup SlotSteps
         /\ got[c] = ServerReads(history[1], Now(c))
         /\ Entry(PlaceOf(Now(c)), got[c]) \in Said(1)
         /\ [step |-> Now(c), value |-> got[c]] \in Logged
         /\ InRun(c) /\ ~ Over(run[c]) /\ ~ Journaled(run[c])
<1>1. CallerInv(c) /\ run[c] \in Runs /\ world = 1 /\ HonestInv(c)
  BY StillFacts, Facts
<1>2. /\ Now(c) \in AccountSteps \cup SlotSteps
      /\ \E w \in 1..1 : got[c] = ServerReads(history[w], Now(c))
  BY <1>1 DEF CallerInv, ReadInv
<1>3. got[c] = ServerReads(history[1], Now(c))
  <2>1. \A w \in 1..1 : w = 1
    OBVIOUS
  <2> QED BY <1>2, <2>1
<1>4. /\ run[c].todo # <<>> /\ Entry(PlaceOf(Now(c)), got[c]) \in Said(1)
      /\ [step |-> Now(c), value |-> got[c]] \in Logged
  BY <1>1, StillFacts, AnswerSaid
<1>5. InRun(c) /\ ~ Over(run[c]) /\ ~ Journaled(run[c])
  BY <1>1 DEF InRun, Fetching, HonestInv
<1> QED BY <1>1, <1>2, <1>3, <1>4, <1>5

LEMMA StoreCodeStill ==
  ASSUME Still, NEW c \in Callers, StoreCode(c)
  PROVE  StillInv'
<1> USE StillFacts, Facts
<1>1. Keeps(c) /\ (\A d \in Callers \ {c} : verdict'[d] = verdict[d])
  BY DEF StoreCode, Keeps
<1>2. /\ pc'[c] = "store" /\ pc[c] = "coded"
      /\ UNCHANGED <<client, history, world, call, reply, run, got, code, verdict>>
  BY DEF StoreCode
<1>3. /\ Now(c).of \in Addr /\ ReadsAccount(Now(c)) /\ HasCode(got[c])
      /\ code[c] = GetCode(history[1], Now(c).of)
      /\ got[c] = GetAccount(history[1], Now(c).of)
  <2>1. Fetching(c)
    BY <1>2 DEF Fetching
  <2>2. /\ Now(c) \in AccountSteps \cup SlotSteps /\ got[c] = ServerReads(history[1], Now(c))
    BY <2>1, ReadFirst
  <2>3. CodeInv(c)
    BY DEF CallerInv
  <2>4. ReadsAccount(Now(c)) /\ HasCode(got[c]) /\ \E w \in 1..1 : code[c] = GetCode(history[w], Now(c).of)
    BY <1>2, <2>3 DEF CodeInv
  <2>5. \A w \in 1..1 : w = 1
    OBVIOUS
  <2>6. Now(c).of \in Addr
    BY <2>2, StepKinds DEF AccountSteps, SlotSteps
  <2>7. ServerReads(history[1], Now(c)) = GetAccount(history[1], Now(c).of)
    BY <2>4 DEF ServerReads, ReadsAccount, AccountOps
  <2> QED BY <2>2, <2>4, <2>5, <2>6, <2>7
<1> DEFINE e == Entry(CodePlace(got[c].code), code[c])
<1>4. CASE code[c] = None
  <2>1. cache' = cache
    BY <1>4 DEF StoreCode
  <2>2. RoomKept
    BY <2>1, SameCache
  <2>3. got[c].code \notin history[1].code
    <3>1. HasCode(history[1].acct[Now(c).of])
      BY <1>3 DEF GetAccount
    <3>2. history[1] \in Rows /\ history[1].acct[Now(c).of].code # None
      <4>1. history[1] \in Rows
        BY HistoryType
      <4>2. GetAccount(history[1], Now(c).of) \in AccountInfo
        BY <1>3, <4>1, RowsRead DEF HasCode
      <4> QED BY <4>1, <4>2, MarkersDiffer DEF AccountInfo, GetAccount
    <3> QED BY <1>3, <1>4, <3>1, <3>2 DEF GetCode, GetAccount
  <2>4. Available(cache', got'[c].code)
    BY <1>2, <2>3 DEF Available
  <2>5. HonestInv(c)' /\ Verifies(c)'
    <3>1. (Faithful(c) \/ Excused(c)) => (Faithful(c)' \/ Excused(c)')
      BY <1>2 DEF Faithful, Excused, ServerRead, Done, LostCode, ReadsBlock, HasRoom, db
    <3> QED BY <1>2, <3>1 DEF HonestInv, Verifies, Answered, InRun, Fetching
  <2>6. HasRoom => (InRun(c)' => Ready(cache', run'[c]))
    BY <1>2, <2>1 DEF InRun
  <2> QED BY <1>1, <1>2, <2>2, <2>4, <2>5, <2>6, KeepsStill
<1>5. CASE code[c] # None
  <2>1. cache' = Put(cache, e)
    BY <1>5 DEF StoreCode
  <2>2. e \in Said(1) /\ e.at = CodePlace(got[c].code)
    <3>1. 1 \in 1..1
      OBVIOUS
    <3>2. HasCode(history[1].acct[Now(c).of]) /\ GetCode(history[1], Now(c).of) # None
      BY <1>3, <1>5 DEF GetAccount
    <3>3. <<1, 1, Now(c).of>> \in AskedFor(1)
      BY <1>3, <3>1, <3>2 DEF AskedFor
    <3>4. e \in CodeEntries(1)
      BY <1>3, <3>3 DEF CodeEntries, GetAccount
    <3> QED BY <3>4 DEF Said, Entry
  <2>3. \A a \in Addr : e.at # AccountPlace(a)
    BY <2>2 DEF CodePlace, AccountPlace
  <2> HIDE DEF e
  <2>4. RoomKept
    BY <2>1, <2>2, <2>3, PutRoom
  <2>5. Available(cache', got'[c].code)
    <3>1. CodePlace(got[c].code).tier = "code"
      BY DEF CodePlace
    <3>2. Held(Put(cache, e)["code"], CodePlace(got[c].code))
      BY <2>2, <3>1, PutHolds
    <3> QED BY <1>2, <2>1, <3>2 DEF Available
  <2>6. HonestInv(c)' /\ Verifies(c)'
    <3>1. (Faithful(c) \/ Excused(c)) => (Faithful(c)' \/ Excused(c)')
      BY <1>2 DEF Faithful, Excused, ServerRead, Done, LostCode, ReadsBlock, HasRoom, db
    <3> QED BY <1>2, <3>1 DEF HonestInv, Verifies, Answered, InRun, Fetching
  <2>7. HasRoom => (InRun(c)' => Ready(cache', run'[c]))
    BY <1>2, <2>1, <2>2, PutReady DEF InRun
  <2> QED BY <1>1, <1>2, <2>4, <2>5, <2>6, <2>7, KeepsStill
<1> QED BY <1>4, <1>5

LEMMA StoreStill ==
  ASSUME Still, NEW c \in Callers, Store(c)
  PROVE  StillInv'
<1> USE StillFacts, Facts
<1> DEFINE e == Entry(PlaceOf(Now(c)), got[c])
<1>1. Fetching(c)
  BY DEF Store, Fetching
<1>2. /\ run[c] \in Runs /\ run[c].todo # <<>> /\ Now(c) \in AccountSteps \cup SlotSteps
      /\ got[c] = ServerReads(history[1], Now(c))
      /\ e \in Said(1) /\ [step |-> Now(c), value |-> got[c]] \in Logged
      /\ InRun(c) /\ ~ Over(run[c]) /\ ~ Journaled(run[c])
  BY <1>1, ReadFirst
<1>3. /\ Keeps(c) /\ Go(c, got[c]) /\ UNCHANGED <<call, reply, verdict>> /\ pc'[c] = "run"
      /\ cache' = Put(cache, e)
  BY DEF Store, Keeps, Go
<1>4. Now(c) \in Steps
  BY <1>2 DEF AccountSteps, SlotSteps
<1>5. ASSUME HasRoom, ReadsAccount(Now(c)), HasCode(got[c])
      PROVE  Available(cache, got[c].code)
  <2>1. CASE pc[c] = "store"
    BY <1>5, <2>1
  <2>2. CASE pc[c] = "got" /\ ~ NeedsCode(c)
    <3>1. Held(cache["code"], CodePlace(got[c].code))
      BY <1>5, <2>2 DEF NeedsCode, Cached, CodePlace
    <3> QED BY <3>1 DEF Available
  <2> QED BY <2>1, <2>2 DEF Store
<1>6. ASSUME HasRoom, NEW a \in Addr, e.at = AccountPlace(a), HasCode(GetAccount(history[1], a))
      PROVE  Available(cache, GetAccount(history[1], a).code)
  <2>1. CASE Now(c) \in AccountSteps
    <3>1. a = Now(c).of
      <4>1. PlaceOf(Now(c)) = AccountPlace(Now(c).of)
        BY <2>1 DEF PlaceOf, AccountSteps, ReadsAccount, AccountOps
      <4> QED BY <1>6, <4>1 DEF Entry, AccountPlace
    <3>2. ReadsAccount(Now(c)) /\ got[c] = GetAccount(history[1], a)
      BY <1>2, <2>1, <3>1 DEF ServerReads, AccountSteps, ReadsAccount, AccountOps
    <3> QED BY <1>5, <1>6, <3>2
  <2>2. CASE Now(c) \in SlotSteps
    <3>1. PlaceOf(Now(c)) = SlotPlace(Now(c).of, Now(c).what)
      BY <2>2 DEF PlaceOf, SlotSteps, ReadsAccount, AccountOps
    <3> QED BY <1>6, <3>1 DEF Entry, AccountPlace, SlotPlace
  <2> QED BY <1>2, <2>1, <2>2
<1>7. RoomKept
  <2> HIDE DEF e
  <2> QED BY <1>2, <1>3, <1>6, PutRoom
<1>8. HasRoom => Ready(cache, run'[c])
  <2>1. run'[c] = Advance(run[c], got[c])
    BY <1>3 DEF Go
  <2> QED BY <1>2, <1>5, <2>1, AdvanceReady DEF Now
<1>9. got[c] = IF Journaled(run[c]) THEN FromJournal(run[c]) ELSE ServerRead[Now(c)]
  BY <1>2, <1>4 DEF ServerRead
<1> QED BY <1>2, <1>3, <1>7, <1>8, <1>9, GoStill

LEMMA FinishStill ==
  ASSUME Still, NEW c \in Callers, Finish(c)
  PROVE  StillInv'
<1> USE StillFacts, Facts
<1>1. Keeps(c) /\ (\A d \in Callers \ {c} : verdict'[d] = verdict[d]) /\ RoomKept
  BY SameCache DEF Finish, Keeps
<1>2. /\ pc[c] = "run" /\ Over(run[c]) /\ pc'[c] = "idle"
      /\ verdict'[c] = Verdict(c, run[c])
      /\ UNCHANGED <<client, history, world, cache, call, reply, run>>
  BY DEF Finish
<1>3. /\ call[c] \in Calls /\ reply[c] = Prefetch(history[1], call[c]) /\ reply[c] # None
      /\ client.fetches /\ (Faithful(c) \/ Excused(c))
  BY <1>2 DEF HonestInv, InRun, Answered
<1>4. ASSUME verdict'[c] = "mismatch"
      PROVE  Excused(c)
  <2> SUFFICES ASSUME Faithful(c)
               PROVE  FALSE
    BY <1>3
  <2>1. PICK n \in 0..Gas : run[c] = Unrolled(call[c], ServerRead)[n]
    BY DEF Faithful
  <2>2. run[c] = RunOf(call[c], ServerRead)
    BY <1>2, <1>3, <2>1, OverStays, ServerReadAnswers
  <2>3. reply[c].outcome = Outcome(RunOf(call[c], ServerRead))
    BY <1>3 DEF Prefetch, ServerRead
  <2> QED BY <1>2, <1>4, <2>2, <2>3 DEF Verdict
<1>5. Verifies(c)'
  BY <1>2, <1>3, <1>4 DEF Verifies, LooksAtBlock, LosesCode, Excused, Done, ReadsBlock, LostCode, HasRoom, db
<1>6. HonestInv(c)'
  BY <1>2, <1>3 DEF HonestInv, Answered, InRun, Fetching
<1> QED BY <1>1, <1>2, <1>5, <1>6, KeepsStill DEF InRun

----------------------------------------------------------------------------
\* The browser client has room, and so it has whatever the slice holds.
LEMMA MapHasRoom ==
  ASSUME client \in Clients, ~ client.fetches
  PROVE  HasRoom
<1>1. Cardinality(Places) <= client.capacity /\ client.capacity \in Nat
  BY BrowserHasRoom, ClientType
<1>2. ASSUME NEW t \in Tiers
      PROVE  Cardinality(TierOf(Places, t)) <= client.capacity
  <2>1. TierOf(Places, t) \subseteq Places
    BY DEF TierOf
  <2>2. Cardinality(TierOf(Places, t)) <= Cardinality(Places)
        /\ IsFiniteSet(TierOf(Places, t))
    BY <2>1, PlacesAreFinite, FS_Subset
  <2>3. Cardinality(TierOf(Places, t)) \in Nat /\ Cardinality(Places) \in Nat
    BY <2>2, PlacesAreFinite, FS_CardinalityType
  <2> QED BY <1>1, <2>2, <2>3
<1> QED BY <1>2 DEF HasRoom

\* A local read is the server's, if the server's run makes it too.
LEMMA MapAgrees ==
  ASSUME Still, NEW c \in Callers, pc[c] = "answered", HasRoom,
         NEW stored, stored = StoreSlice(cache, c),
         NEW s \in Recorded(RunOf(call[c], ServerRead)), s \in Steps, ~ ReadsBlock(s),
         s.op = "caller" => s.of = call[c].from,
         s.op = "run" => Available(stored, s.what),
         (s.op \in {"call", "delegatecall"} /\ GetAccount(history[1], s.of) # None) =>
           AccountPlace(s.of) \in PlacesIn(reply[c].slice)
  PROVE  /\ MapReads(stored, s) = ServerReads(history[1], s)
         /\ (ReadsAccount(s) /\ HasCode(MapReads(stored, s))) =>
              Available(stored, MapReads(stored, s).code)
<1> USE StillFacts, Facts
<1> DEFINE R == RunOf(call[c], ServerRead)
           slice == reply[c].slice
           Has(p) == \E i \in 1..Len(slice) : slice[i].at = p
<1>1. /\ call[c] \in Calls /\ R \in Runs /\ slice \in Seq(Said(1))
      /\ slice = Slice(history[1], call[c], R)
  BY SliceOf
<1>2. /\ \A a \in Accesses(call[c], R) : (a \in Addr /\ GetAccount(history[1], a) # None) =>
           Has(AccountPlace(a))
      /\ \A x \in SlotsRead(R) : Has(SlotPlace(x.of, x.what))
  <2> DEFINE own == Slice(history[1], call[c], R)
             In(p) == \E i \in 1..Len(own) : own[i].at = p
  <2>1. 1 \in Nat \ {0}
    OBVIOUS
  <2>2. /\ \A a \in Addr : In(AccountPlace(a)) <=>
             a \in Accesses(call[c], R) /\ GetAccount(history[1], a) # None
        /\ \A x \in SlotsRead(R) : In(SlotPlace(x.of, x.what))
    <3> HIDE DEF R
    <3> QED BY <1>1, <2>1, SliceHolds
  <2>3. slice = own
    BY <1>1
  <2> HIDE DEF own, R
  <2> QED BY <2>2, <2>3
<1>3. stored = Stored(cache, slice) /\ stored \in Caches(1)
  <2>1. stored = Stored(cache, slice)
    BY DEF StoreSlice
  <2> QED BY <1>1, <2>1, StoredSaid
<1>4. CodesKept(stored)
  BY <1>1, <1>3, StoredCodesKept
<1>5. ASSUME NEW p, p.tier \in Tiers, Has(p)
      PROVE  Held(stored[p.tier], p)
  BY <1>1, <1>3, <1>5, StoredPlaces
<1> DEFINE place == PlaceOf(s)
<1>6. place.tier \in Tiers
  BY PlaceKinds
<1>7. CASE Held(stored[place.tier], place)
  <2>1. MapReads(stored, s) = ServerReads(history[1], s)
    BY <1>3, <1>7, HeldFirst DEF MapReads
  <2>2. ASSUME ReadsAccount(s), HasCode(MapReads(stored, s))
        PROVE  Available(stored, MapReads(stored, s).code)
    <3>1. s \in AccountSteps /\ s.of \in Addr
      BY <2>2, StepKinds DEF AccountSteps
    <3>2. place = AccountPlace(s.of) /\ place.tier = "account"
      BY <3>1, PlaceKinds DEF AccountPlace
    <3>3. MapReads(stored, s) = GetAccount(history[1], s.of)
      BY <2>1, <2>2 DEF ServerReads, ReadsAccount, AccountOps
    <3> QED BY <1>4, <1>7, <2>2, <3>1, <3>2, <3>3 DEF CodesKept
  <2> QED BY <2>1, <2>2
<1>8. CASE ~ Held(stored[place.tier], place)
  <2>1. ~ Has(place)
    BY <1>5, <1>6, <1>8
  <2>2. MapReads(stored, s) = Absent(s)
    BY <1>8 DEF MapReads
  <2> HIDE DEF Has
  <2>3. CASE s \in AccountSteps
    <3>1. place = AccountPlace(s.of) /\ ReadsAccount(s) /\ s.of \in Addr
      BY <2>3, PlaceKinds, StepKinds DEF AccountSteps
    <3>2. ServerReads(history[1], s) = GetAccount(history[1], s.of) /\ Absent(s) = None
      BY <3>1 DEF ServerReads, Absent, ReadsAccount, AccountOps
    <3>3. s.op \in AccountOps
      BY <3>1 DEF ReadsAccount
    <3>4. CASE s.op \in {"caller", "balance"}
      <4>1. s.of \in Accesses(call[c], R)
        BY <3>4 DEF Accesses
      <4>2. GetAccount(history[1], s.of) = None
        BY <1>2, <2>1, <3>1, <4>1
      <4> QED BY <2>2, <3>2, <4>2 DEF HasCode
    <3>5. CASE s.op \in {"call", "delegatecall"}
      <4>1. AccountPlace(s.of) \in PlacesIn(slice) => Has(place)
        BY <1>1, <3>1 DEF PlacesIn, Has
      <4>2. GetAccount(history[1], s.of) = None
        BY <2>1, <3>5, <4>1
      <4> QED BY <2>2, <3>2, <4>2 DEF HasCode
    <3> QED BY <3>3, <3>4, <3>5 DEF AccountOps
  <2>4. CASE s \in RunSteps
    <3>1. place = CodePlace(s.what) /\ s.op = "run" /\ ~ ReadsAccount(s)
      BY <2>4, PlaceKinds, StepKinds DEF RunSteps
    <3>2. s.what \notin history[1].code
      BY <1>8, <3>1 DEF Available, CodePlace
    <3>3. ServerReads(history[1], s) = NoCode /\ Absent(s) = NoCode
      BY <3>1, <3>2 DEF ServerReads, Absent
    <3> QED BY <2>2, <3>1, <3>3
  <2>5. CASE s \in SlotSteps
    <3>1. place = SlotPlace(s.of, s.what) /\ s.op = "sload"
      BY <2>5, PlaceKinds DEF SlotSteps
    <3>2. s \in SlotsRead(R)
      BY <3>1 DEF SlotsRead
    <3>3. Has(place)
      BY <1>2, <3>1, <3>2 DEF Has
    <3> QED BY <2>1, <3>3
  <2> QED BY <2>3, <2>4, <2>5, StepCases
<1> QED BY <1>7, <1>8

\* What a run does next, it has done at its end.
LEMMA NextInLog ==
  ASSUME NEW c \in Calls, NEW read, Answers(read), NEW n \in 0..(Gas - 1),
         NEW r, r = Unrolled(c, read)[n], ~ Over(r),
         NEW v, v = IF Journaled(r) THEN FromJournal(r) ELSE read[Head(r.todo)]
  PROVE  /\ r \in Runs /\ r.todo # <<>> /\ Head(r.todo) \in Steps
         /\ [step |-> Head(r.todo), value |-> v] \in Logged
         /\ Unrolled(c, read)[n + 1] = Advance(r, v)
         /\ \E i \in DOMAIN RunOf(c, read).log :
              RunOf(c, read).log[i] = [step |-> Head(r.todo), value |-> v]
<1> DEFINE U == Unrolled(c, read)
<1>1. n \in 0..Gas /\ n + 1 \in 1..Gas /\ n + 1 \in 0..Gas /\ (n + 1) - 1 = n
  BY GasType
<1>2. r \in Runs /\ U[n + 1] = StepOf(r, read)
  BY <1>1, UnrolledRun
<1>3. \A i \in DOMAIN U[n + 1].log :
        i \in DOMAIN RunOf(c, read).log /\ RunOf(c, read).log[i] = U[n + 1].log[i]
  BY <1>1, LogStays
<1> HIDE DEF U
<1>4. r.todo # <<>> /\ Head(r.todo) \in Steps
  BY <1>2, HeadTailProperties DEF Over, Runs
<1>5. [step |-> Head(r.todo), value |-> v] \in Logged
  BY <1>2, <1>4, JournalType DEF Answers
<1>6. U[n + 1] = Advance(r, v)
  BY <1>2 DEF StepOf
<1>7. Len(r.log) + 1 \in DOMAIN U[n + 1].log
      /\ U[n + 1].log[Len(r.log) + 1] = [step |-> Head(r.todo), value |-> v]
  <2>1. Advance(r, v) \in Runs
    BY <1>2, <1>4, <1>5, AdvanceType
  <2>2. Len(Advance(r, v).log) = Len(r.log) + 1
        /\ Advance(r, v).log[Len(r.log) + 1] = [step |-> Head(r.todo), value |-> v]
    BY <1>2, <1>4, <1>5, AdvanceAt
  <2>3. Advance(r, v).log \in Seq(Logged) /\ Len(r.log) \in Nat
    BY <1>2, <2>1 DEF Runs
  <2> QED BY <1>6, <2>2, <2>3
<1>8. \E i \in DOMAIN RunOf(c, read).log :
        RunOf(c, read).log[i] = [step |-> Head(r.todo), value |-> v]
  BY <1>3, <1>7
<1> QED BY <1>2, <1>4, <1>5, <1>6, <1>8 DEF U

\* Only the caller of the call is read as a caller.
CallersOnly(r, a) == \A i \in DOMAIN r.todo : r.todo[i].op = "caller" => r.todo[i].of = a

LEMMA AdvanceCallers ==
  ASSUME NEW r \in Runs, r.todo # <<>>, NEW v, [step |-> Head(r.todo), value |-> v] \in Logged,
         NEW a, CallersOnly(r, a)
  PROVE  CallersOnly(Advance(r, v), a)
<1> SUFFICES ASSUME NEW i \in DOMAIN Advance(r, v).todo, Advance(r, v).todo[i].op = "caller"
             PROVE  Advance(r, v).todo[i].of = a
  BY DEF CallersOnly
<1>1. \A j \in DOMAIN Unfolds(Head(r.todo), v) : Unfolds(Head(r.todo), v)[j].op # "caller"
  BY UnfoldsAt
<1>2. \E j \in DOMAIN r.todo : Advance(r, v).todo[i] = r.todo[j]
  BY <1>1, AdvanceAt
<1> QED BY <1>2 DEF CallersOnly

MapRead(caches) == [step \in Steps |-> MapReads(caches, step)]
Blameless(c, r) ==
  \A i \in DOMAIN r.log : ~ ReadsBlock(r.log[i].step) /\ ~ LeftOut(c, r.log[i])

\* The map's run is the server's run, unless it looks at the block or lacks an account
\* that the server left out.
LEMMA MapRuns ==
  ASSUME Still, NEW c \in Callers, pc[c] = "answered", ~ client.fetches,
         NEW stored, stored = StoreSlice(cache, c),
         NEW local, local = MapRead(stored), Blameless(c, RunOf(call[c], local))
  PROVE  RunOf(call[c], local) = RunOf(call[c], ServerRead)
<1> USE StillFacts, Facts
<1> DEFINE L == Unrolled(call[c], local)
           S == Unrolled(call[c], ServerRead)
           a == call[c].from
           Same(n) == /\ n \in 0..Gas /\ L[n] = S[n]
                      /\ Ready(stored, L[n]) /\ CallersOnly(L[n], a)
           N == {n \in 0..Gas : Same(n)}
<1>1. Gas \in Nat /\ Gas \in 0..Gas /\ 0 \in 0..Gas
  BY GasType
<1>2. HasRoom /\ call[c] \in Calls
  BY MapHasRoom, SliceOf
<1>3. stored \in Caches(1)
  BY SliceOf, StoredSaid DEF StoreSlice
<1>4. Answers(local) /\ Answers(ServerRead)
  BY <1>3, MapReadsType, ServerReadAnswers DEF Answers, MapRead
<1>5. /\ L[0] = Begin(call[c]) /\ S[0] = Begin(call[c])
      /\ L[Gas] = RunOf(call[c], local) /\ S[Gas] = RunOf(call[c], ServerRead)
      /\ \A n \in 1..Gas : L[n] = StepOf(L[n - 1], local) /\ S[n] = StepOf(S[n - 1], ServerRead)
  BY <1>2, <1>4, UnrolledRun
<1>6. 0 \in N
  <2>1. CallersOnly(Begin(call[c]), a)
    BY DEF CallersOnly, Begin
  <2>2. Ready(stored, Begin(call[c]))
    BY BeginReady
  <2> HIDE DEF L, S
  <2> QED BY <1>1, <1>5, <2>1, <2>2
<1>7. ASSUME NEW n \in 0..(Gas - 1), n \in N
      PROVE  n + 1 \in N
  <2>1. n \in 0..Gas /\ n + 1 \in 1..Gas /\ n + 1 \in 0..Gas /\ (n + 1) - 1 = n
    BY <1>1
  <2>2. L[n] = S[n] /\ Ready(stored, L[n]) /\ CallersOnly(L[n], a)
    BY <1>7
  <2>3. CASE Over(L[n])
    <3> HIDE DEF L, S
    <3>1. L[n + 1] = L[n] /\ S[n + 1] = S[n]
      BY <1>5, <2>1, <2>2, <2>3 DEF StepOf
    <3> QED BY <2>1, <2>2, <3>1
  <2>4. CASE ~ Over(L[n])
    <3> DEFINE r == L[n]
               s == Head(r.todo)
               v == IF Journaled(r) THEN FromJournal(r) ELSE local[s]
               u == IF Journaled(r) THEN FromJournal(r) ELSE ServerRead[s]
    <3>1. /\ r \in Runs /\ r.todo # <<>> /\ s \in Steps
          /\ [step |-> s, value |-> v] \in Logged
          /\ L[n + 1] = Advance(r, v)
          /\ \E i \in DOMAIN RunOf(call[c], local).log :
               RunOf(call[c], local).log[i] = [step |-> s, value |-> v]
      <4>1. r = Unrolled(call[c], local)[n] /\ ~ Over(r)
        BY <2>4
      <4> HIDE DEF r, L
      <4>2. v = IF Journaled(r) THEN FromJournal(r) ELSE local[Head(r.todo)]
        OBVIOUS
      <4> HIDE DEF v
      <4>3. /\ r \in Runs /\ r.todo # <<>> /\ Head(r.todo) \in Steps
            /\ [step |-> Head(r.todo), value |-> v] \in Logged
            /\ Unrolled(call[c], local)[n + 1] = Advance(r, v)
            /\ \E i \in DOMAIN RunOf(call[c], local).log :
                 RunOf(call[c], local).log[i] = [step |-> Head(r.todo), value |-> v]
        BY <1>2, <1>4, <4>1, <4>2, NextInLog
      <4> QED BY <4>3 DEF L, s
    <3>2. /\ S[n + 1] = Advance(r, u)
          /\ \E i \in DOMAIN RunOf(call[c], ServerRead).log :
               RunOf(call[c], ServerRead).log[i] = [step |-> s, value |-> u]
      <4>1. r = Unrolled(call[c], ServerRead)[n] /\ ~ Over(r)
        BY <2>2, <2>4
      <4> HIDE DEF r, S
      <4>2. u = IF Journaled(r) THEN FromJournal(r) ELSE ServerRead[Head(r.todo)]
        OBVIOUS
      <4> HIDE DEF u
      <4> QED BY <1>2, <1>4, <4>1, <4>2, NextInLog DEF S
    <3> HIDE DEF L, S
    <3>3. s \in Recorded(RunOf(call[c], ServerRead))
      BY <3>2 DEF Recorded
    <3>4. ~ ReadsBlock(s) /\ ~ LeftOut(c, [step |-> s, value |-> v])
      <4> HIDE DEF s, v
      <4> QED BY <3>1 DEF Blameless
    <3>5. (s.op \in {"call", "delegatecall"} /\ GetAccount(history[1], s.of) # None) =>
            AccountPlace(s.of) \in PlacesIn(reply[c].slice)
      <4> HIDE DEF s, v
      <4> QED BY <3>4 DEF LeftOut, db
    <3>6. 1 \in DOMAIN r.todo /\ r.todo[1] = s
      BY <3>1 DEF Runs
    <3>7. (s.op = "caller" => s.of = a) /\ (s.op = "run" => Available(stored, s.what))
      <4> HIDE DEF s, r
      <4> QED BY <2>2, <3>6 DEF CallersOnly, Ready, r
    <3>8. /\ MapReads(stored, s) = ServerReads(history[1], s)
          /\ (ReadsAccount(s) /\ HasCode(MapReads(stored, s))) =>
               Available(stored, MapReads(stored, s).code)
      <4> HIDE DEF s
      <4> QED BY <1>2, <3>1, <3>3, <3>4, <3>5, <3>7, MapAgrees
    <3>9. local[s] = MapReads(stored, s) /\ ServerRead[s] = ServerReads(history[1], s)
      BY <3>1 DEF ServerRead, MapRead
    <3>10. v = u
      BY <3>8, <3>9
    <3>11. (ReadsAccount(s) /\ HasCode(v)) => Available(stored, v.code)
      <4>1. CASE Journaled(r)
        <5> HIDE DEF r
        <5> QED BY <2>2, <3>1, <4>1, JournalReady DEF r
      <4>2. CASE ~ Journaled(r)
        BY <3>8, <3>9, <4>2
      <4> QED BY <4>1, <4>2
    <3> HIDE DEF v, u
    <3>12. Ready(stored, L[n + 1]) /\ CallersOnly(L[n + 1], a)
      BY <2>2, <3>1, <3>11, AdvanceReady, AdvanceCallers
    <3> QED BY <2>1, <3>1, <3>2, <3>10, <3>12
  <2> QED BY <2>3, <2>4
<1>8. 0..Gas \subseteq N
  <2> HIDE DEF N
  <2> QED BY <1>1, <1>6, <1>7, SetInduction
<1>9. Gas \in N
  BY <1>1, <1>8
<1> QED BY <1>5, <1>9

LEMMA VerifyAtOnceStill ==
  ASSUME Still, NEW c \in Callers, VerifyAtOnce(c)
  PROVE  StillInv'
<1> USE StillFacts, Facts
<1> DEFINE stored == StoreSlice(cache, c)
           local == MapRead(stored)
           r == RunOf(call[c], local)
<1>1. Keeps(c) /\ (\A d \in Callers \ {c} : verdict'[d] = verdict[d])
  BY DEF VerifyAtOnce, Keeps
<1>2. /\ pc[c] = "answered" /\ pc'[c] = "idle" /\ ~ client.fetches
      /\ UNCHANGED <<client, history, world, call, reply>>
      /\ cache' = stored
  BY DEF VerifyAtOnce
<1>3. RoomKept
  BY <1>2, StoreSliceRoom
<1>4. run'[c] = r /\ verdict'[c] = Verdict(c, r)
  BY DEF VerifyAtOnce, MapRead
<1> HIDE DEF local
<1>5. /\ call[c] \in Calls /\ reply[c] = Prefetch(history[1], call[c]) /\ reply[c] # None
  BY <1>2 DEF HonestInv, Answered
<1>6. ASSUME verdict'[c] = "mismatch"
      PROVE  \/ \E i \in DOMAIN r.log : ReadsBlock(r.log[i].step)
             \/ \E i \in DOMAIN r.log : LeftOut(c, r.log[i])
  <2> SUFFICES ASSUME Blameless(c, r)
               PROVE  FALSE
    BY DEF Blameless
  <2>1. r = RunOf(call[c], ServerRead)
    BY <1>2, MapRuns DEF local
  <2>2. reply[c].outcome = Outcome(RunOf(call[c], ServerRead))
    BY <1>2, SliceOf
  <2> QED BY <1>4, <1>6, <2>1, <2>2 DEF Verdict
<1> HIDE DEF r, stored
<1>7. Verifies(c)'
  BY <1>2, <1>4, <1>6 DEF Verifies, LooksAtBlock, LacksAccount, Done, ReadsBlock, LeftOut, db
<1>8. HonestInv(c)'
  BY <1>2, <1>5 DEF HonestInv, Answered, InRun, Fetching
<1> QED BY <1>1, <1>2, <1>3, <1>7, <1>8, KeepsStill DEF InRun

----------------------------------------------------------------------------
LEMMA InitStill == Init => StillInv
<1> SUFFICES ASSUME Init
             PROVE  StillInv
  OBVIOUS
<1>1. \A c \in Callers : pc[c] = "idle" /\ verdict[c] = "none"
  BY DEF Init
<1>2. HonestServerVerifies /\ \A c \in Callers : HonestInv(c)
  BY <1>1 DEF HonestServerVerifies, HonestInv, Answered, InRun, Fetching
<1>3. CodesKept(cache)
  <2>1. DOMAIN cache["account"] = {}
    BY DEF Init, Tiers
  <2> QED BY <2>1 DEF CodesKept, Held
<1> QED BY <1>1, <1>2, <1>3 DEF StillInv, RoomInv, InRun

LEMMA StutterStill == StillInv /\ UNCHANGED vars => StillInv'
<1> SUFFICES ASSUME StillInv, UNCHANGED vars
             PROVE  StillInv'
  OBVIOUS
<1>1. UNCHANGED <<client, history, world, cache, pc, call, reply, run, got, verdict>>
  BY DEF vars, caller
<1>2. ServerRead' = ServerRead /\ HasRoom' = HasRoom
  BY <1>1 DEF ServerRead, HasRoom
<1>3. \A c \in Callers : HonestInv(c) => HonestInv(c)'
  BY <1>1, <1>2 DEF HonestInv, Answered, InRun, Fetching, Faithful, Excused, Done, LostCode, ReadsBlock, db
<1>4. RoomInv => RoomInv'
  BY <1>1, <1>2 DEF RoomInv, CodesKept, Available, Ready, InRun
<1>5. HonestServerVerifies => HonestServerVerifies'
  BY <1>1, <1>2 DEF HonestServerVerifies, Done, ReadsBlock, LostCode, LeftOut, db
<1> QED BY <1>1, <1>3, <1>4, <1>5 DEF StillInv

LEMMA StepStill == IInv /\ StillInv /\ [Next]_vars => StillInv'
<1> SUFFICES ASSUME IInv, StillInv, [Next]_vars
             PROVE  StillInv'
  OBVIOUS
<1>1. CASE Move
  <2>1. world' # 1
    BY <1>1, Facts, HistoryType DEF Move
  <2> QED BY <2>1 DEF StillInv
<1>2. ASSUME NEW c \in Callers, (\E r \in Requests : Ask(c, r)) \/ Fail(c) \/ Step(c)
      PROVE  StillInv'
  <2>1. world' = world
    BY <1>2 DEF Ask, Fail, Step, Preload, VerifyAtOnce, StartRun, Known, Hit, NoSuchCode, Get,
                GetItsCode, StoreCode, Store, Finish
  <2>2. CASE world # 1
    BY <2>1, <2>2 DEF StillInv
  <2>3. CASE world = 1
    <3>1. Still
      BY <2>3 DEF Still
    <3> QED BY <1>2, <3>1, AskStill, FailStill, PreloadStill, VerifyAtOnceStill, StartRunStill,
               KnownStill, HitStill, NoSuchCodeStill, GetStill, GetItsCodeStill, StoreCodeStill,
               StoreStill, FinishStill DEF Step
  <2> QED BY <2>2, <2>3
<1>3. CASE UNCHANGED vars
  BY <1>3, StutterStill
<1> QED BY <1>1, <1>2, <1>3 DEF Next

\* While the database stays as it is, the client that verifies contradicts an honest
\* server only about the block, about a code that was evicted between two reads, or about
\* an account that the slice left out.
THEOREM HonestServersVerified == Spec => []HonestServerVerifies
<1>1. Init => IInv /\ StillInv
  BY InitInvariant, InitStill
<1>2. IInv /\ StillInv /\ [Next]_vars => (IInv /\ StillInv)'
  BY StepInvariant, StepStill
<1>3. StillInv => HonestServerVerifies
  BY DEF StillInv, HonestServerVerifies
<1> QED BY <1>1, <1>2, <1>3, PTL DEF Spec

----------------------------------------------------------------------------
Bounds(T, tier, those) ==
  /\ IsFiniteSet(T) /\ Cardinality(T) <= client.capacity
  /\ \A i \in 1..Len(tier) : tier[i].at \in those => tier[i].at \in T
Spares(new, tier, these, e) ==
  \A x : (HasEntry(tier, x) /\ x.at \in these /\ x.at # e.at) => HasEntry(new, x)

\* What was used after these entries is there: nothing of these is lost while those fit.
LEMMA PutRecent ==
  ASSUME client.capacity \in Nat \ {0}, NEW E, NEW tier \in Seq(E), Distinct(tier),
         Len(tier) <= client.capacity, NEW e \in E,
         NEW these, NEW those, e.at \in those, Recent(tier, these, those),
         NEW T, e.at \in T, Bounds(T, tier, those),
         NEW new, new = Trim(Append(Without(tier, e.at), e))
  PROVE  /\ Recent(new, these \cup {e.at}, those) /\ HasEntry(new, e)
         /\ Spares(new, tier, these, e)
<1> DEFINE rest == Without(tier, e.at)
           long == Append(rest, e)
           mine == these \cup {e.at}
<1>1. rest \in Seq(E) /\ Remains(rest, tier, e.at) /\ InOrder(rest, tier)
  BY WithoutTier
<1> HIDE DEF rest
<1>2. new = Trim(long)
  BY DEF rest
<1>3. /\ long \in Seq(E) /\ long # <<>> /\ Len(long) = Len(rest) + 1
      /\ \A i \in 1..Len(rest) : long[i] = rest[i]
      /\ long[Len(rest) + 1] = e
  BY <1>1, AppendProperties
<1> HIDE DEF long
<1>4. /\ DOMAIN rest = 1..Len(rest) /\ DOMAIN long = 1..Len(long) /\ DOMAIN tier = 1..Len(tier)
      /\ Len(long) \in Nat /\ Len(tier) \in Nat /\ Len(rest) \in Nat
  BY <1>1, <1>3
<1>5. (\A x \in 1..Len(rest) : rest[x].at # e.at) /\ Len(rest) <= Len(tier) /\ Distinct(rest)
  BY <1>1 DEF Remains
<1>6. \A x \in 1..Len(long) : x \in 1..Len(rest) \/ x = Len(rest) + 1
  BY <1>4, <1>3
<1>7. Distinct(long)
  <2> SUFFICES ASSUME NEW i \in 1..Len(long), NEW k \in 1..Len(long), long[i].at = long[k].at
               PROVE  i = k
    BY <1>4 DEF Distinct
  <2>1. CASE i \in 1..Len(rest) /\ k \in 1..Len(rest)
    BY <1>4, <1>3, <1>5, <2>1 DEF Distinct
  <2> QED BY <1>3, <1>5, <1>6, <2>1
<1>8. /\ rest \in Seq(E) /\ long \in Seq(E) /\ long # <<>> /\ Distinct(long)
      /\ Len(long) = Len(rest) + 1 /\ Len(rest) \in Nat /\ Len(rest) <= Len(tier)
      /\ \A i \in 1..Len(rest) : long[i] = rest[i] /\ rest[i].at # e.at
      /\ long[Len(rest) + 1] = e
      /\ \A i \in 1..Len(long) : i \in 1..Len(rest) \/ i = Len(rest) + 1
  <2>1. \A i \in 1..Len(rest) : long[i] = rest[i] /\ rest[i].at # e.at
    BY <1>3, <1>5
  <2> QED BY <1>1, <1>3, <1>4, <1>5, <1>6, <1>7, <2>1
<1>9. ASSUME NEW i \in 1..Len(rest), NEW k \in 1..Len(rest), i <= k, rest[i].at \in these
      PROVE  rest[k].at \in those
  <2>1. PICK x \in 1..Len(tier), y \in 1..Len(tier) :
          x <= y /\ rest[i] = tier[x] /\ rest[k] = tier[y]
    BY <1>1, <1>9 DEF InOrder
  <2> QED BY <1>4, <1>9, <2>1 DEF Recent
<1>10. ASSUME NEW i \in 1..Len(long), NEW k \in 1..Len(long), i <= k, long[i].at \in mine
       PROVE  long[k].at \in those
  <2>1. CASE k = Len(rest) + 1
    BY <1>8, <2>1
  <2>2. CASE k \in 1..Len(rest)
    <3>1. i \in 1..Len(rest)
      BY <1>8, <1>10, <2>2
    <3>2. long[i] = rest[i] /\ rest[i].at # e.at /\ long[k] = rest[k]
      BY <1>8, <2>2, <3>1
    <3> QED BY <1>9, <1>10, <2>2, <3>1, <3>2
  <2> QED BY <1>8, <2>1, <2>2
<1>11. ASSUME NEW x, HasEntry(tier, x), x.at # e.at
       PROVE  \E i \in 1..Len(rest) : long[i] = x
  <2>1. PICK j \in 1..Len(tier) : tier[j] = x
    BY <1>4, <1>11 DEF HasEntry
  <2>2. \E i \in 1..Len(rest) : rest[i] = x
    BY <1>1, <1>11, <2>1 DEF Remains
  <2> QED BY <1>8, <2>2
<1>12. CASE ~ (Len(long) > client.capacity)
  <2>1. new = long
    BY <1>2, <1>12 DEF Trim
  <2>2. Recent(new, mine, those)
    BY <1>4, <1>10, <2>1 DEF Recent
  <2>3. Len(rest) + 1 \in DOMAIN new /\ \A i \in 1..Len(rest) : i \in DOMAIN new
    BY <1>8, <1>4, <2>1
  <2>4. HasEntry(new, e)
    BY <1>8, <2>1, <2>3 DEF HasEntry
  <2>5. Spares(new, tier, these, e)
    BY <1>11, <2>1, <2>3 DEF HasEntry, Spares
  <2> QED BY <2>2, <2>4, <2>5
<1>13. CASE Len(long) > client.capacity
  <2>1. /\ new = Tail(long) /\ Len(new) = Len(rest) /\ new \in Seq(E)
        /\ \A i \in 1..Len(new) : i + 1 \in 1..Len(long) /\ new[i] = long[i + 1]
    <3>1. new = Tail(long)
      BY <1>2, <1>13 DEF Trim
    <3>2. /\ Tail(long) \in Seq(E) /\ Len(Tail(long)) = Len(long) - 1
          /\ \A i \in 1..Len(Tail(long)) : Tail(long)[i] = long[i + 1]
      BY <1>8, HeadTailProperties
    <3> QED BY <1>8, <1>4, <3>1, <3>2
  <2>2. DOMAIN new = 1..Len(new) /\ Len(rest) >= 1 /\ Len(long) > client.capacity
    BY <1>8, <1>13, <2>1
  <2>3. Recent(new, mine, those)
    <3> SUFFICES ASSUME NEW i \in 1..Len(new), NEW k \in 1..Len(new), i <= k, new[i].at \in mine
                 PROVE  new[k].at \in those
      BY <2>2 DEF Recent
    <3>1. i + 1 <= k + 1 /\ i + 1 \in 1..Len(long) /\ k + 1 \in 1..Len(long)
          /\ new[i] = long[i + 1] /\ new[k] = long[k + 1]
      BY <1>8, <2>1
    <3> QED BY <1>10, <3>1
  <2>4. HasEntry(new, e)
    <3>1. Len(rest) \in DOMAIN new /\ new[Len(rest)] = e
      BY <1>8, <2>1, <2>2
    <3> QED BY <3>1 DEF HasEntry
  <2>5. long[1].at \notin these
    <3> SUFFICES ASSUME long[1].at \in these
                 PROVE  FALSE
      OBVIOUS
    <3>1. \A k \in 1..Len(long) : long[k].at \in those
      BY <1>8, <1>4, <1>10
    <3>2. \A i \in 1..Len(rest) : \E j \in 1..Len(tier) : rest[i] = tier[j]
      BY <1>1 DEF Remains
    <3>3. \A k \in 1..Len(long) : long[k].at \in T
      BY <1>8, <3>1, <3>2 DEF Bounds
    <3>4. PlacesIn(long) \subseteq T
      BY <1>4, <3>3 DEF PlacesIn
    <3>5. Cardinality(PlacesIn(long)) = Len(long) /\ Cardinality(PlacesIn(long)) <= Cardinality(T)
      BY <1>8, <3>4, OnePlaceEach, FS_Subset DEF Bounds
    <3>6. Cardinality(T) \in Nat /\ Cardinality(T) <= client.capacity
      BY FS_CardinalityType DEF Bounds
    <3> QED BY <1>4, <1>13, <3>5, <3>6
  <2>6. ASSUME NEW x, HasEntry(tier, x), x.at \in these, x.at # e.at
        PROVE  HasEntry(new, x)
    <3>1. PICK i \in 1..Len(rest) : long[i] = x
      BY <1>11, <2>6
    <3>2. i # 1
      BY <2>5, <2>6, <3>1
    <3>3. i - 1 \in 1..Len(new) /\ (i - 1) + 1 = i
      BY <1>8, <2>1, <3>2
    <3> QED BY <2>1, <2>2, <3>1, <3>3 DEF HasEntry
  <2> QED BY <2>3, <2>4, <2>6 DEF Spares
<1> QED BY <1>12, <1>13

LEMMA PutOwn ==
  ASSUME history \in Histories, client.capacity \in Nat \ {0},
         NEW n \in DOMAIN history, NEW caches \in Caches(n), NEW e \in Said(n),
         NEW these, NEW those, those \subseteq Places, FitsIn(those), e.at \in those,
         \A t \in Tiers : Recent(caches[t], these, those)
  PROVE  /\ \A t \in Tiers : Recent(Put(caches, e)[t], these \cup {e.at}, those)
         /\ HasEntry(Put(caches, e)[e.at.tier], e)
         /\ \A x : (/\ x.at.tier \in Tiers /\ HasEntry(caches[x.at.tier], x)
                    /\ x.at \in these /\ x.at # e.at) =>
              HasEntry(Put(caches, e)[x.at.tier], x)
<1> DEFINE u == e.at.tier
           new == Trim(Append(Without(caches[u], e.at), e))
           T == TierOf(those, u)
<1>1. u \in Tiers
  BY SaidAt
<1>2. caches \in [Tiers -> Seq(Said(n))]
      /\ \A t \in Tiers : /\ caches[t] \in Seq(Said(n)) /\ Len(caches[t]) <= client.capacity
                          /\ Distinct(caches[t]) /\ OfKind(caches[t], t)
  BY DEF Caches
<1>3. Put(caches, e)[u] = new /\ \A t \in Tiers : t # u => Put(caches, e)[t] = caches[t]
  BY <1>1, <1>2 DEF Put
<1>4. IsFiniteSet(T) /\ Cardinality(T) <= client.capacity
  BY <1>1, PlacesAreFinite, FS_Subset DEF FitsIn, TierOf
<1>5. \A i \in 1..Len(caches[u]) : caches[u][i].at \in those => caches[u][i].at \in T
  BY <1>1, <1>2 DEF OfKind, TierOf
<1>6. e.at \in T
  BY DEF TierOf
<1> DEFINE tier == caches[u]
<1>7. new = Trim(Append(Without(tier, e.at), e))
  OBVIOUS
<1>8. tier \in Seq(Said(n)) /\ Distinct(tier) /\ Len(tier) <= client.capacity
      /\ Recent(tier, these, those) /\ Bounds(T, tier, those)
  BY <1>1, <1>2, <1>4, <1>5 DEF Bounds
<1>9. /\ Recent(new, these \cup {e.at}, those) /\ HasEntry(new, e)
      /\ Spares(new, tier, these, e)
  <2> HIDE DEF new, tier, T
  <2> QED BY <1>6, <1>7, <1>8, PutRecent
<1> HIDE DEF new
<1>10. ASSUME NEW t \in Tiers
       PROVE  Recent(Put(caches, e)[t], these \cup {e.at}, those)
  <2>1. CASE t = u
    BY <1>3, <1>9, <2>1
  <2>2. CASE t # u
    <3>1. \A i \in DOMAIN caches[t] : caches[t][i].at # e.at
      BY <1>2, <2>2 DEF OfKind
    <3>2. Recent(caches[t], these \cup {e.at}, those)
      BY <3>1 DEF Recent
    <3> QED BY <1>3, <2>2, <3>2
  <2> QED BY <2>1, <2>2
<1>11. ASSUME NEW x, x.at.tier \in Tiers, HasEntry(caches[x.at.tier], x), x.at \in these, x.at # e.at
       PROVE  HasEntry(Put(caches, e)[x.at.tier], x)
  BY <1>3, <1>9, <1>11 DEF Spares
<1> QED BY <1>3, <1>9, <1>10, <1>11

\* A slice says one thing of a place.
OneEach(slice) == \A i, j \in DOMAIN slice : slice[i].at = slice[j].at => slice[i] = slice[j]

\* A slice that fits is in the caches once it is stored.
LEMMA StoredOwn ==
  ASSUME history \in Histories, client.capacity \in Nat \ {0},
         NEW n \in DOMAIN history, NEW caches \in Caches(n), NEW slice \in Seq(Said(n)),
         OneEach(slice),
         NEW those, those \subseteq Places, FitsIn(those), PlacesIn(slice) \subseteq those
  PROVE  /\ HasSlice(Stored(caches, slice), slice)
         /\ \A t \in Tiers : Recent(Stored(caches, slice)[t], PlacesIn(slice), those)
<1>1. PICK after \in [0..Len(slice) -> Caches(n)] :
        /\ after[0] = caches /\ after[Len(slice)] = Stored(caches, slice)
        /\ \A i \in 1..Len(slice) : after[i] = Put(after[i - 1], slice[i])
  BY StoredCaches DEF Stores
<1>2. /\ Len(slice) \in Nat /\ DOMAIN slice = 1..Len(slice)
      /\ \A i \in 1..Len(slice) : slice[i] \in Said(n) /\ slice[i].at.tier \in Tiers
  <2>1. Len(slice) \in Nat /\ DOMAIN slice = 1..Len(slice) /\ \A i \in 1..Len(slice) : slice[i] \in Said(n)
    OBVIOUS
  <2> QED BY <2>1, SaidAt
<1> DEFINE Upto(i) == {slice[j].at : j \in 1..i}
           There(i) == \A j \in 1..i : HasEntry(after[i][slice[j].at.tier], slice[j])
           Late(i) == \A t \in Tiers : Recent(after[i][t], Upto(i), those)
           N == {i \in 0..Len(slice) : There(i) /\ Late(i)}
<1>3. 0 \in N
  <2>1. 1..0 = {}
    OBVIOUS
  <2> QED BY <1>2, <2>1 DEF Recent
<1>4. ASSUME NEW i \in 0..(Len(slice) - 1), i \in N
      PROVE  i + 1 \in N
  <2>1. /\ i + 1 \in 1..Len(slice) /\ (i + 1) - 1 = i /\ i + 1 \in 0..Len(slice) /\ i \in 0..Len(slice)
        /\ \A j \in 1..(i + 1) : j \in 1..i \/ j = i + 1
        /\ \A j \in 1..i : j \in 1..(i + 1) /\ j \in 1..Len(slice)
        /\ i + 1 \in 1..(i + 1)
    BY <1>2
  <2> DEFINE e == slice[i + 1]
  <2>2. after[i + 1] = Put(after[i], e) /\ e \in Said(n) /\ after[i] \in Caches(n) /\ e.at \in those
    BY <1>1, <1>2, <2>1 DEF PlacesIn
  <2>3. There(i) /\ Late(i)
    BY <1>4
  <2>4. Upto(i + 1) = Upto(i) \cup {e.at}
    BY <2>1
  <2>5. /\ \A t \in Tiers : Recent(Put(after[i], e)[t], Upto(i) \cup {e.at}, those)
        /\ HasEntry(Put(after[i], e)[e.at.tier], e)
        /\ \A x : (/\ x.at.tier \in Tiers /\ HasEntry(after[i][x.at.tier], x)
                   /\ x.at \in Upto(i) /\ x.at # e.at) =>
             HasEntry(Put(after[i], e)[x.at.tier], x)
    <3> HIDE DEF e, Upto, There
    <3> QED BY <2>2, <2>3, PutOwn
  <2>6. Late(i + 1)
    <3> HIDE DEF e, Upto
    <3> QED BY <2>2, <2>4, <2>5
  <2>7. ASSUME NEW j \in 1..(i + 1)
        PROVE  HasEntry(after[i + 1][slice[j].at.tier], slice[j])
    <3>1. CASE j \in 1..i /\ slice[j].at # e.at
      <4>1. slice[j].at \in Upto(i) /\ slice[j].at.tier \in Tiers
        BY <1>2, <2>1, <3>1
      <4>2. HasEntry(after[i][slice[j].at.tier], slice[j])
        BY <2>3, <3>1
      <4> HIDE DEF e, Upto
      <4> QED BY <2>2, <2>5, <3>1, <4>1, <4>2
    <3>2. CASE slice[j].at = e.at
      <4>1. j \in DOMAIN slice /\ i + 1 \in DOMAIN slice
        BY <1>2, <2>1
      <4>2. slice[j] = e
        BY <3>2, <4>1 DEF OneEach
      <4> HIDE DEF e, Upto
      <4> QED BY <2>2, <2>5, <4>2
    <3> QED BY <2>1, <3>1, <3>2
  <2> HIDE DEF Late
  <2> QED BY <2>1, <2>6, <2>7
<1>5. 0..Len(slice) \subseteq N
  <2> HIDE DEF N
  <2> QED BY <1>2, <1>3, <1>4, SetInduction
<1>6. There(Len(slice)) /\ Late(Len(slice))
  <2>1. Len(slice) \in N
    <3> HIDE DEF N
    <3> QED BY <1>2, <1>5
  <2> HIDE DEF There, Late
  <2> QED BY <2>1
<1>7. Upto(Len(slice)) = PlacesIn(slice)
  BY <1>2 DEF PlacesIn
<1>8. HasSlice(Stored(caches, slice), slice)
  BY <1>1, <1>2, <1>6 DEF HasSlice
<1> HIDE DEF Upto
<1> QED BY <1>1, <1>6, <1>7, <1>8

----------------------------------------------------------------------------
\* The answer that a caller holds is one database's, and the places it needs are places.
LEMMA ReplySlice ==
  ASSUME IInv, NEW c \in Callers, ReplyInv(c), pc[c] # "idle"
  PROVE  /\ reply[c].slice \in Seq(Said(world))
         /\ OneEach(reply[c].slice)
<1>1. history \in Histories /\ world \in DOMAIN history
  BY Facts
<1>2. PICK w \in 1..world : reply[c] = Prefetch(history[w], call[c])
  BY DEF ReplyInv
<1>3. call[c] \in Calls /\ reply[c] # None
  BY DEF ReplyInv
<1>4. w \in DOMAIN history /\ w \in Nat \ {0} /\ world \in Nat /\ w <= world
  BY <1>1, <1>2, HistoryType
<1> DEFINE read == [step \in Steps |-> ServerReads(history[w], step)]
           R == RunOf(call[c], read)
           slice == Slice(history[w], call[c], R)
<1>5. reply[c].slice = slice
  BY <1>2, <1>3 DEF Prefetch
<1>6. R \in Runs
  <2>1. Answers(read)
    BY <1>1, <1>4, ServerReadsType DEF Answers
  <2>2. Gas \in 0..Gas
    BY GasType
  <2> HIDE DEF read
  <2> QED BY <1>3, <2>1, <2>2, RunSequence
<1> HIDE DEF R
<1>7. slice \in Seq(Said(w)) /\ slice \in Seq(FromRows(history[w]))
  BY <1>3, <1>4, <1>6, SliceHolds
<1> HIDE DEF slice
<1>8. Said(w) \subseteq Said(world)
  BY <1>4, SaidGrows
<1>9. slice \in Seq(Said(world))
  BY <1>7, <1>8
<1>10. \A i \in DOMAIN slice : slice[i] \in FromRows(history[w])
  BY <1>7
<1>11. OneEach(slice)
  BY <1>10, OneValue DEF OneEach
<1> QED BY <1>5, <1>9, <1>11

LEMMA StepPlace ==
  ASSUME NEW s \in Steps, ~ ReadsBlock(s)
  PROVE  PlaceOf(s) \in Places
<1>1. CASE s \in AccountSteps
  BY <1>1, PlaceKinds, StepKinds DEF Places
<1>2. CASE s \in RunSteps
  BY <1>2, PlaceKinds, StepKinds DEF Places
<1>3. CASE s \in SlotSteps
  <2>1. s.of \in Addr /\ s.what \in Slot
    BY <1>3, SlotSteps_ DEF SlotSteps
  <2> QED BY <1>3, <2>1, PlaceKinds DEF Places
<1> QED BY <1>1, <1>2, <1>3, StepCases

LEMMA CodeOfLogged ==
  ASSUME NEW s, NEW v, [step |-> s, value |-> v] \in Logged, ReadsAccount(s), HasCode(v)
  PROVE  CodePlace(v.code) \in Places
<1>1. s \in AccountSteps /\ s \notin RunSteps /\ s \notin OtherSteps
  <2>1. s \in Steps
    BY LoggedValues, StepKinds
  <2> QED BY <2>1, StepKinds DEF AccountSteps
<1>2. v \in AccountInfo \cup {None}
  BY <1>1, LoggedValues
<1>3. v.code \in Code
  BY <1>2 DEF HasCode, AccountInfo
<1> QED BY <1>3 DEF Places

LEMMA LoggedEntry ==
  ASSUME NEW e \in Logged
  PROVE  e = [step |-> e.step, value |-> e.value] /\ e.step \in Steps
BY StepKinds DEF Logged

\* Membership in the places of a run.
LEMMA ReadPlacesAre ==
  ASSUME NEW r \in Runs, NEW p
  PROVE  p \in ReadPlaces(r) <=>
           \E i \in DOMAIN r.log : ~ ReadsBlock(r.log[i].step) /\ p = PlaceOf(r.log[i].step)
BY DEF ReadPlaces, Recorded

LEMMA CodePlacesAre ==
  ASSUME NEW r \in Runs, NEW p
  PROVE  p \in CodePlaces(r) <=>
           \E i \in DOMAIN r.log : /\ ReadsAccount(r.log[i].step) /\ HasCode(r.log[i].value)
                                   /\ p = CodePlace(r.log[i].value.code)
BY DEF CodePlaces

LEMMA RunPlaces ==
  ASSUME NEW r \in Runs
  PROVE  ReadPlaces(r) \subseteq Places /\ CodePlaces(r) \subseteq Places
<1>1. \A i \in DOMAIN r.log : r.log[i] \in Logged
  BY DEF Runs
<1>2. ASSUME NEW p \in ReadPlaces(r)
      PROVE  p \in Places
  <2>1. PICK i \in DOMAIN r.log : ~ ReadsBlock(r.log[i].step) /\ p = PlaceOf(r.log[i].step)
    BY ReadPlacesAre
  <2> QED BY <1>1, <2>1, LoggedEntry, StepPlace
<1>3. ASSUME NEW p \in CodePlaces(r)
      PROVE  p \in Places
  <2>1. PICK i \in DOMAIN r.log : /\ ReadsAccount(r.log[i].step) /\ HasCode(r.log[i].value)
                                  /\ p = CodePlace(r.log[i].value.code)
    BY CodePlacesAre
  <2>2. [step |-> r.log[i].step, value |-> r.log[i].value] \in Logged
    BY <1>1, <2>1, LoggedEntry
  <2> QED BY <2>1, <2>2, CodeOfLogged
<1> QED BY <1>2, <1>3

\* A run that goes on keeps its places, and adds those of the read.
LEMMA AdvancePlaces ==
  ASSUME NEW r \in Runs, r.todo # <<>>, NEW v, [step |-> Head(r.todo), value |-> v] \in Logged,
         NEW q, q = Advance(r, v)
  PROVE  /\ q \in Runs /\ ReadPlaces(r) \subseteq ReadPlaces(q) /\ CodePlaces(r) \subseteq CodePlaces(q)
         /\ ~ ReadsBlock(Head(r.todo)) => PlaceOf(Head(r.todo)) \in ReadPlaces(q)
         /\ (ReadsAccount(Head(r.todo)) /\ HasCode(v)) => CodePlace(v.code) \in CodePlaces(q)
<1>1. q \in Runs
  BY AdvanceType
<1>2. /\ \A i \in DOMAIN r.log : i \in DOMAIN q.log /\ q.log[i] = r.log[i]
      /\ Len(q.log) = Len(r.log) + 1
      /\ q.log[Len(r.log) + 1] = [step |-> Head(r.todo), value |-> v]
  BY AdvanceAt
<1>3. Len(r.log) + 1 \in DOMAIN q.log
  <2>1. q.log \in Seq(Logged) /\ r.log \in Seq(Logged)
    BY <1>1 DEF Runs
  <2> QED BY <1>2, <2>1
<1>4. ReadPlaces(r) \subseteq ReadPlaces(q)
  BY <1>1, <1>2, ReadPlacesAre
<1>5. CodePlaces(r) \subseteq CodePlaces(q)
  BY <1>1, <1>2, CodePlacesAre
<1>6. ~ ReadsBlock(Head(r.todo)) => PlaceOf(Head(r.todo)) \in ReadPlaces(q)
  <2> DEFINE s == Head(r.todo)
  <2> HIDE DEF s
  <2>1. q.log[Len(r.log) + 1].step = s
    BY <1>2 DEF s
  <2>2. ~ ReadsBlock(s) => PlaceOf(s) \in ReadPlaces(q)
    BY <1>1, <1>3, <2>1, ReadPlacesAre
  <2> QED BY <2>2 DEF s
<1>7. (ReadsAccount(Head(r.todo)) /\ HasCode(v)) => CodePlace(v.code) \in CodePlaces(q)
  BY <1>1, <1>2, <1>3, CodePlacesAre
<1> QED BY <1>1, <1>4, <1>5, <1>6, <1>7

----------------------------------------------------------------------------
\* The places that a caller is about to touch are places.
LEMMA PendingPlaces ==
  ASSUME IInv, NEW c \in Callers
  PROVE  Pending(c) \subseteq Places
<1>1. CASE ~ Fetching(c)
  BY <1>1 DEF Pending
<1>2. CASE Fetching(c)
  <2>1. Entry(PlaceOf(Now(c)), got[c]) \in Said(world) /\ [step |-> Now(c), value |-> got[c]] \in Logged
    BY <1>2, AnswerSaid
  <2>2. PlaceOf(Now(c)) \in Places
    BY <2>1, SaidPlaces, Facts DEF Entry, TierOf
  <2>3. (ReadsAccount(Now(c)) /\ HasCode(got[c])) => CodePlace(got[c].code) \in Places
    BY <2>1, CodeOfLogged
  <2> QED BY <2>2, <2>3 DEF Pending
<1> QED BY <1>1, <1>2

LEMMA OwnPlaces ==
  ASSUME IInv, NEW c \in Callers, ReplyInv(c), pc[c] # "idle"
  PROVE  Own(c) \subseteq Places /\ Own(c) \subseteq Needed(c)
<1>1. reply[c].slice \in Seq(Said(world))
  BY ReplySlice
<1>2. \A i \in DOMAIN reply[c].slice : reply[c].slice[i].at \in Places
  BY <1>1, SaidPlaces, Facts DEF TierOf
<1>3. Own(c) \subseteq Places
  BY <1>2 DEF Own, PlacesIn
<1>4. Own(c) \subseteq Needed(c)
  BY DEF Own, Needed, Touched
<1> QED BY <1>3, <1>4

LEMMA NeededPlaces ==
  ASSUME IInv, NEW c \in Callers, ReplyInv(c), pc[c] # "idle"
  PROVE  Needed(c) \subseteq Places
<1>1. Own(c) \subseteq Places
  BY OwnPlaces
<1>2. ReadPlaces(run[c]) \subseteq Places /\ CodePlaces(run[c]) \subseteq Places
  BY Facts, RunPlaces
<1> QED BY <1>1, <1>2, PendingPlaces DEF Needed, Touched, Own

\* Fewer places fit too.
LEMMA FewerFit ==
  ASSUME NEW those, those \subseteq Places, FitsIn(those), client.capacity \in Nat,
         NEW these, these \subseteq those
  PROVE  FitsIn(these)
<1> SUFFICES ASSUME NEW t \in Tiers
             PROVE  Cardinality(TierOf(these, t)) <= client.capacity
  BY DEF FitsIn
<1>1. TierOf(these, t) \subseteq TierOf(those, t) /\ TierOf(those, t) \subseteq Places
  BY DEF TierOf
<1>2. IsFiniteSet(TierOf(those, t)) /\ IsFiniteSet(TierOf(these, t))
  BY <1>1, PlacesAreFinite, FS_Subset
<1>3. /\ Cardinality(TierOf(these, t)) <= Cardinality(TierOf(those, t))
      /\ Cardinality(TierOf(these, t)) \in Nat /\ Cardinality(TierOf(those, t)) \in Nat
  BY <1>1, <1>2, FS_Subset, FS_CardinalityType
<1> QED BY <1>3 DEF FitsIn

\* What the caller stores leaves its slice in the caches while all it needs fits.
LEMMA PutSafe ==
  ASSUME IInv, NEW c \in Callers, ReplyInv(c), pc[c] # "idle",
         Safe(cache, c, Needed(c)), NEW those, those \subseteq Places, FitsIn(those),
         Needed(c) \subseteq those, NEW e \in Said(world), e.at \in those,
         e.at \in Own(c) => HasEntry(cache[e.at.tier], e)
  PROVE  Safe(Put(cache, e), c, those)
<1> DEFINE slice == reply[c].slice
<1>1. slice \in Seq(Said(world))
  BY ReplySlice
<1>2. \A t \in Tiers : Recent(cache[t], Own(c), those)
  BY DEF Safe, Recent
<1>3. /\ \A t \in Tiers : Recent(Put(cache, e)[t], Own(c) \cup {e.at}, those)
      /\ HasEntry(Put(cache, e)[e.at.tier], e)
      /\ \A x : (/\ x.at.tier \in Tiers /\ HasEntry(cache[x.at.tier], x)
                 /\ x.at \in Own(c) /\ x.at # e.at) =>
           HasEntry(Put(cache, e)[x.at.tier], x)
  BY <1>2, Facts, PutOwn
<1>4. \A t \in Tiers : Recent(Put(cache, e)[t], Own(c), those)
  BY <1>3 DEF Recent
<1>5. ASSUME NEW i \in DOMAIN slice
      PROVE  HasEntry(Put(cache, e)[slice[i].at.tier], slice[i])
  <2>1. slice[i] \in Said(world) /\ slice[i].at \in Own(c) /\ HasEntry(cache[slice[i].at.tier], slice[i])
    BY <1>1 DEF Own, PlacesIn, Safe, HasSlice
  <2>2. slice[i].at.tier \in Tiers
    BY <2>1, SaidAt
  <2>3. CASE slice[i].at # e.at
    BY <1>3, <2>1, <2>2, <2>3
  <2>4. CASE slice[i].at = e.at
    <3>1. HasEntry(cache[e.at.tier], e) /\ Distinct(cache[e.at.tier])
      BY <2>1, <2>2, <2>4, Facts DEF Caches
    <3>2. slice[i] = e
      BY <2>1, <2>4, <3>1 DEF HasEntry, Distinct
    <3> QED BY <1>3, <3>2
  <2> QED BY <2>3, <2>4
<1> QED BY <1>4, <1>5 DEF Safe, HasSlice

\* What a caller was given stays, if no one else puts it at risk.
LEMMA OwnKept ==
  ASSUME IInv, NEW c \in Callers, InRun(c), OwnInv(c), UNCHANGED <<client, history, world, reply>>,
         Alone(c)' => Alone(c), Needed(c) \subseteq Needed(c)', Needed(c)' \subseteq Places,
         (OwnThere(c) /\ FitsIn(Needed(c)')) => Safe(cache', c, Needed(c)') /\ AsksOthers(c)'
  PROVE  OwnInv(c)'
<1> SUFFICES ASSUME Alone(c)', FitsIn(Needed(c))'
             PROVE  OwnThere(c)'
  BY DEF OwnInv
<1>1. FitsIn(Needed(c)')
  BY DEF FitsIn, TierOf
<1>2. FitsIn(Needed(c))
  BY <1>1, FewerFit, Facts
<1>3. OwnThere(c)
  BY <1>2 DEF OwnInv
<1>4. Safe(cache', c, Needed(c)') /\ AsksOthers(c)'
  BY <1>1, <1>3
<1>5. Safe(cache, c, Needed(c))'
  BY <1>4 DEF Safe, Own
<1> QED BY <1>4, <1>5 DEF OwnThere

\* The others of a caller in a call are not alone.
LEMMA KeepsSlice ==
  ASSUME SliceInv, NEW c \in Callers, Keeps(c), \A d \in Callers \ {c} : verdict'[d] = verdict[d],
         pc'[c] # "idle" \/ verdict'[c] # "none", ReplyInv(c)', OwnInv(c)'
  PROVE  SliceInv'
<1> SUFFICES ASSUME NEW d \in Callers \ {c}
             PROVE  ReplyInv(d)' /\ OwnInv(d)'
  BY DEF SliceInv
<1>1. ReplyInv(d)'
  BY DEF Keeps, SliceInv, ReplyInv
<1>2. ~ Alone(d)'
  BY DEF Alone
<1> QED BY <1>1, <1>2 DEF OwnInv

----------------------------------------------------------------------------
\* What each action keeps of the slices.
OnlyOf(c) == Keeps(c) /\ \A d \in Callers \ {c} : verdict'[d] = verdict[d]

LEMMA SameReply ==
  ASSUME NEW c \in Callers, OnlyOf(c), UNCHANGED <<call, reply>>, ReplyInv(c), pc[c] # "idle"
  PROVE  ReplyInv(c)' /\ (Alone(c)' => Alone(c))
<1>1. ReplyInv(c)'
  BY DEF OnlyOf, Keeps, ReplyInv
<1>2. Alone(c)' => Alone(c)
  BY DEF OnlyOf, Keeps, Alone
<1> QED BY <1>1, <1>2

LEMMA AskSlice ==
  ASSUME IInv, SliceInv, NEW c \in Callers, NEW r \in Requests, Ask(c, r)
  PROVE  SliceInv'
<1> USE Facts
<1>1. Keeps(c) /\ \A d \in Callers \ {c} : verdict'[d] = verdict[d]
  BY DEF Ask, Keeps
<1>2. pc'[c] # "idle" \/ verdict'[c] # "none"
  BY DEF Ask
<1>3. ReplyInv(c)'
  <2> SUFFICES ASSUME pc'[c] # "idle"
               PROVE  /\ call'[c] \in Calls /\ reply'[c] # None
                      /\ \E w \in 1..world' : reply'[c] = Prefetch(history'[w], call'[c])
    BY DEF ReplyInv
  <2>1. call'[c] = r /\ r \in Calls /\ reply'[c] = Prefetch(history[world], r) /\ reply'[c] # None
    BY RequestsType DEF Ask, db
  <2>2. world' = world /\ history' = history /\ world \in 1..world
    BY HistoryType DEF Ask
  <2> QED BY <2>1, <2>2
<1>4. ~ InRun(c)'
  BY DEF Ask, InRun
<1> QED BY <1>1, <1>2, <1>3, <1>4, KeepsSlice DEF OwnInv

LEMMA EndSlice ==
  ASSUME IInv, SliceInv, NEW c \in Callers,
         Fail(c) \/ Preload(c) \/ VerifyAtOnce(c) \/ Finish(c)
  PROVE  SliceInv'
<1> USE Facts
<1>1. Keeps(c) /\ \A d \in Callers \ {c} : verdict'[d] = verdict[d]
  BY DEF Fail, Preload, VerifyAtOnce, Finish, Keeps
<1>2. pc'[c] = "idle" /\ verdict'[c] # "none"
  <2>1. \A r : Verdict(c, r) # "none"
    BY DEF Verdict
  <2> QED BY <2>1 DEF Fail, Preload, VerifyAtOnce, Finish
<1>3. ReplyInv(c)' /\ OwnInv(c)'
  BY <1>2 DEF ReplyInv, OwnInv, InRun
<1> QED BY <1>1, <1>2, <1>3, KeepsSlice

LEMMA StartRunSlice ==
  ASSUME IInv, SliceInv, NEW c \in Callers, StartRun(c)
  PROVE  SliceInv'
<1> USE Facts
<1>1. OnlyOf(c) /\ pc[c] = "answered" /\ pc'[c] = "run" /\ UNCHANGED <<call, reply>>
  BY DEF StartRun, Keeps, OnlyOf
<1>2. ReplyInv(c) /\ ReplyInv(c)'
  BY <1>1, SameReply DEF SliceInv
<1> DEFINE slice == reply[c].slice
<1>3. slice \in Seq(Said(world)) /\ OneEach(slice) /\ Own(c) \subseteq Places
  BY <1>1, <1>2, ReplySlice, OwnPlaces
<1>4. Needed(c)' = PlacesIn(slice)
  <2>1. run'[c] = Begin(call[c]) /\ call[c] \in Calls /\ DOMAIN run'[c].log = {}
    BY <1>1, <1>2 DEF StartRun, ReplyInv, Begin
  <2>2. Begin(call[c]) \in Runs
    BY <2>1, BeginType
  <2>3. ReadPlaces(run'[c]) = {} /\ CodePlaces(run'[c]) = {}
    BY <2>1, <2>2, ReadPlacesAre, CodePlacesAre
  <2>4. Pending(c)' = {}
    BY <1>1 DEF Pending, Fetching
  <2>5. ReadPlaces(run[c])' = {} /\ CodePlaces(run[c])' = {}
    BY <1>1, <2>3 DEF ReadPlaces, CodePlaces, OnlyOf, Keeps, PlaceOf
  <2>6. PlacesIn(reply[c].slice)' = PlacesIn(slice)
    BY <1>1
  <2> QED BY <2>4, <2>5, <2>6 DEF Needed, Touched
<1>5. OwnInv(c)'
  <2> SUFFICES ASSUME FitsIn(Needed(c))'
               PROVE  OwnThere(c)'
    BY DEF OwnInv
  <2>1. FitsIn(PlacesIn(slice))
    BY <1>1, <1>4 DEF FitsIn, TierOf, OnlyOf, Keeps
  <2>2. /\ HasSlice(Stored(cache, slice), slice)
        /\ \A t \in Tiers : Recent(Stored(cache, slice)[t], PlacesIn(slice), PlacesIn(slice))
    <3> HIDE DEF slice
    <3> QED BY <1>3, <2>1, StoredOwn DEF Own, slice
  <2>3. cache' = Stored(cache, slice) /\ Own(c)' = PlacesIn(slice)
    BY <1>1 DEF StartRun, StoreSlice, Own
  <2>4. Safe(cache, c, Needed(c))'
    BY <1>1, <1>4, <2>2, <2>3 DEF Safe
  <2>5. AsksOthers(c)'
    BY <1>1 DEF AsksOthers, Fetching
  <2> QED BY <2>4, <2>5 DEF OwnThere
<1> QED BY <1>1, <1>2, <1>5, KeepsSlice DEF OnlyOf

\* A run that reads one thing more needs what it needed, and no more than places.
LEMMA GoNeeds ==
  ASSUME IInv, NEW c \in Callers, ReplyInv(c), InRun(c), OnlyOf(c), UNCHANGED reply,
         run[c].todo # <<>>, NEW value, Go(c, value), [step |-> Now(c), value |-> value] \in Logged,
         pc'[c] = "run",
         Fetching(c) => value = got[c] /\ ~ ReadsBlock(Now(c))
  PROVE  /\ Needed(c) \subseteq Needed(c)' /\ Needed(c)' \subseteq Places
         /\ ~ ReadsBlock(Now(c)) => PlaceOf(Now(c)) \in Needed(c)'
<1> DEFINE q == run'[c]
<1>1. q = Advance(run[c], value) /\ run[c] \in Runs
  BY Facts DEF Go
<1>2. /\ q \in Runs /\ ReadPlaces(run[c]) \subseteq ReadPlaces(q)
      /\ CodePlaces(run[c]) \subseteq CodePlaces(q)
      /\ ~ ReadsBlock(Now(c)) => PlaceOf(Now(c)) \in ReadPlaces(q)
      /\ (ReadsAccount(Now(c)) /\ HasCode(value)) => CodePlace(value.code) \in CodePlaces(q)
  <2> HIDE DEF q
  <2> QED BY <1>1, AdvancePlaces DEF Now
<1>3. ReadPlaces(q) \subseteq Places /\ CodePlaces(q) \subseteq Places
  <2> HIDE DEF q
  <2> QED BY <1>2, RunPlaces
<1>4. Own(c) \subseteq Places
  BY OwnPlaces DEF InRun
<1>5. Needed(c)' = Own(c) \cup ReadPlaces(q) \cup CodePlaces(q)
  <2>1. Pending(c)' = {}
    BY DEF Pending, Fetching
  <2>2. Own(c)' = Own(c)
    BY DEF Own
  <2>3. Touched(c)' = Own(c)' \cup ReadPlaces(q) \cup CodePlaces(q)
    BY DEF Touched, Own, ReadPlaces, CodePlaces, PlaceOf
  <2> QED BY <2>1, <2>2, <2>3 DEF Needed
<1>6. Pending(c) \subseteq ReadPlaces(q) \cup CodePlaces(q)
  <2>1. CASE ~ Fetching(c)
    BY <2>1 DEF Pending
  <2>2. CASE Fetching(c)
    BY <1>2, <2>2 DEF Pending
  <2> QED BY <2>1, <2>2
<1>7. Needed(c) = Own(c) \cup ReadPlaces(run[c]) \cup CodePlaces(run[c]) \cup Pending(c)
  BY DEF Needed, Touched, Own
<1> HIDE DEF q
<1> QED BY <1>2, <1>3, <1>4, <1>5, <1>6, <1>7

\* A read that ends without a new entry.
LEMMA GoSlice ==
  ASSUME IInv, SliceInv, NEW c \in Callers, InRun(c), OnlyOf(c), UNCHANGED <<call, reply, cache>>,
         run[c].todo # <<>>, NEW value, Go(c, value), [step |-> Now(c), value |-> value] \in Logged,
         pc[c] = "run", pc'[c] = "run"
  PROVE  SliceInv'
<1>1. ReplyInv(c) /\ OwnInv(c) /\ pc[c] # "idle" /\ ~ Fetching(c)
  BY DEF SliceInv, InRun, Fetching
<1>2. ReplyInv(c)' /\ (Alone(c)' => Alone(c))
  BY <1>1, SameReply
<1>3. Needed(c) \subseteq Needed(c)' /\ Needed(c)' \subseteq Places
  BY <1>1, GoNeeds
<1>4. OwnThere(c) => Safe(cache', c, Needed(c)') /\ AsksOthers(c)'
  <2>1. AsksOthers(c)'
    BY DEF AsksOthers, Fetching
  <2>2. ASSUME OwnThere(c)
        PROVE  Safe(cache', c, Needed(c)')
    <3>1. Safe(cache, c, Needed(c))
      BY <2>2 DEF OwnThere
    <3> QED BY <1>3, <3>1 DEF Safe, Recent
  <2> QED BY <2>1, <2>2
<1>5. OwnInv(c)'
  BY <1>1, <1>2, <1>3, <1>4, OwnKept DEF OnlyOf, Keeps
<1> QED BY <1>2, <1>5, KeepsSlice DEF OnlyOf

\* A read that ends with an entry used or stored.
LEMMA GoPutSlice ==
  ASSUME IInv, SliceInv, NEW c \in Callers, InRun(c), OnlyOf(c), UNCHANGED <<call, reply>>,
         run[c].todo # <<>>, NEW value, Go(c, value), [step |-> Now(c), value |-> value] \in Logged,
         pc'[c] = "run", ~ ReadsBlock(Now(c)), Fetching(c) => value = got[c],
         Entry(PlaceOf(Now(c)), value) \in Said(world),
         cache' = Put(cache, Entry(PlaceOf(Now(c)), value)),
         (OwnThere(c) /\ PlaceOf(Now(c)) \in Own(c)) =>
           HasEntry(cache[PlaceOf(Now(c)).tier], Entry(PlaceOf(Now(c)), value))
  PROVE  SliceInv'
<1>1. ReplyInv(c) /\ OwnInv(c) /\ pc[c] # "idle"
  BY DEF SliceInv, InRun
<1>2. ReplyInv(c)' /\ (Alone(c)' => Alone(c))
  BY <1>1, SameReply
<1>3. /\ Needed(c) \subseteq Needed(c)' /\ Needed(c)' \subseteq Places
      /\ PlaceOf(Now(c)) \in Needed(c)'
  BY <1>1, GoNeeds
<1>4. (OwnThere(c) /\ FitsIn(Needed(c)')) => Safe(cache', c, Needed(c)') /\ AsksOthers(c)'
  <2>1. AsksOthers(c)'
    BY DEF AsksOthers, Fetching
  <2>2. ASSUME OwnThere(c), FitsIn(Needed(c)')
        PROVE  Safe(cache', c, Needed(c)')
    <3> DEFINE e == Entry(PlaceOf(Now(c)), value)
               those == Needed(c)'
    <3>1. Safe(cache, c, Needed(c))
      BY <2>2 DEF OwnThere
    <3>2. e.at = PlaceOf(Now(c)) /\ e \in Said(world) /\ cache' = Put(cache, e)
      BY DEF Entry
    <3>3. e.at \in those /\ Needed(c) \subseteq those /\ those \subseteq Places /\ FitsIn(those)
      BY <1>3, <2>2, <3>2
    <3>4. e.at \in Own(c) => HasEntry(cache[e.at.tier], e)
      BY <2>2, <3>2
    <3> HIDE DEF e, those
    <3>5. Safe(Put(cache, e), c, those)
      BY <1>1, <3>1, <3>2, <3>3, <3>4, PutSafe
    <3> QED BY <3>2, <3>5 DEF those
  <2> QED BY <2>1, <2>2
<1>5. OwnInv(c)'
  BY <1>1, <1>2, <1>3, <1>4, OwnKept DEF OnlyOf, Keeps
<1> QED BY <1>2, <1>5, KeepsSlice DEF OnlyOf

LEMMA KnownSlice ==
  ASSUME IInv, SliceInv, NEW c \in Callers, Known(c)
  PROVE  SliceInv'
<1> DEFINE value == IF Journaled(run[c]) THEN FromJournal(run[c]) ELSE BlockValue(Now(c))
<1>1. run[c] \in Runs /\ run[c].todo # <<>> /\ Now(c) \in Steps
  BY InHand DEF Known
<1>2. [step |-> Now(c), value |-> value] \in Logged
  <2>1. CASE Journaled(run[c])
    BY <1>1, <2>1, JournalType DEF Now
  <2>2. CASE ~ Journaled(run[c])
    BY <1>1, <2>2, BlockValueType, Facts DEF Known
  <2> QED BY <2>1, <2>2
<1>3. OnlyOf(c) /\ Go(c, value)
  BY DEF Known, Keeps, Go, OnlyOf
<1>4. UNCHANGED <<call, reply, cache, pc>> /\ pc[c] = "run" /\ InRun(c)
  BY DEF Known, Running, InRun
<1> HIDE DEF value
<1> QED BY <1>1, <1>2, <1>3, <1>4, GoSlice

LEMMA NoSuchCodeSlice ==
  ASSUME IInv, SliceInv, NEW c \in Callers, NoSuchCode(c)
  PROVE  SliceInv'
<1>1. run[c] \in Runs /\ run[c].todo # <<>> /\ Now(c) \in Steps /\ Now(c).op = "run"
  BY InHand DEF NoSuchCode, Misses, Looks
<1>2. [step |-> Now(c), value |-> NoCode] \in Logged
  BY <1>1, LoggedValues DEF RunSteps
<1>3. OnlyOf(c) /\ Go(c, NoCode)
  BY DEF NoSuchCode, Keeps, Go, OnlyOf
<1>4. UNCHANGED <<call, reply, cache, pc>> /\ pc[c] = "run" /\ InRun(c)
  BY DEF NoSuchCode, Misses, Looks, Running, InRun
<1> QED BY <1>1, <1>2, <1>3, <1>4, GoSlice

LEMMA HitSlice ==
  ASSUME IInv, SliceInv, NEW c \in Callers, Hit(c)
  PROVE  SliceInv'
<1> DEFINE p == PlaceOf(Now(c))
           value == CachedValue(p)
<1>1. /\ run[c] \in Runs /\ run[c].todo # <<>> /\ Now(c) \in Steps /\ ~ ReadsBlock(Now(c))
      /\ InRun(c) /\ ~ Fetching(c)
  BY InHand DEF Hit, Looks, Running, InRun, Fetching
<1>2. p.tier \in Tiers /\ Held(cache[p.tier], p)
  BY <1>1, PlaceKinds DEF Hit, Cached
<1>3. Entry(p, value) \in Said(world)
  BY <1>2, Facts, HeldSaid DEF CachedValue
<1>4. [step |-> Now(c), value |-> value] \in Logged
  BY <1>1, <1>3, Facts, HeldType
<1>5. HasEntry(cache[p.tier], Entry(p, value))
  <2> DEFINE tier == cache[p.tier]
             i == PositionOf(tier, p)
  <2>1. tier \in Seq(Said(world))
    BY <1>2, Facts DEF Caches
  <2>2. i \in 1..Len(tier) /\ tier[i].at = p
    BY <1>2, <2>1, HeldAt
  <2>3. i \in DOMAIN tier /\ tier[i] \in Said(world)
    BY <2>1, <2>2
  <2>4. tier[i] = Entry(tier[i].at, tier[i].value)
    BY <2>3, SaidAt
  <2>5. value = tier[i].value
    BY DEF CachedValue, ValueOf
  <2> QED BY <2>2, <2>3, <2>4, <2>5 DEF HasEntry
<1>6. cache' = Put(cache, Entry(p, value))
  BY DEF Hit, Use
<1>7. OnlyOf(c) /\ Go(c, value) /\ UNCHANGED <<call, reply>> /\ pc'[c] = "run"
  BY DEF Hit, Keeps, Go, Looks, Running, OnlyOf
<1> HIDE DEF value
<1> QED BY <1>1, <1>3, <1>4, <1>5, <1>6, <1>7, GoPutSlice

LEMMA StoreAnswerSlice ==
  ASSUME IInv, SliceInv, NEW c \in Callers, Store(c)
  PROVE  SliceInv'
<1>1. Fetching(c) /\ InRun(c)
  BY DEF Store, Fetching, InRun
<1>2. /\ run[c].todo # <<>> /\ Entry(PlaceOf(Now(c)), got[c]) \in Said(world)
      /\ [step |-> Now(c), value |-> got[c]] \in Logged
  BY <1>1, AnswerSaid
<1>3. ~ ReadsBlock(Now(c))
  <2>1. Now(c) \in AccountSteps \cup SlotSteps
    BY <1>1, Facts DEF CallerInv, ReadInv
  <2> QED BY <2>1 DEF AccountSteps, SlotSteps, ReadsBlock, ReadsAccount, AccountOps, BlockOps
<1>4. OwnThere(c) => PlaceOf(Now(c)) \notin Own(c)
  BY <1>1 DEF OwnThere, AsksOthers
<1>5. cache' = Put(cache, Entry(PlaceOf(Now(c)), got[c]))
  BY DEF Store
<1>6. OnlyOf(c) /\ Go(c, got[c]) /\ UNCHANGED <<call, reply>> /\ pc'[c] = "run"
  BY Facts DEF Store, Keeps, Go, OnlyOf
<1> QED BY <1>1, <1>2, <1>3, <1>4, <1>5, <1>6, GoPutSlice

\* What is in the slice is in the caches, so what they lack is not in the slice.
LEMMA LackedIsNotOwn ==
  ASSUME NEW c, NEW p, ~ Cached(p), OwnThere(c)
  PROVE  p \notin Own(c)
BY DEF OwnThere, Safe, HasSlice, HasEntry, Own, PlacesIn, Cached, Held

LEMMA GetSlice ==
  ASSUME IInv, SliceInv, NEW c \in Callers, Get(c)
  PROVE  SliceInv'
<1>1. /\ run[c] \in Runs /\ run[c].todo # <<>> /\ Now(c) \in Steps /\ ~ ReadsBlock(Now(c))
      /\ InRun(c) /\ ~ Fetching(c) /\ pc[c] # "idle"
  BY InHand DEF Get, Misses, Looks, Running, InRun, Fetching
<1>2. OnlyOf(c) /\ pc'[c] = "got" /\ UNCHANGED <<cache, call, reply, run>> /\ ~ Cached(PlaceOf(Now(c)))
  BY Facts DEF Get, Keeps, OnlyOf, Misses
<1>3. ReplyInv(c) /\ OwnInv(c) /\ ReplyInv(c)' /\ (Alone(c)' => Alone(c))
  BY <1>1, <1>2, SameReply DEF SliceInv
<1>4. Touched(c)' = Touched(c) /\ Own(c)' = Own(c) /\ PlaceOf(Now(c))' = PlaceOf(Now(c))
  BY <1>2 DEF Touched, Own, ReadPlaces, CodePlaces, PlaceOf, Now, OnlyOf, Keeps
<1>5. Needed(c)' = Needed(c) \cup Pending(c)'
  BY <1>1, <1>4 DEF Needed, Pending
<1>6. Pending(c)' \subseteq Places
  <2>1. got'[c] = ServerReads(history[world], Now(c)) /\ Now(c)' = Now(c)
    BY <1>2, Facts DEF Get, db, Now
  <2>2. [step |-> Now(c), value |-> got'[c]] \in Logged
    BY <1>1, <2>1, Facts, ServerReadsType
  <2>3. (ReadsAccount(Now(c)) /\ HasCode(got'[c])) => CodePlace(got'[c].code) \in Places
    BY <2>2, CodeOfLogged
  <2>4. PlaceOf(Now(c)) \in Places
    BY <1>1, StepPlace
  <2> QED BY <1>2, <1>4, <2>1, <2>3, <2>4 DEF Pending
<1>7. Needed(c)' \subseteq Places
  BY <1>1, <1>3, <1>5, <1>6, NeededPlaces
<1>8. OwnThere(c) => Safe(cache', c, Needed(c)') /\ AsksOthers(c)'
  <2> SUFFICES ASSUME OwnThere(c)
               PROVE  Safe(cache', c, Needed(c)') /\ AsksOthers(c)'
    OBVIOUS
  <2>1. Safe(cache', c, Needed(c)')
    BY <1>2, <1>5 DEF OwnThere, Safe, Recent
  <2>2. PlaceOf(Now(c)) \notin Own(c)
    BY <1>2, LackedIsNotOwn
  <2>3. AsksOthers(c)'
    BY <1>2, <1>4, <2>2 DEF AsksOthers
  <2> QED BY <2>1, <2>3
<1>9. OwnInv(c)'
  BY <1>1, <1>2, <1>3, <1>5, <1>7, <1>8, OwnKept DEF OnlyOf, Keeps
<1> QED BY <1>2, <1>3, <1>9, KeepsSlice DEF OnlyOf

\* Between the answer and its storing, what the caller needs stays the same.
LEMMA FetchNeeds ==
  ASSUME NEW c \in Callers, OnlyOf(c), Fetching(c), Fetching(c)', UNCHANGED <<reply, run, got>>
  PROVE  Needed(c)' = Needed(c) /\ Own(c)' = Own(c) /\ PlaceOf(Now(c))' = PlaceOf(Now(c))
<1>1. Touched(c)' = Touched(c) /\ Own(c)' = Own(c) /\ PlaceOf(Now(c))' = PlaceOf(Now(c))
  BY DEF Touched, Own, ReadPlaces, CodePlaces, PlaceOf, Now
<1>2. Pending(c)' = Pending(c)
  BY <1>1 DEF Pending, Now
<1> QED BY <1>1, <1>2 DEF Needed

LEMMA GetItsCodeSlice ==
  ASSUME IInv, SliceInv, NEW c \in Callers, GetItsCode(c)
  PROVE  SliceInv'
<1>1. /\ OnlyOf(c) /\ pc[c] = "got" /\ pc'[c] = "coded" /\ UNCHANGED <<cache, call, reply, run, got>>
      /\ ~ Cached(CodePlace(got[c].code))
  BY Facts DEF GetItsCode, NeedsCode, Keeps, OnlyOf
<1>2. pc[c] # "idle" /\ InRun(c) /\ Fetching(c) /\ Fetching(c)'
  BY <1>1 DEF InRun, Fetching
<1>3. ReplyInv(c) /\ OwnInv(c) /\ ReplyInv(c)' /\ (Alone(c)' => Alone(c))
  BY <1>1, <1>2, SameReply DEF SliceInv
<1>4. Needed(c)' = Needed(c) /\ Own(c)' = Own(c) /\ PlaceOf(Now(c))' = PlaceOf(Now(c))
  BY <1>1, <1>2, FetchNeeds
<1>5. OwnThere(c) => Safe(cache', c, Needed(c)') /\ AsksOthers(c)'
  <2> SUFFICES ASSUME OwnThere(c)
               PROVE  Safe(cache', c, Needed(c)') /\ AsksOthers(c)'
    OBVIOUS
  <2>1. CodePlace(got[c].code) \notin Own(c) /\ PlaceOf(Now(c)) \notin Own(c)
    BY <1>1, <1>2, LackedIsNotOwn DEF OwnThere, AsksOthers
  <2>2. AsksOthers(c)'
    BY <1>1, <1>4, <2>1 DEF AsksOthers
  <2> QED BY <1>1, <1>4, <2>2 DEF OwnThere
<1>6. Needed(c)' \subseteq Places
  BY <1>2, <1>3, <1>4, NeededPlaces
<1>7. OwnInv(c)'
  BY <1>1, <1>2, <1>3, <1>4, <1>5, <1>6, OwnKept DEF OnlyOf, Keeps
<1> QED BY <1>1, <1>3, <1>7, KeepsSlice DEF OnlyOf

LEMMA StoreCodeSlice ==
  ASSUME IInv, SliceInv, NEW c \in Callers, StoreCode(c)
  PROVE  SliceInv'
<1>1. OnlyOf(c) /\ pc[c] = "coded" /\ pc'[c] = "store" /\ UNCHANGED <<call, reply, run, got>>
  BY Facts DEF StoreCode, Keeps, OnlyOf
<1>2. pc[c] # "idle" /\ InRun(c) /\ Fetching(c) /\ Fetching(c)'
  BY <1>1 DEF InRun, Fetching
<1>3. ReplyInv(c) /\ OwnInv(c) /\ ReplyInv(c)' /\ (Alone(c)' => Alone(c))
  BY <1>1, <1>2, SameReply DEF SliceInv
<1>4. Needed(c)' = Needed(c) /\ Own(c)' = Own(c) /\ PlaceOf(Now(c))' = PlaceOf(Now(c))
  BY <1>1, <1>2, FetchNeeds
<1>5. Needed(c) \subseteq Places
  BY <1>2, <1>3, NeededPlaces
<1>6. (OwnThere(c) /\ FitsIn(Needed(c)')) => Safe(cache', c, Needed(c)') /\ AsksOthers(c)'
  <2> SUFFICES ASSUME OwnThere(c), FitsIn(Needed(c))
               PROVE  Safe(cache', c, Needed(c)) /\ AsksOthers(c)'
    BY <1>4
  <2>1. AsksOthers(c)'
    BY <1>1, <1>2, <1>4 DEF AsksOthers, OwnThere
  <2>2. CASE code[c] = None
    BY <2>1, <2>2 DEF OwnThere, StoreCode
  <2>3. CASE code[c] # None
    <3> DEFINE e == Entry(CodePlace(got[c].code), code[c])
    <3>1. e \in Said(world) /\ CodePlace(got[c].code) \in Pending(c)
      BY <1>1, <2>3, CodeSaid DEF Pending, Fetching
    <3>2. e.at = CodePlace(got[c].code) /\ cache' = Put(cache, e)
      BY <2>3 DEF StoreCode, Entry
    <3>3. e.at \in Needed(c) /\ e.at \notin Own(c) /\ Safe(cache, c, Needed(c))
      BY <1>1, <3>1, <3>2 DEF OwnThere, AsksOthers, Needed
    <3> HIDE DEF e
    <3>4. Safe(Put(cache, e), c, Needed(c))
      BY <1>2, <1>3, <1>5, <3>1, <3>3, PutSafe
    <3> QED BY <2>1, <3>2, <3>4
  <2> QED BY <2>2, <2>3
<1>7. OwnInv(c)'
  BY <1>1, <1>2, <1>3, <1>4, <1>5, <1>6, OwnKept DEF OnlyOf, Keeps
<1> QED BY <1>1, <1>3, <1>7, KeepsSlice DEF OnlyOf

LEMMA MoveSlice == IInv /\ SliceInv /\ Move => SliceInv'
<1> SUFFICES ASSUME IInv, SliceInv, Move, NEW c \in Callers
             PROVE  ReplyInv(c)' /\ OwnInv(c)'
  BY DEF SliceInv
<1>1. world' = world + 1 /\ world \in Nat /\ 1..world \subseteq 1..world'
  BY Facts, HistoryType DEF Move
<1>2. UNCHANGED <<client, history, cache, pc, call, reply, run, got, code, verdict>>
  BY DEF Move, caller
<1>3. ReplyInv(c)'
  BY <1>1, <1>2 DEF SliceInv, ReplyInv
<1>4. OwnInv(c)' = OwnInv(c)
  BY <1>2 DEF OwnInv, OwnThere, Safe, AsksOthers, Own, Needed, Touched, Pending, ReadPlaces,
              CodePlaces, FitsIn, InRun, Alone, Fetching, PlaceOf, Now
<1> QED BY <1>3, <1>4 DEF SliceInv

LEMMA StutterSlice == SliceInv /\ UNCHANGED vars => SliceInv'
<1> SUFFICES ASSUME SliceInv, UNCHANGED vars, NEW c \in Callers
             PROVE  ReplyInv(c)' /\ OwnInv(c)'
  BY DEF SliceInv
<1>1. UNCHANGED <<client, history, world, cache, pc, call, reply, run, got, code, verdict>>
  BY DEF vars, caller
<1>2. ReplyInv(c)'
  BY <1>1 DEF SliceInv, ReplyInv
<1>3. OwnInv(c)' = OwnInv(c)
  BY <1>1 DEF OwnInv, OwnThere, Safe, AsksOthers, Own, Needed, Touched, Pending, ReadPlaces,
              CodePlaces, FitsIn, InRun, Alone, Fetching, PlaceOf, Now
<1> QED BY <1>2, <1>3 DEF SliceInv

LEMMA InitSlice == Init => SliceInv
BY DEF Init, SliceInv, ReplyInv, OwnInv, InRun

LEMMA StepSlice == IInv /\ SliceInv /\ [Next]_vars => SliceInv'
<1> SUFFICES ASSUME IInv, SliceInv, [Next]_vars
             PROVE  SliceInv'
  OBVIOUS
<1>1. CASE Move
  BY <1>1, MoveSlice
<1>2. ASSUME NEW c \in Callers, (\E r \in Requests : Ask(c, r)) \/ Fail(c) \/ Step(c)
      PROVE  SliceInv'
  BY <1>2, AskSlice, EndSlice, StartRunSlice, KnownSlice, HitSlice, NoSuchCodeSlice, GetSlice,
     GetItsCodeSlice, StoreCodeSlice, StoreAnswerSlice DEF Step
<1>3. CASE UNCHANGED vars
  BY <1>3, StutterSlice
<1> QED BY <1>1, <1>2, <1>3 DEF Next

\* A cached entry is the one at its place.
LEMMA EntryIsCached ==
  ASSUME IInv, NEW e, e.at.tier \in Tiers, HasEntry(cache[e.at.tier], e)
  PROVE  Cached(e.at) /\ CachedValue(e.at) = e.value
<1> DEFINE tier == cache[e.at.tier]
           i == PositionOf(tier, e.at)
<1>1. tier \in Seq(Said(world)) /\ Distinct(tier)
  BY Facts DEF Caches
<1>2. PICK j \in DOMAIN tier : tier[j] = e
  BY DEF HasEntry
<1>3. Held(tier, e.at)
  BY <1>2 DEF Held
<1>4. i \in DOMAIN tier /\ tier[i].at = e.at
  BY <1>1, <1>3, HeldAt
<1>5. i = j
  BY <1>1, <1>2, <1>4 DEF Distinct
<1> QED BY <1>2, <1>3, <1>5 DEF Cached, CachedValue, ValueOf

LEMMA SliceStays == IInv /\ SliceInv => OwnSliceStays
<1> SUFFICES ASSUME IInv, SliceInv, NEW c \in Callers, pc[c] = "run", Alone(c), Fits(c),
                    NEW i \in DOMAIN reply[c].slice
             PROVE  /\ Cached(reply[c].slice[i].at)
                    /\ CachedValue(reply[c].slice[i].at) = reply[c].slice[i].value
  BY DEF OwnSliceStays
<1>1. Needed(c) = Touched(c)
  BY DEF Needed, Pending, Fetching
<1>2. OwnThere(c)
  BY <1>1 DEF SliceInv, OwnInv, InRun, Fits, FitsIn
<1>3. reply[c].slice[i] \in Said(world)
  <2>1. reply[c].slice \in Seq(Said(world))
    BY ReplySlice DEF SliceInv
  <2> QED BY <2>1
<1>4. reply[c].slice[i].at.tier \in Tiers
  BY <1>3, SaidAt
<1>5. HasEntry(cache[reply[c].slice[i].at.tier], reply[c].slice[i])
  BY <1>2 DEF OwnThere, Safe, HasSlice
<1> QED BY <1>4, <1>5, EntryIsCached

\* What a call was given stays in the caches until the call ends, if all that it touches
\* fits into them and no other call is made.
THEOREM OwnSlicesStay == Spec => []OwnSliceStays
<1>1. Init => IInv /\ SliceInv
  BY InitInvariant, InitSlice
<1>2. IInv /\ SliceInv /\ [Next]_vars => (IInv /\ SliceInv)'
  BY StepInvariant, StepSlice
<1> QED BY <1>1, <1>2, SliceStays, PTL DEF Spec

----------------------------------------------------------------------------
(* The rules in force at a block (chain-spec lib.rs:44-55).                *)

\* The forks that are active, and the last of them.
Forks == [by: {"block", "timestamp"}, at: Nat, spec: DOMAIN SpecIds]
ActiveAt(schedule, number, time) == {i \in DOMAIN schedule : Active(schedule[i], number, time)}

LastSpec(schedule, on) ==
  IF on = {} THEN SpecId("FRONTIER")
  ELSE schedule[CHOOSE i \in on : \A j \in on : j <= i].spec

LEMMA SpecIsOfLast ==
  ASSUME NEW schedule, NEW n, NEW t
  PROVE  SpecAt(schedule, n, t) = LastSpec(schedule, ActiveAt(schedule, n, t))
BY DEF SpecAt, LastSpec, ActiveAt

LEMMA LastActive ==
  ASSUME NEW m \in Nat, NEW on \in SUBSET (1..m), on # {}
  PROVE  \E i \in on : \A j \in on : j <= i
<1> DEFINE S == {n \in 0..m : on \cap (1..n) = {} \/ \E i \in on : \A j \in on \cap (1..n) : j <= i}
<1>1. 0 \in S
  OBVIOUS
<1>2. ASSUME NEW n \in 0..(m - 1), n \in S
      PROVE  n + 1 \in S
  <2>1. n + 1 \in 0..m /\ \A j \in on \cap (1..(n + 1)) : j <= n + 1 /\ (j = n + 1 \/ j \in 1..n)
    OBVIOUS
  <2>2. CASE n + 1 \in on
    BY <2>1, <2>2
  <2>3. CASE n + 1 \notin on
    BY <1>2, <2>1, <2>3
  <2> QED BY <2>2, <2>3
<1>3. m \in S
  <2> HIDE DEF S
  <2> QED BY <1>1, <1>2, SetInduction
<1> QED BY <1>3

LEMMA FrontierIsFirst == SpecId("FRONTIER") = 1
<1>1. DOMAIN SpecIds = 1..19 /\ SpecIds[1] = "FRONTIER"
      /\ \A i \in 2..19 : SpecIds[i] # "FRONTIER"
  BY DEF SpecIds
<1> QED BY <1>1 DEF SpecId

LEMMA ForkType ==
  ASSUME NEW fork \in Forks
  PROVE  fork.at \in Nat /\ fork.spec \in Nat /\ 1 <= fork.spec
<1>1. fork.at \in Nat /\ fork.spec \in DOMAIN SpecIds
  BY DEF Forks
<1>2. \A i \in DOMAIN SpecIds : i \in Nat /\ 1 <= i
  BY DEF SpecIds
<1> QED BY <1>1, <1>2

LEMMA ForkTypes ==
  ASSUME NEW schedule \in Seq(Forks), NEW i \in DOMAIN schedule
  PROVE  schedule[i].at \in Nat /\ schedule[i].spec \in Nat /\ 1 <= schedule[i].spec
<1>1. schedule[i] \in Forks
  OBVIOUS
<1> QED BY <1>1, ForkType

LEMMA SpecOfLast ==
  ASSUME NEW schedule \in Seq(Forks), NEW n, NEW t,
         ActiveAt(schedule, n, t) # {}
  PROVE  \E i \in ActiveAt(schedule, n, t) :
           /\ \A j \in ActiveAt(schedule, n, t) : j <= i
           /\ SpecAt(schedule, n, t) = schedule[i].spec
<1> DEFINE on == ActiveAt(schedule, n, t)
           i == CHOOSE i \in on : \A j \in on : j <= i
<1>1. Len(schedule) \in Nat /\ on \subseteq 1..Len(schedule)
  BY DEF ActiveAt
<1>2. \E k \in on : \A j \in on : j <= k
  <2>1. on # {} /\ on \in SUBSET (1..Len(schedule))
    BY <1>1
  <2> HIDE DEF on
  <2> QED BY <1>1, <2>1, LastActive
<1>3. i \in on /\ \A j \in on : j <= i
  BY <1>2
<1>4. SpecAt(schedule, n, t) = schedule[i].spec
  BY DEF SpecAt, ActiveAt
<1> QED BY <1>3, <1>4

\* The rules in force never go back from a block to a later one.
THEOREM RulesAdvance ==
  ASSUME NEW schedule \in Seq(Forks), Advances(schedule),
         NEW n \in Nat, NEW m \in Nat, n <= m, NEW t \in Nat, NEW u \in Nat, t <= u
  PROVE  SpecAt(schedule, n, t) <= SpecAt(schedule, m, u)
<1>1. ActiveAt(schedule, n, t) \subseteq ActiveAt(schedule, m, u)
  <2>1. ASSUME NEW i \in DOMAIN schedule, Active(schedule[i], n, t)
        PROVE  Active(schedule[i], m, u)
    <3>1. schedule[i].at \in Nat
      BY ForkTypes
    <3> QED BY <2>1, <3>1 DEF Active
  <2> QED BY <2>1 DEF ActiveAt
<1>2. \A i \in DOMAIN schedule : schedule[i].spec \in Nat /\ 1 <= schedule[i].spec
  BY ForkTypes
<1>3. CASE ActiveAt(schedule, n, t) = {}
  <2>1. SpecAt(schedule, n, t) = 1
    BY <1>3, FrontierIsFirst DEF SpecAt, ActiveAt
  <2>2. CASE ActiveAt(schedule, m, u) = {}
    BY <2>1, <2>2, FrontierIsFirst DEF SpecAt, ActiveAt
  <2>3. CASE ActiveAt(schedule, m, u) # {}
    <3>1. PICK i \in ActiveAt(schedule, m, u) : SpecAt(schedule, m, u) = schedule[i].spec
      BY <2>3, SpecOfLast
    <3>2. i \in DOMAIN schedule
      BY DEF ActiveAt
    <3> QED BY <1>2, <2>1, <3>1, <3>2
  <2> QED BY <2>2, <2>3
<1>4. CASE ActiveAt(schedule, n, t) # {}
  <2>1. PICK i \in ActiveAt(schedule, n, t) : SpecAt(schedule, n, t) = schedule[i].spec
    BY <1>4, SpecOfLast
  <2>2. PICK k \in ActiveAt(schedule, m, u) :
          /\ \A j \in ActiveAt(schedule, m, u) : j <= k
          /\ SpecAt(schedule, m, u) = schedule[k].spec
    BY <1>1, <1>4, SpecOfLast
  <2>3. i \in DOMAIN schedule /\ k \in DOMAIN schedule /\ i <= k
    BY <1>1, <2>2 DEF ActiveAt
  <2>4. i = k \/ i < k
    BY <2>3
  <2> QED BY <1>2, <2>1, <2>2, <2>3, <2>4 DEF Advances
<1> QED BY <1>3, <1>4

\* The rules of a prefetch, at the head and timestamp 0, are never newer than those of
\* the block, and the same on a chain that forks by block number alone (api lib.rs:303).
THEOREM PrefetchRulesLag ==
  ASSUME NEW schedule \in Seq(Forks), Advances(schedule), NEW n \in Nat, NEW t \in Nat
  PROVE  /\ SpecAt(schedule, n, 0) <= SpecAt(schedule, n, t)
         /\ (\A i \in DOMAIN schedule : Active(schedule[i], n, t) => schedule[i].by = "block")
              => SpecAt(schedule, n, 0) = SpecAt(schedule, n, t)
<1>1. SpecAt(schedule, n, 0) <= SpecAt(schedule, n, t)
  BY RulesAdvance
<1>2. ASSUME \A i \in DOMAIN schedule : Active(schedule[i], n, t) => schedule[i].by = "block"
      PROVE  SpecAt(schedule, n, 0) = SpecAt(schedule, n, t)
  <2>1. ASSUME NEW i \in DOMAIN schedule
        PROVE  Active(schedule[i], n, 0) <=> Active(schedule[i], n, t)
    <3>1. schedule[i].at \in Nat
      BY ForkTypes
    <3> QED BY <1>2, <3>1 DEF Active
  <2>2. ActiveAt(schedule, n, 0) = ActiveAt(schedule, n, t)
    BY <2>1 DEF ActiveAt
  <2> QED BY <2>2, SpecIsOfLast
<1> QED BY <1>1, <1>2
=============================================================================
