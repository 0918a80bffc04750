------------------------- MODULE Validation_proofs -------------------------
(***************************************************************************)
(* Proofs about the validation: the samples are different rows, and the    *)
(* report says what they show, for any rows, node and number of samples.   *)
(***************************************************************************)
EXTENDS Validation, Integers, TLAPS

\* Division with a remainder, of natural numbers.
LEMMA Division ==
  ASSUME NEW a \in Nat, NEW n \in Nat \ {0}
  PROVE  a \div n \in Nat /\ a % n \in 0..(n - 1) /\ a = n * (a \div n) + (a % n)
<1>1. a \div n \in Int
  OBVIOUS
<1>2. a % n \in 0..(n - 1) /\ a = n * (a \div n) + (a % n)
  OBVIOUS
<1>3. a \div n >= 0
  BY <1>1, <1>2
<1> QED BY <1>1, <1>2, <1>3

LEMMA Cancel ==
  ASSUME NEW n \in Nat \ {0}, NEW x \in Nat, NEW y \in Nat, n * x < n * y
  PROVE  x < y
<1>1. ASSUME y <= x PROVE n * y <= n * x
  <2>1. PICK k \in Nat : x = y + k
    <3>1. x - y \in Nat /\ x = y + (x - y)
      BY <1>1
    <3> QED BY <3>1
  <2>2. n * x = n * y + n * k /\ n * k >= 0
    BY <2>1
  <2> QED BY <2>2
<1>2. n * x \in Nat /\ n * y \in Nat
  OBVIOUS
<1> QED BY <1>1, <1>2

\* A later sample lies further on, by len at least before the division.
LEMMA Further ==
  ASSUME NEW i \in Nat, NEW j \in Nat, i < j, NEW len \in Nat
  PROVE  i * len \in Nat /\ j * len \in Nat /\ j * len >= i * len + len
<1>1. PICK k \in Nat : j = i + 1 + k
  <2>1. j - i - 1 \in Nat /\ j = i + 1 + (j - i - 1)
    OBVIOUS
  <2> QED BY <2>1
<1>2. j * len = i * len + len + k * len
  BY <1>1
<1>3. k * len >= 0
  BY <1>1
<1> QED BY <1>2, <1>3

\* Where there are fewer samples than rows, the quotients of two samples differ, and by
\* more than one if the later one is whole.
LEMMA Quotients ==
  ASSUME NEW len \in Nat, NEW n \in Nat \ {0}, n < len,
         NEW i \in Nat, NEW j \in Nat, i < j
  PROVE  /\ (i * len) \div n \in Nat /\ (j * len) \div n \in Nat
         /\ (i * len) \div n < (j * len) \div n
         /\ (j * len) % n = 0 => (i * len) \div n + 1 < (j * len) \div n
<1> DEFINE a == i * len
           b == j * len
<1>1. a \in Nat /\ b \in Nat /\ b >= a + len
  BY Further
<1>2. /\ a \div n \in Nat /\ a % n \in 0..(n - 1) /\ a = n * (a \div n) + (a % n)
      /\ b \div n \in Nat /\ b % n \in 0..(n - 1) /\ b = n * (b \div n) + (b % n)
  BY <1>1, Division
<1> HIDE DEF a, b
<1>3. n * (a \div n) < n * (b \div n)
  BY <1>1, <1>2
<1>4. a \div n < b \div n
  BY <1>2, <1>3, Cancel
<1>5. ASSUME b % n = 0 PROVE a \div n + 1 < b \div n
  <2>1. n * (a \div n + 1) = n * (a \div n) + n
    BY <1>2
  <2>2. n * (a \div n + 1) < n * (b \div n)
    BY <1>1, <1>2, <1>5, <2>1
  <2>3. a \div n + 1 \in Nat
    BY <1>2
  <2> QED BY <1>2, <2>2, <2>3, Cancel
<1> QED BY <1>2, <1>4, <1>5 DEF a, b

\* The last sample is a row.
LEMMA QuotientBound ==
  ASSUME NEW len \in Nat \ {0}, NEW n \in Nat \ {0}, NEW i \in Nat, i < n
  PROVE  (i * len) \div n < len
<1> DEFINE a == i * len
<1>1. a \in Nat /\ n * len \in Nat /\ n * len >= a + len
  BY Further
<1> HIDE DEF a
<1>2. a \div n \in Nat /\ a % n \in 0..(n - 1) /\ a = n * (a \div n) + (a % n)
  BY <1>1, Division
<1>3. n * (a \div n) < n * len
  BY <1>1, <1>2
<1>4. a \div n < len
  BY <1>2, <1>3, Cancel
<1> QED BY <1>4 DEF a

\* Samples are rows in their order, as many as asked for or all of them.
LEMMA SamplesAreRows ==
  ASSUME NEW len \in Nat, NEW n \in Nat, NEW s \in SamplesOf(len, n)
  PROVE  /\ s \in Seq(1..len) /\ Len(s) = Smaller(n, len)
         /\ \A i, j \in 1..Len(s) : i < j => s[i] < s[j]
         /\ n >= len => \A p \in 1..len : s[p] = p
<1>1. CASE len = 0 \/ n = 0
  <2>1. s = <<>>
    BY <1>1 DEF SamplesOf
  <2>2. s \in Seq(1..len) /\ Len(s) = 0
    BY <2>1
  <2>3. Smaller(n, len) = 0 /\ (n >= len => 1..len = {})
    BY <1>1 DEF Smaller
  <2> QED BY <2>2, <2>3
<1>2. CASE len # 0 /\ n # 0 /\ n >= len
  <2>1. s = [i \in 1..len |-> i]
    BY <1>2 DEF SamplesOf
  <2> QED BY <1>2, <2>1 DEF Smaller
<1>3. CASE len # 0 /\ n # 0 /\ ~ (n >= len)
  <2>1. PICK short \in SUBSET MayFallShort(len, n) :
          s = [i \in 1..n |-> ((i - 1) * len) \div n + (IF i - 1 \in short THEN 0 ELSE 1)]
    BY <1>3 DEF SamplesOf
  <2>2. ASSUME NEW i \in 1..n PROVE s[i] \in 1..len
    <3> DEFINE q == ((i - 1) * len) \div n
    <3>1. i - 1 \in Nat /\ i - 1 < n
      OBVIOUS
    <3>2. q < len
      BY <1>3, <3>1, QuotientBound
    <3>3. q \in Nat
      BY <1>3, <3>1, Division, Further
    <3>4. i - 1 \in short => q >= 1
      <4> SUFFICES ASSUME i - 1 \in short PROVE q >= 1
        OBVIOUS
      <4>1. 0 < i - 1
        BY <2>1 DEF MayFallShort
      <4>2. (0 * len) \div n \in Nat /\ (0 * len) \div n < q
        BY <1>3, <3>1, <4>1, Quotients
      <4> QED BY <3>3, <4>2
    <3>5. s[i] = q + (IF i - 1 \in short THEN 0 ELSE 1)
      BY <2>1
    <3> HIDE DEF q
    <3> QED BY <3>2, <3>3, <3>4, <3>5
  <2>3. s \in Seq(1..len) /\ Len(s) = n
    <3>1. s \in [1..n -> 1..len]
      BY <2>1, <2>2
    <3> QED BY <1>3, <3>1
  <2>4. ASSUME NEW i \in 1..n, NEW j \in 1..n, i < j PROVE s[i] < s[j]
    <3> DEFINE qi == ((i - 1) * len) \div n
               qj == ((j - 1) * len) \div n
    <3>1. i - 1 \in Nat /\ j - 1 \in Nat /\ i - 1 < j - 1
      BY <2>4
    <3>2. qi \in Nat /\ qj \in Nat /\ qi < qj /\ (((j - 1) * len) % n = 0 => qi + 1 < qj)
      BY <1>3, <3>1, Quotients
    <3>3. j - 1 \in short => ((j - 1) * len) % n = 0
      BY <2>1 DEF MayFallShort
    <3>4. /\ s[i] = qi + (IF i - 1 \in short THEN 0 ELSE 1)
          /\ s[j] = qj + (IF j - 1 \in short THEN 0 ELSE 1)
      BY <2>1
    <3> HIDE DEF qi, qj
    <3> QED BY <3>2, <3>3, <3>4
  <2> QED BY <1>3, <2>3, <2>4 DEF Smaller
<1> QED BY <1>1, <1>2, <1>3

----------------------------------------------------------------------------
\* What there is to compare with.
LEMMA GivenTypes ==
  ASSUME GivenOK
  PROVE  /\ accounts \in Seq([nonce: Nat, code: Code \cup {NoCode}, writer: Writers])
         /\ slots \in Seq(Nat) /\ count \in Nat
         /\ atAccounts \in Seq(1..Len(accounts)) /\ atSlots \in Seq(1..Len(slots))
         /\ \A p \in 1..Len(accounts) : node.code[p] \in Code \cup {NoCode}
<1>1. /\ accounts \in Seq([nonce: Nat, code: Code \cup {NoCode}, writer: Writers])
      /\ slots \in Seq(Nat) /\ count \in Nat
      /\ \A p \in 1..Len(accounts) : node.code[p] \in Code \cup {NoCode}
  BY RowsType, NodesType DEF GivenOK
<1>2. Len(accounts) \in Nat /\ Len(slots) \in Nat
  BY <1>1
<1> QED BY <1>1, <1>2, SamplesAreRows DEF GivenOK

LEMMA SpreadSamples == ASSUME GivenOK PROVE SamplesSpread
<1>1. Len(accounts) \in Nat /\ Len(slots) \in Nat /\ count \in Nat
  BY GivenTypes
<1> QED BY <1>1, SamplesAreRows DEF GivenOK, SamplesSpread

LEMMA Element == ASSUME NEW T, NEW x \in Seq(T), NEW i \in 1..Len(x) PROVE x[i] \in T
OBVIOUS

\* What two sequences are together.
Joined(all, x, y) ==
  /\ Len(all) = Len(x) + Len(y)
  /\ \A c \in 1..Len(x) : all[c] = x[c]
  /\ \A c \in (Len(x) + 1)..(Len(x) + Len(y)) : all[c] = y[c - Len(x)]

LEMMA Together ==
  ASSUME NEW T, NEW x \in Seq(T), NEW y \in Seq(T)
  PROVE  x \o y \in Seq(T) /\ Joined(x \o y, x, y)
BY DEF Joined

\* Each sampled account is checked for its nonce and its code, each sampled slot once.
EachChecked(all, a, s) ==
  /\ \A i \in 1..Len(a) : \E c, d \in 1..Len(all) :
       all[c] = <<"nonce", a[i]>> /\ all[d] = <<"codeHash", a[i]>>
  /\ \A i \in 1..Len(s) : \E c \in 1..Len(all) : all[c] = <<"storage", s[i]>>

\* Every check is of a sampled row.
OfSamples(all, a, s) ==
  \A c \in 1..Len(all) :
    \/ \E i \in 1..Len(a) : all[c] \in {<<"nonce", a[i]>>, <<"codeHash", a[i]>>}
    \/ \E i \in 1..Len(s) : all[c] = <<"storage", s[i]>>

LEMMA ChecksListed ==
  ASSUME NEW m \in Nat, NEW k \in Nat, NEW a \in Seq(1..m), NEW s \in Seq(1..k)
  PROVE  /\ ChecksOf(a, s) \in Seq({"nonce", "codeHash", "storage"} \X Nat)
         /\ EachChecked(ChecksOf(a, s), a, s) /\ OfSamples(ChecksOf(a, s), a, s)
<1> DEFINE Kind == {"nonce", "codeHash", "storage"}
           first == [i \in 1..(2 * Len(a)) |->
                       <<IF i % 2 = 1 THEN "nonce" ELSE "codeHash", a[(i + 1) \div 2]>>]
           second == [i \in 1..Len(s) |-> <<"storage", s[i]>>]
<1>1. ChecksOf(a, s) = first \o second
  BY DEF ChecksOf
<1>2. ASSUME NEW i \in 1..(2 * Len(a))
      PROVE  (i + 1) \div 2 \in 1..Len(a) /\ a[(i + 1) \div 2] \in 1..m
  <2>1. Len(a) \in Nat /\ (i + 1) \div 2 \in 1..Len(a)
    OBVIOUS
  <2> QED BY <2>1
<1>3. first \in Seq(Kind \X Nat) /\ Len(first) = 2 * Len(a)
  <2>1. ASSUME NEW i \in 1..(2 * Len(a))
        PROVE  <<IF i % 2 = 1 THEN "nonce" ELSE "codeHash", a[(i + 1) \div 2]>> \in Kind \X Nat
    <3>1. a[(i + 1) \div 2] \in Nat
      BY <1>2
    <3> QED BY <3>1
  <2>2. first \in [1..(2 * Len(a)) -> Kind \X Nat]
    BY <2>1, Zenon
  <2>3. 2 * Len(a) \in Nat
    OBVIOUS
  <2> QED BY <2>2, <2>3
<1>4. second \in Seq(Kind \X Nat) /\ Len(second) = Len(s)
  <2>1. second \in [1..Len(s) -> Kind \X Nat]
    OBVIOUS
  <2> QED BY <2>1
<1>5. \A i \in 1..(2 * Len(a)) :
        first[i] = <<IF i % 2 = 1 THEN "nonce" ELSE "codeHash", a[(i + 1) \div 2]>>
  OBVIOUS
<1>6. \A i \in 1..Len(s) : second[i] = <<"storage", s[i]>>
  OBVIOUS
<1> HIDE DEF first, second
<1>7. /\ ChecksOf(a, s) \in Seq(Kind \X Nat)
      /\ \A c \in 1..(2 * Len(a)) : ChecksOf(a, s)[c] = first[c]
      /\ \A c \in (2 * Len(a) + 1)..(2 * Len(a) + Len(s)) :
           ChecksOf(a, s)[c] = second[c - 2 * Len(a)]
      /\ Len(ChecksOf(a, s)) = 2 * Len(a) + Len(s)
  <2>1. first \o second \in Seq(Kind \X Nat) /\ Joined(first \o second, first, second)
    BY <1>3, <1>4, Together, Zenon
  <2> QED BY <1>1, <1>3, <1>4, <2>1, Zenon DEF Joined
<1>8. Len(ChecksOf(a, s)) = 2 * Len(a) + Len(s) /\ Len(a) \in Nat /\ Len(s) \in Nat
  <2>1. Len(a) \in Nat /\ Len(s) \in Nat
    OBVIOUS
  <2> QED BY <1>7, <2>1, Zenon
<1>9. ASSUME NEW i \in 1..Len(a)
      PROVE  \E c, d \in 1..Len(ChecksOf(a, s)) :
               ChecksOf(a, s)[c] = <<"nonce", a[i]>> /\ ChecksOf(a, s)[d] = <<"codeHash", a[i]>>
  <2>1. /\ 2 * i - 1 \in 1..(2 * Len(a)) /\ 2 * i \in 1..(2 * Len(a))
        /\ (2 * i - 1) % 2 = 1 /\ (2 * i) % 2 = 0
        /\ ((2 * i - 1) + 1) \div 2 = i /\ (2 * i + 1) \div 2 = i
    OBVIOUS
  <2>2. first[2 * i - 1] = <<"nonce", a[i]>> /\ first[2 * i] = <<"codeHash", a[i]>>
    <3>1. first[2 * i - 1] = <<IF (2 * i - 1) % 2 = 1 THEN "nonce" ELSE "codeHash",
                               a[((2 * i - 1) + 1) \div 2]>>
      BY <1>5, <2>1, Zenon
    <3>2. first[2 * i] = <<IF (2 * i) % 2 = 1 THEN "nonce" ELSE "codeHash",
                           a[(2 * i + 1) \div 2]>>
      BY <1>5, <2>1, Zenon
    <3>3. first[2 * i - 1] = <<"nonce", a[i]>>
      BY <2>1, <3>1, Zenon
    <3>4. (2 * i) % 2 # 1
      BY <2>1
    <3>5. first[2 * i] = <<"codeHash", a[i]>>
      BY <2>1, <3>2, <3>4, Zenon
    <3> QED BY <3>3, <3>5
  <2>3. 2 * i - 1 \in 1..Len(ChecksOf(a, s)) /\ 2 * i \in 1..Len(ChecksOf(a, s))
    BY <1>8, <2>1
  <2> QED BY <1>7, <2>1, <2>2, <2>3
<1>10. ASSUME NEW i \in 1..Len(s)
       PROVE  \E c \in 1..Len(ChecksOf(a, s)) : ChecksOf(a, s)[c] = <<"storage", s[i]>>
  <2>1. /\ 2 * Len(a) + i \in (2 * Len(a) + 1)..(2 * Len(a) + Len(s))
        /\ 2 * Len(a) + i \in 1..Len(ChecksOf(a, s))
        /\ (2 * Len(a) + i) - 2 * Len(a) = i
    BY <1>8
  <2> QED BY <1>6, <1>7, <2>1
<1>11. ASSUME NEW c \in 1..Len(ChecksOf(a, s))
       PROVE  \/ \E i \in 1..Len(a) : ChecksOf(a, s)[c] \in {<<"nonce", a[i]>>, <<"codeHash", a[i]>>}
              \/ \E i \in 1..Len(s) : ChecksOf(a, s)[c] = <<"storage", s[i]>>
  <2>1. CASE c \in 1..(2 * Len(a))
    <3>1. ChecksOf(a, s)[c] = <<IF c % 2 = 1 THEN "nonce" ELSE "codeHash", a[(c + 1) \div 2]>>
      BY <1>5, <1>7, <2>1
    <3>2. (c + 1) \div 2 \in 1..Len(a)
      BY <1>2, <2>1
    <3> QED BY <3>1, <3>2
  <2>2. CASE c \in (2 * Len(a) + 1)..(2 * Len(a) + Len(s))
    <3>1. c - 2 * Len(a) \in 1..Len(s)
      BY <2>2
    <3>2. ChecksOf(a, s)[c] = <<"storage", s[c - 2 * Len(a)]>>
      BY <1>6, <1>7, <2>2, <3>1
    <3> QED BY <3>1, <3>2
  <2>3. c \in 1..(2 * Len(a)) \/ c \in (2 * Len(a) + 1)..(2 * Len(a) + Len(s))
    <3>1. c \in 1..(2 * Len(a) + Len(s)) /\ Len(a) \in Nat /\ Len(s) \in Nat
      BY <1>8
    <3> QED BY <3>1
  <2> QED BY <2>1, <2>2, <2>3
<1> QED BY <1>7, <1>9, <1>10, <1>11 DEF EachChecked, OfSamples

LEMMA ChecksGiven ==
  ASSUME GivenOK
  PROVE  /\ Checks \in Seq({"nonce", "codeHash", "storage"} \X Nat)
         /\ EachChecked(Checks, atAccounts, atSlots) /\ OfSamples(Checks, atAccounts, atSlots)
<1>1. Len(accounts) \in Nat /\ Len(slots) \in Nat
  BY GivenTypes
<1>2. atAccounts \in Seq(1..Len(accounts)) /\ atSlots \in Seq(1..Len(slots))
  BY GivenTypes
<1> QED BY <1>1, <1>2, ChecksListed, Zenon DEF Checks

----------------------------------------------------------------------------
LEMMA InitInvariant == ASSUME Init PROVE IInv
<1>1. GivenOK
  BY DEF Init, GivenOK
<1>2. todo = Checks /\ Checks \in Seq({"nonce", "codeHash", "storage"} \X Nat)
  BY <1>1, ChecksGiven DEF Init, Checks
<1>3. Made = 0
  BY <1>2 DEF Made
<1> QED BY <1>1, <1>2, <1>3 DEF Init, IInv, ChecksInOrder, MismatchesSoFar, ReportInv

LEMMA CheckStep ==
  ASSUME IInv, Check
  PROVE  IInv'
<1> DEFINE T == {"nonce", "codeHash", "storage"} \X Nat
<1>1. /\ todo \in Seq(T) /\ todo # <<>> /\ Len(todo) <= Len(Checks)
      /\ \A i \in 1..Len(todo) : todo[i] = Checks[Made + i]
      /\ todo' = Tail(todo) /\ outcome = "none" /\ outcome' = "none"
      /\ UNCHANGED given /\ UNCHANGED Checks
  BY DEF IInv, ChecksInOrder, Check, given, Checks
<1>2. Len(Checks) \in Nat
  BY ChecksGiven DEF IInv
<1>3. /\ Tail(todo) \in Seq(T) /\ Len(Tail(todo)) = Len(todo) - 1 /\ Len(todo) \in Nat \ {0}
      /\ \A i \in 1..(Len(todo) - 1) : Tail(todo)[i] = todo[i + 1]
      /\ Head(todo) = todo[1]
  BY <1>1
<1>4. Made \in Nat /\ Made' = Made + 1 /\ Made + 1 <= Len(Checks) /\ Head(todo) = Checks[Made + 1]
  BY <1>1, <1>2, <1>3 DEF Made
<1>5. ChecksInOrder'
  <2>1. ASSUME NEW i \in 1..Len(todo') PROVE todo'[i] = Checks'[Made' + i]
    <3>1. i \in 1..(Len(todo) - 1) /\ i + 1 \in 1..Len(todo)
      BY <1>1, <1>3
    <3>2. todo'[i] = Checks[Made + (i + 1)]
      BY <1>1, <1>3, <3>1
    <3>3. Made + (i + 1) = Made' + i
      BY <1>4
    <3> QED BY <1>1, <3>2, <3>3
  <2>2. todo' \in Seq(T) /\ Len(todo') <= Len(Checks')
    BY <1>1, <1>2, <1>3
  <2> QED BY <2>1, <2>2 DEF ChecksInOrder
<1>6. MismatchesSoFar'
  <2>1. mismatches' = mismatches \cup (IF Matches(Head(todo)) THEN {} ELSE {Head(todo)})
    BY DEF Check
  <2>2. \A check : Matches(check)' <=> Matches(check)
    BY <1>1 DEF given, Matches, RemoteHash
  <2>3. ASSUME NEW i \in 1..Made' PROVE Matches(Checks[i]) \/ Checks[i] \in mismatches'
    <3>1. CASE i \in 1..Made
      BY <2>1, <3>1 DEF IInv, MismatchesSoFar
    <3>2. CASE i = Made + 1
      BY <1>4, <2>1, <3>2
    <3> QED BY <1>4, <3>1, <3>2
  <2>4. ASSUME NEW m \in mismatches' PROVE \E i \in 1..Len(Checks) : m = Checks[i] /\ ~ Matches(m)
    <3>1. CASE m \in mismatches
      BY <3>1 DEF IInv, MismatchesSoFar
    <3>2. CASE m = Head(todo) /\ ~ Matches(m)
      <4>1. Made + 1 \in 1..Len(Checks)
        BY <1>2, <1>4
      <4> QED BY <1>4, <3>2, <4>1
    <3> QED BY <2>1, <2>4, <3>1, <3>2
  <2> QED BY <1>1, <2>2, <2>3, <2>4 DEF MismatchesSoFar
<1>7. GivenOK' /\ ReportInv'
  BY <1>1 DEF IInv, GivenOK, ReportInv, given
<1> QED BY <1>5, <1>6, <1>7 DEF IInv

\* The last step makes no more checks.
LEMMA EndStep ==
  ASSUME IInv, CallFails \/ Report \/ UNCHANGED vars
  PROVE  IInv'
<1>1. UNCHANGED <<given, todo, mismatches>>
  BY DEF CallFails, Report, vars
<1>2. UNCHANGED <<Checks, Made>> /\ \A check : Matches(check)' <=> Matches(check)
  BY <1>1 DEF given, Checks, Made, Matches, RemoteHash
<1>3. GivenOK' /\ ChecksInOrder'
  BY <1>1, <1>2 DEF IInv, GivenOK, ChecksInOrder, given
<1>4. MismatchesSoFar'
  BY <1>1, <1>2 DEF IInv, MismatchesSoFar
<1>5. ReportInv'
  BY <1>1 DEF IInv, ReportInv, CallFails, Report, vars
<1> QED BY <1>3, <1>4, <1>5 DEF IInv

\* The inductive invariant of the validation holds in every state.
THEOREM Invariance == Spec => []IInv
<1>1. Init => IInv
  BY InitInvariant
<1>2. IInv /\ [Next]_vars => IInv'
  BY CheckStep, EndStep DEF Next, Done
<1> QED BY <1>1, <1>2, PTL DEF Spec

----------------------------------------------------------------------------
\* As many different rows are sampled as asked for, or all, whichever way the floats
\* round (lib.rs:315-325).
THEOREM SamplesDiffer == Spec => []SamplesSpread
<1>1. IInv => SamplesSpread
  BY SpreadSamples DEF IInv
<1> QED BY <1>1, Invariance, PTL

\* The hash that a row holds is the one computed of the node's code, if and only if the
\* codes are the same, but for the second hash of no code.
LEMMA HashesCompare ==
  ASSUME GivenOK, NEW p \in 1..Len(accounts)
  PROVE  /\ Matches(<<"codeHash", p>>) => accounts[p].code = node.code[p]
         /\ ~ Matches(<<"codeHash", p>>) =>
              \/ accounts[p].code # node.code[p]
              \/ accounts[p].code = NoCode /\ HashWritten(accounts[p]) = EmptyHash
<1>1. /\ accounts[p].code \in Code \cup {NoCode} /\ accounts[p].writer \in Writers
      /\ node.code[p] \in Code \cup {NoCode}
  <2>1. accounts[p] \in [nonce: Nat, code: Code \cup {NoCode}, writer: Writers]
    BY GivenTypes, Element
  <2> QED BY <2>1, GivenTypes
<1>2. Matches(<<"codeHash", p>>) <=> HashWritten(accounts[p]) = RemoteHash(p)
  BY DEF Matches
<1>3. /\ accounts[p].code # NoCode => HashWritten(accounts[p]) = accounts[p].code
      /\ accounts[p].code = NoCode => HashWritten(accounts[p]) \in {ZeroHash, EmptyHash}
  BY <1>1 DEF HashWritten, Writers
<1> QED BY <1>1, <1>2, <1>3, HashesDiffer DEF RemoteHash

\* A valid report means that no sampled row differs from the node's (lib.rs:188-223).
LEMMA ValidReport == ASSUME IInv PROVE ValidIsRight
<1> SUFFICES ASSUME outcome = "valid"
             PROVE  /\ \A i \in 1..Len(atAccounts) : ~ AccountDiffers(atAccounts[i])
                    /\ \A i \in 1..Len(atSlots) : ~ SlotDiffers(atSlots[i])
                    /\ count >= Len(accounts) => \A p \in 1..Len(accounts) : ~ AccountDiffers(p)
  BY DEF ValidIsRight
<1>1. Len(accounts) \in Nat /\ Len(slots) \in Nat /\ GivenOK
  BY GivenTypes DEF IInv
<1>2. atAccounts \in Seq(1..Len(accounts)) /\ atSlots \in Seq(1..Len(slots)) /\ count \in Nat
  BY <1>1, GivenTypes
<1>3. Checks \in Seq({"nonce", "codeHash", "storage"} \X Nat)
  BY <1>1, ChecksGiven
<1>4. \A c \in 1..Len(Checks) : Matches(Checks[c])
  BY <1>3 DEF IInv, ReportInv, MismatchesSoFar, Made
<1>5. ASSUME NEW i \in 1..Len(atAccounts) PROVE ~ AccountDiffers(atAccounts[i])
  <2>1. atAccounts[i] \in 1..Len(accounts)
    BY <1>2
  <2>2. Matches(<<"nonce", atAccounts[i]>>) /\ Matches(<<"codeHash", atAccounts[i]>>)
    BY <1>1, <1>4, ChecksGiven DEF EachChecked
  <2>3. accounts[atAccounts[i]].nonce = node.nonce[atAccounts[i]]
    BY <2>2 DEF Matches
  <2> QED BY <1>1, <2>1, <2>2, <2>3, HashesCompare DEF AccountDiffers
<1>6. ASSUME NEW i \in 1..Len(atSlots) PROVE ~ SlotDiffers(atSlots[i])
  <2>1. Matches(<<"storage", atSlots[i]>>)
    BY <1>1, <1>4, ChecksGiven DEF EachChecked
  <2> QED BY <2>1 DEF Matches, SlotDiffers
<1>7. ASSUME count >= Len(accounts), NEW p \in 1..Len(accounts) PROVE ~ AccountDiffers(p)
  <2>1. atAccounts[p] = p /\ Len(atAccounts) = Len(accounts)
    BY <1>1, <1>2, <1>7, SamplesAreRows DEF GivenOK, Smaller
  <2> QED BY <1>5, <2>1
<1> QED BY <1>5, <1>6, <1>7

\* When every check of the report matches, no row that was looked at differs.
THEOREM ValidReportIsRight == Spec => []ValidIsRight
<1>1. IInv => ValidIsRight
  BY ValidReport
<1> QED BY <1>1, Invariance, PTL

\* A sampled field was checked, and a check that does not match has its reason.
LEMMA FieldsChecked ==
  ASSUME GivenOK, NEW check \in Sampled
  PROVE  \E c \in 1..Len(Checks) : Checks[c] = check
<1>1. EachChecked(Checks, atAccounts, atSlots)
  BY ChecksGiven
<1>2. CASE \E i \in 1..Len(atAccounts) : check \in {<<"nonce", atAccounts[i]>>, <<"codeHash", atAccounts[i]>>}
  BY <1>1, <1>2 DEF EachChecked
<1>3. CASE \E i \in 1..Len(atSlots) : check = <<"storage", atSlots[i]>>
  BY <1>1, <1>3 DEF EachChecked
<1> QED BY <1>2, <1>3 DEF Sampled

LEMMA AccountMismatch ==
  ASSUME GivenOK, NEW p \in 1..Len(accounts), NEW m \in {<<"nonce", p>>, <<"codeHash", p>>}
  PROVE  /\ ~ Matches(m) => Differs(m) \/ OtherEmptyHash(m)
         /\ Matches(m) => ~ Differs(m)
<1>1. CASE m = <<"nonce", p>>
  BY <1>1 DEF Matches, Differs
<1>2. CASE m = <<"codeHash", p>>
  <2>1. Differs(m) <=> accounts[p].code # node.code[p]
    BY <1>2 DEF Differs
  <2>2. OtherEmptyHash(m) <=> accounts[p].code = NoCode /\ HashWritten(accounts[p]) = EmptyHash
    BY <1>2 DEF OtherEmptyHash
  <2> QED BY <1>2, <2>1, <2>2, HashesCompare
<1> QED BY <1>1, <1>2

LEMMA SlotMismatch ==
  ASSUME NEW p, NEW m, m = <<"storage", p>>
  PROVE  Matches(m) <=> ~ Differs(m)
BY DEF Matches, Differs, SlotDiffers

LEMMA CheckIsSampled ==
  ASSUME GivenOK, NEW c \in 1..Len(Checks)
  PROVE  /\ Checks[c] \in Sampled
         /\ ~ Matches(Checks[c]) => Differs(Checks[c]) \/ OtherEmptyHash(Checks[c])
         /\ Matches(Checks[c]) => ~ Differs(Checks[c])
<1>1. \/ \E i \in 1..Len(atAccounts) : Checks[c] \in {<<"nonce", atAccounts[i]>>, <<"codeHash", atAccounts[i]>>}
      \/ \E i \in 1..Len(atSlots) : Checks[c] = <<"storage", atSlots[i]>>
  BY ChecksGiven DEF OfSamples
<1>2. CASE \E i \in 1..Len(atAccounts) :
             Checks[c] \in {<<"nonce", atAccounts[i]>>, <<"codeHash", atAccounts[i]>>}
  <2>1. PICK i \in 1..Len(atAccounts) :
          Checks[c] \in {<<"nonce", atAccounts[i]>>, <<"codeHash", atAccounts[i]>>}
    BY <1>2
  <2>2. atAccounts[i] \in 1..Len(accounts)
    BY <2>1, GivenTypes, Element
  <2>3. Checks[c] \in Sampled
    BY <2>1 DEF Sampled
  <2> QED BY <2>1, <2>2, <2>3, AccountMismatch
<1>3. CASE \E i \in 1..Len(atSlots) : Checks[c] = <<"storage", atSlots[i]>>
  <2>1. Checks[c] \in Sampled
    BY <1>3 DEF Sampled
  <2> QED BY <1>3, <2>1, SlotMismatch
<1> QED BY <1>1, <1>2, <1>3

\* A mismatch has its reason, and an invalid report names all that differs.
LEMMA InvalidReport == ASSUME IInv PROVE AlarmHasReason
<1>1. GivenOK /\ Checks \in Seq({"nonce", "codeHash", "storage"} \X Nat)
  BY ChecksGiven DEF IInv
<1>2. ASSUME NEW m \in mismatches PROVE m \in Sampled /\ (Differs(m) \/ OtherEmptyHash(m))
  <2>1. PICK c \in 1..Len(Checks) : m = Checks[c] /\ ~ Matches(m)
    BY DEF IInv, MismatchesSoFar
  <2> QED BY <1>1, <2>1, CheckIsSampled
<1>3. ASSUME outcome = "invalid", NEW check \in Sampled, Differs(check) PROVE check \in mismatches
  <2>1. PICK c \in 1..Len(Checks) : Checks[c] = check
    BY <1>1, FieldsChecked
  <2>2. ~ Matches(Checks[c])
    BY <1>1, <1>3, <2>1, CheckIsSampled
  <2>3. c \in 1..Made
    BY <1>1, <1>3 DEF IInv, ReportInv, Made
  <2> QED BY <2>1, <2>2, <2>3 DEF IInv, MismatchesSoFar
<1> QED BY <1>2, <1>3 DEF AlarmHasReason, IInv, ReportInv

\* No alarm without a reason and none that is missing: every mismatch is of a sampled row
\* that differs in the field it names, or that holds the hash of the empty code, and an
\* invalid report names every sampled field that differs (lib.rs:188-223, 252-265).
THEOREM AlarmsHaveReasons == Spec => []AlarmHasReason
<1>1. IInv => AlarmHasReason
  BY InvalidReport
<1> QED BY <1>1, Invariance, PTL
=============================================================================
