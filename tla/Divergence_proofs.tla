-------------------------- MODULE Divergence_proofs --------------------------
(***************************************************************************)
(* The search for a diverging block is right for every range and history.  *)
(***************************************************************************)
EXTENDS Divergence, TLAPS

LEMMA InitInvariant == Init => IInv
<1> SUFFICES ASSUME Init PROVE IInv
  OBVIOUS
<1>1. TypeOK
  BY BlocksAreNumbers, HistoriesType DEF Init, TypeOK
<1>2. pc = "ask_high" /\ lo = low /\ hi = high /\ low \in Nat /\ high \in Nat
  BY <1>1 DEF Init, TypeOK
<1>3. Bracket /\ FoundTurns /\ FirstIfItLasts
  BY <1>2 DEF Bracket, FoundTurns, FirstIfItLasts, Answered
<1> QED BY <1>1, <1>3 DEF IInv

\* The middle lies between the ends, below the upper one.
LEMMA MidBetween ==
  ASSUME NEW l \in Nat, NEW h \in Nat, l < h
  PROVE  l + (h - l) \div 2 \in l..(h - 1)
<1>1. (h - l) \div 2 \in Nat /\ (h - l) \div 2 < h - l
  BY SMT
<1> QED BY <1>1

LEMMA TypeStep == TypeOK /\ [Next]_vars => TypeOK'
<1> SUFFICES ASSUME TypeOK, [Next]_vars PROVE TypeOK'
  OBVIOUS
<1>1. low \in Nat /\ high \in Nat /\ lo \in Nat /\ hi \in Nat
  BY DEF TypeOK
<1>2. CASE AgreesAtHigh \/ DiffersAtLow \/ Found \/ CallFails
  BY <1>1, <1>2 DEF TypeOK, AgreesAtHigh, DiffersAtLow, Found, CallFails, Return, inputs
<1>3. CASE DiffersAtHigh \/ AgreesAtLow
  BY <1>1, <1>3 DEF TypeOK, DiffersAtHigh, AgreesAtLow, inputs
<1>4. CASE AgreesAtMid \/ DiffersAtMid
  <2>1. lo < hi /\ UNCHANGED <<remote, local, low, high, pc, answer>>
    BY <1>4 DEF AgreesAtMid, DiffersAtMid, inputs
  <2>2. Mid \in Nat
    BY <1>1, <2>1, MidBetween DEF Mid
  <2>3. lo' \in Nat /\ hi' \in Nat
    BY <1>1, <1>4, <2>2 DEF AgreesAtMid, DiffersAtMid
  <2> QED BY <2>1, <2>3 DEF TypeOK
<1>5. CASE UNCHANGED vars
  BY <1>5 DEF TypeOK, vars, inputs
<1> QED BY <1>2, <1>3, <1>4, <1>5 DEF Next, Search, Done

\* A block where the node turns away is the first, if it never turns back.
LEMMA TurnIsFirst ==
  ASSUME TypeOK, StaysDifferent, NEW b \in low..high, Differs(b), b = low \/ ~ Differs(b - 1)
  PROVE  IsFirst(b)
<1> SUFFICES ASSUME NEW c \in low..high, c < b, Differs(c) PROVE FALSE
  BY DEF IsFirst
<1>1. low \in Nat /\ high \in Nat
  BY DEF TypeOK
<1>2. b # low /\ b - 1 \in low..high /\ c <= b - 1
  BY <1>1
<1>3. Differs(b - 1)
  BY <1>2 DEF StaysDifferent
<1> QED BY <1>2, <1>3

\* Returning a block where the node turns away, or nothing, keeps the invariant.
LEMMA ReturnStep ==
  ASSUME IInv, TypeOK', low <= high, NEW a \in (low..high) \cup {Nowhere, Failed}, Return(a),
         a \in low..high => Differs(a) /\ (a = low \/ ~ Differs(a - 1)),
         a = Nowhere => ~ Differs(high)
  PROVE  IInv'
<1>1. TypeOK /\ low \in Nat /\ high \in Nat /\ low <= high
  BY DEF IInv, TypeOK
<1>3. /\ UNCHANGED <<remote, local, low, high, lo, hi>> /\ pc' = "done" /\ answer' = a
  BY DEF Return, inputs
<1>4. \A b : Differs(b)' = Differs(b)
  BY <1>3 DEF Differs
<1>5. a \in low..high => a # Nowhere
  BY <1>1, AnswersDiffer
<1>6. Bracket'
  BY <1>3, <1>4 DEF IInv, Bracket, Answered
<1>7. FoundTurns'
  BY <1>3, <1>4 DEF FoundTurns, Answered
<1>8. FirstIfItLasts'
  <2>1. ASSUME StaysDifferent, a \in low..high PROVE IsFirst(a)
    BY <1>1, <2>1, TurnIsFirst
  <2>2. ASSUME StaysDifferent, a = Nowhere, NEW b \in low..high PROVE ~ Differs(b)
    <3>1. high \in low..high /\ b <= high
      BY <1>1
    <3> QED BY <2>2, <3>1 DEF StaysDifferent
  <2>3. StaysDifferent' = StaysDifferent /\ \A b : IsFirst(b)' = IsFirst(b)
    BY <1>3, <1>4 DEF StaysDifferent, IsFirst
  <2> QED BY <1>3, <1>4, <2>1, <2>2, <2>3 DEF FirstIfItLasts, Answered
<1> QED BY <1>6, <1>7, <1>8 DEF IInv

\* A step that goes on searching.
LEMMA SearchStep ==
  ASSUME IInv, TypeOK', low <= high, DiffersAtHigh \/ AgreesAtLow \/ AgreesAtMid \/ DiffersAtMid
  PROVE  IInv'
<1>1. /\ TypeOK /\ Bracket
      /\ UNCHANGED <<remote, local, low, high, answer>> /\ pc' # "done"
      /\ low \in Nat /\ high \in Nat /\ lo \in Nat /\ hi \in Nat /\ low <= high
      /\ lo \in low..high /\ hi \in low..high
  BY DEF IInv, TypeOK, Bracket, DiffersAtHigh, AgreesAtLow, AgreesAtMid, DiffersAtMid, inputs
<1>2. \A b : Differs(b)' = Differs(b)
  BY <1>1 DEF Differs
<1>3. FoundTurns' /\ FirstIfItLasts'
  BY <1>1 DEF FoundTurns, FirstIfItLasts, Answered
<1>4. CASE DiffersAtHigh
  <2>1. Bracket'
    BY <1>1, <1>2, <1>4 DEF DiffersAtHigh, Bracket, Answered, Differs, inputs
  <2> QED BY <1>3, <2>1 DEF IInv
<1>5. CASE AgreesAtLow
  <2>1. Bracket'
    BY <1>1, <1>2, <1>5 DEF AgreesAtLow, Bracket, Answered, Differs
  <2> QED BY <1>3, <2>1 DEF IInv
<1>6. CASE AgreesAtMid \/ DiffersAtMid
  <2>1. lo < hi /\ pc = "search" /\ pc' = "search"
    BY <1>6 DEF AgreesAtMid, DiffersAtMid
  <2>2. Mid \in lo..(hi - 1) /\ Mid \in Nat
    BY <1>1, <2>1, MidBetween DEF Mid
  <2>3. \/ lo' = Mid + 1 /\ hi' = hi /\ ~ Differs(Mid)
        \/ lo' = lo /\ hi' = Mid /\ Differs(Mid)
    BY <1>6 DEF AgreesAtMid, DiffersAtMid, Differs
  <2>4. lo' \in low..high /\ hi' \in low..high /\ lo' <= hi'
    BY <1>1, <2>2, <2>3
  <2>5. Differs(hi') /\ ~ Differs(low) /\ (lo' = low \/ ~ Differs(lo' - 1))
    <3>1. Differs(hi) /\ ~ Differs(low) /\ (lo = low \/ ~ Differs(lo - 1))
      BY <1>1, <2>1 DEF Bracket
    <3>2. lo' = Mid + 1 => lo' - 1 = Mid
      BY <2>2
    <3> QED BY <2>3, <3>1, <3>2 DEF Differs
  <2>6. Differs(high)' /\ Differs(hi)' /\ ~ Differs(low)' /\ (lo' = low' \/ ~ Differs(lo - 1)')
    <3>1. Differs(high)
      BY <1>1, <2>1 DEF Bracket
    <3> QED BY <1>1, <2>5, <3>1 DEF Differs
  <2>7. Bracket'
    BY <1>1, <2>1, <2>4, <2>6 DEF Bracket, Answered
  <2> QED BY <1>3, <2>7 DEF IInv
<1> QED BY <1>4, <1>5, <1>6

\* Every step preserves the invariant: in a range, where the search is right ...
LEMMA InRangeStep ==
  ASSUME IInv, [Next]_vars, low <= high
  PROVE  IInv'
<1>1. /\ TypeOK /\ Bracket /\ low \in low..high /\ lo \in low..high
      /\ low \in Nat /\ high \in Nat /\ hi \in low..high /\ TypeOK'
  BY TypeStep DEF IInv, TypeOK, Bracket
<1>2. CASE AgreesAtHigh
  <2>1. ~ Differs(high) /\ Nowhere \notin low..high
    BY <1>1, <1>2, AnswersDiffer DEF AgreesAtHigh, Differs
  <2> QED BY <1>1, <1>2, <2>1, ReturnStep DEF AgreesAtHigh
<1>3. CASE DiffersAtLow
  <2>1. Differs(low) /\ low # Nowhere
    BY <1>1, <1>3, AnswersDiffer DEF DiffersAtLow, Differs
  <2> QED BY <1>1, <1>3, <2>1, ReturnStep DEF DiffersAtLow
<1>4. CASE Found
  <2>1. lo = hi /\ lo # Nowhere
    BY <1>1, <1>4, AnswersDiffer DEF Found, Bracket
  <2>2. Differs(lo) /\ (lo = low \/ ~ Differs(lo - 1))
    BY <1>1, <1>4, <2>1 DEF Found, Bracket
  <2> QED BY <1>1, <1>4, <2>1, <2>2, ReturnStep DEF Found
<1>5. CASE CallFails
  <2>1. Failed \notin low..high /\ Failed # Nowhere
    BY <1>1, AnswersDiffer
  <2> QED BY <1>1, <1>5, <2>1, ReturnStep DEF CallFails
<1>6. CASE DiffersAtHigh \/ AgreesAtLow \/ AgreesAtMid \/ DiffersAtMid
  BY <1>1, <1>6, SearchStep
<1>7. CASE UNCHANGED vars
  <2>1. UNCHANGED <<remote, local, low, high, lo, hi, pc, answer>>
    BY <1>7 DEF vars, inputs
  <2>2. TypeOK' /\ Bracket'
    BY <1>1, <2>1 DEF Bracket, Answered, Differs
  <2>3. FoundTurns' /\ FirstIfItLasts'
    BY <2>1 DEF IInv, FoundTurns, FirstIfItLasts, Answered, Differs, IsFirst, StaysDifferent
  <2> QED BY <2>2, <2>3 DEF IInv
<1> QED
  BY <1>2, <1>3, <1>4, <1>5, <1>6, <1>7 DEF Next, Search, Done

\* ... and with a low block above the high one, where it says nothing.
LEMMA InvariantStep == IInv /\ [Next]_vars => IInv'
<1> SUFFICES ASSUME IInv, [Next]_vars PROVE IInv'
  OBVIOUS
<1>1. CASE low <= high
  BY <1>1, InRangeStep
<1>2. CASE ~ (low <= high)
  <2>1. TypeOK' /\ low \in Nat /\ high \in Nat
    BY TypeStep DEF IInv, TypeOK
  <2>2. low' = low /\ high' = high
    BY DEF Next, Search, AgreesAtHigh, DiffersAtHigh, AgreesAtLow, DiffersAtLow, AgreesAtMid,
           DiffersAtMid, Found, CallFails, Return, Done, vars, inputs
  <2>3. low'..high' = {} /\ ~ (low' <= high')
    BY <1>2, <2>1, <2>2
  <2> QED BY <2>1, <2>3 DEF IInv, Bracket, FoundTurns, FirstIfItLasts
<1> QED BY <1>1, <1>2

\* The inductive invariant holds in every state.
THEOREM Invariance == Spec => []IInv
BY InitInvariant, InvariantStep, PTL DEF Spec

\* The block found is one where the node turns away, for every history (lib.rs:289-311).
THEOREM FoundBlockTurns == Spec => []FoundTurns
<1>1. IInv => FoundTurns
  BY DEF IInv
<1> QED BY <1>1, Invariance, PTL

\* It is the first one if the divergence lasts.
THEOREM LastingDivergence == Spec => []FirstIfItLasts
<1>1. IInv => FirstIfItLasts
  BY DEF IInv
<1> QED BY <1>1, Invariance, PTL
=============================================================================
