----------------------------- MODULE Divergence -----------------------------
(***************************************************************************)
(* find_divergence_block: a binary search, over the history that a remote  *)
(* archive node tells of a storage slot, for the block where it begins to  *)
(* differ from the local value (crates/validation).  One action per RPC    *)
(* call; the node's answers about past blocks do not change.               *)
(***************************************************************************)
EXTENDS Naturals

CONSTANTS
  Blocks,     \* block numbers that are asked about
  Values,     \* values of the slot
  Histories,  \* the histories the node may tell: functions from Blocks to Values
  MayFail,    \* whether a call may fail
  Nowhere,    \* the answer when the node agrees at the high block
  Failed      \* the answer when a call fails

ASSUME BlocksAreNumbers == Blocks \subseteq Nat
ASSUME HistoriesType == Histories \subseteq [Blocks -> Values]
ASSUME AnswersDiffer == Nowhere \notin Nat /\ Failed \notin Nat /\ Nowhere # Failed

VARIABLES
  remote,     \* remote[b]: the slot's value after block b, on the node
  local,      \* the value in the local database
  low, high,  \* the range to search; nothing checks that low is not above high
  lo, hi,     \* what is left of it
  pc, answer

inputs == <<remote, local, low, high>>
vars == <<inputs, lo, hi, pc, answer>>

Init ==
  /\ remote \in Histories /\ local \in Values
  /\ low \in Blocks /\ high \in Blocks /\ low..high \subseteq Blocks
  /\ lo = low /\ hi = high
  /\ pc = "ask_high" /\ answer = Failed

Return(a) == pc' = "done" /\ answer' = a /\ UNCHANGED <<inputs, lo, hi>>

AgreesAtHigh == pc = "ask_high" /\ remote[high] = local /\ Return(Nowhere)

DiffersAtHigh ==
  /\ pc = "ask_high" /\ remote[high] # local
  /\ pc' = "ask_low"
  /\ UNCHANGED <<inputs, lo, hi, answer>>

DiffersAtLow == pc = "ask_low" /\ remote[low] # local /\ Return(low)

AgreesAtLow ==
  /\ pc = "ask_low" /\ remote[low] = local
  /\ pc' = "search" /\ lo' = low /\ hi' = high
  /\ UNCHANGED <<inputs, answer>>

Mid == lo + (hi - lo) \div 2

\* Mutants: the middle stays in the range; a block too many leaves it.
AgreesAtMid_m ==
  /\ pc = "search" /\ lo < hi /\ remote[Mid] = local
  /\ lo' = Mid
  /\ UNCHANGED <<inputs, hi, pc, answer>>

AgreesAtMid_m2 ==
  /\ pc = "search" /\ lo < hi /\ remote[Mid] = local
  /\ lo' = Mid + 2
  /\ UNCHANGED <<inputs, hi, pc, answer>>

AgreesAtMid ==
  /\ pc = "search" /\ lo < hi /\ remote[Mid] = local
  /\ lo' = Mid + 1
  /\ UNCHANGED <<inputs, hi, pc, answer>>

\* Mutant: the block that differs leaves the range.
DiffersAtMid_m ==
  /\ pc = "search" /\ lo < hi /\ remote[Mid] # local
  /\ hi' = Mid - 1
  /\ UNCHANGED <<inputs, lo, pc, answer>>

DiffersAtMid ==
  /\ pc = "search" /\ lo < hi /\ remote[Mid] # local
  /\ hi' = Mid
  /\ UNCHANGED <<inputs, lo, pc, answer>>

Found == pc = "search" /\ lo >= hi /\ Return(lo)

CallFails ==
  /\ MayFail
  /\ \/ pc \in {"ask_high", "ask_low"}
     \/ pc = "search" /\ lo < hi
  /\ Return(Failed)

Search ==
  \/ AgreesAtHigh \/ DiffersAtHigh \/ AgreesAtLow \/ DiffersAtLow
  \/ AgreesAtMid \/ DiffersAtMid \/ Found

Done == pc = "done" /\ UNCHANGED vars

Next == Search \/ CallFails \/ Done

Spec == Init /\ [][Next]_vars

FairSpec == Spec /\ WF_vars(Search)

----------------------------------------------------------------------------
Differs(b) == remote[b] # local
IsFirst(b) == Differs(b) /\ \A c \in low..high : c < b => ~ Differs(c)
StaysDifferent == \A b, c \in low..high : Differs(b) /\ b <= c => Differs(c)
Answered(b) == pc = "done" /\ answer = b

\* Whatever the history, a block that is found is one where the node's value turns
\* away from the local one, or it is the low block (lib.rs:289-311).  Nothing is said
\* of a low block above the high one: the low block is then the answer, even if the
\* node agrees there.
FoundTurns ==
  \A b \in low..high : Answered(b) => Differs(b) /\ (b = low \/ ~ Differs(b - 1))

\* If the value, once it differs, differs up to the high block, then the block found
\* is the first that differs; and none is found only if none differs.
FirstIfItLasts ==
  StaysDifferent =>
    /\ \A b \in low..high : Answered(b) => IsFirst(b)
    /\ Answered(Nowhere) => \A b \in low..high : ~ Differs(b)

\* The search ends.
Terminates == <>(pc = "done")

\* Every variable has its type.
TypeOK ==
  /\ remote \in [Blocks -> Values] /\ local \in Values
  /\ low \in Nat /\ high \in Nat /\ low..high \subseteq Blocks
  /\ lo \in Nat /\ hi \in Nat
  /\ pc \in {"ask_high", "ask_low", "search", "done"}
  /\ answer \in Nat \cup {Nowhere, Failed}

\* The search stays in its range, and keeps a block that differs at its upper end, and
\* one that does not just below its lower end.
Bracket ==
  low <= high =>
    /\ lo \in low..high /\ hi \in low..high
    /\ pc # "ask_high" /\ pc # "done" => Differs(high)
    /\ pc = "search" =>
         /\ lo <= hi /\ Differs(hi) /\ ~ Differs(low)
         /\ lo = low \/ ~ Differs(lo - 1)
    /\ Answered(Nowhere) => ~ Differs(high)

IInv == TypeOK /\ Bracket /\ FoundTurns /\ FirstIfItLasts
=============================================================================
