-------------------------- MODULE ReplayRun_proofs --------------------------
(***************************************************************************)
(* Proofs about the replay command and the stream below it.  First the     *)
(* inductive invariant of SqdFetcher, for every range, number of retries   *)
(* and growth of the portal; then, on top of it, that for any portal,      *)
(* range arguments and sequence of runs that fail or are killed, the head  *)
(* leaves no hole.                                                         *)
(***************************************************************************)
EXTENDS ReplayRun, TLAPS

----------------------------------------------------------------------------
(* The block stream.                                                       *)

\* Appending the number that follows keeps a run of numbers unbroken.
LEMMA AppendNext ==
  ASSUME NEW s \in Seq(Nat), NEW n \in Nat, ConsecutiveFrom(s, n)
  PROVE  /\ ConsecutiveFrom(Append(s, n + Len(s)), n)
         /\ Append(s, n + Len(s)) \in Seq(Nat)
         /\ Len(Append(s, n + Len(s))) = Len(s) + 1
BY DEF ConsecutiveFrom

\* The end of a page: after the block it starts from, unless the portal has none.
LEMMA PageEndsBound ==
  ASSUME NEW e \in PageEnds, current \in Nat, height \in Nat, to \in Nat \cup {None}
  PROVE  /\ e \in Nat /\ e >= current
         /\ e = current => current > height
         /\ to # None => e <= to + 1 \/ e = current
BY NoneIsNoNumber DEF PageEnds

LEMMA InitInvariant == ASSUME Init PROVE IInv
<1>1. from \in Nat /\ to \in Nat \cup {None}
  BY RangesType DEF Init
<1>2. TypeOK
  BY <1>1, MaxRetriesPositive, MaxHeightType DEF Init, TypeOK, Phases
<1>3. StreamIsContiguous /\ WithinRange /\ EndIsTheEnd
  BY <1>1 DEF Init, StreamIsContiguous, ConsecutiveFrom, WithinRange, EndIsTheEnd
<1>4. Position
  BY <1>1 DEF Init, Position
<1> QED BY <1>2, <1>3, <1>4 DEF IInv

----------------------------------------------------------------------------
\* A step that yields nothing keeps what was said of the blocks yielded.
LEMMA NothingYielded ==
  ASSUME IInv, UNCHANGED <<from, to, out>>
  PROVE  StreamIsContiguous' /\ WithinRange'
BY DEF IInv, StreamIsContiguous, WithinRange, ConsecutiveFrom

LEMMA YieldStep ==
  ASSUME IInv, Yield
  PROVE  IInv'
<1>1. TypeOK /\ StreamIsContiguous /\ WithinRange
      /\ next = from + Len(out) /\ next < end /\ current <= next
      /\ (to # None => end <= to + 1)
  BY NoneIsNoNumber DEF IInv, Position, Yield, TypeOK
<1>2. next \in Nat /\ end \in Nat /\ out \in Seq(Nat) /\ from \in Nat /\ to \in Nat \cup {None}
  BY <1>1 DEF TypeOK
<1>3. /\ ConsecutiveFrom(out', from) /\ out' \in Seq(Nat) /\ Len(out') = Len(out) + 1
  BY <1>1, <1>2, AppendNext DEF StreamIsContiguous, Yield
<1>4. TypeOK'
  BY <1>1, <1>2, <1>3 DEF TypeOK, Yield
<1>5. StreamIsContiguous'
  BY <1>3 DEF StreamIsContiguous, Yield
<1>6. WithinRange'
  <2>1. ASSUME to # None, NEW i \in 1..Len(out') PROVE out'[i] <= to
    <3>1. out'[i] = from + i - 1 /\ i <= Len(out) + 1
      BY <1>3, <2>1 DEF ConsecutiveFrom
    <3> QED BY <1>1, <1>2, <2>1, <3>1
  <2> QED BY <2>1 DEF WithinRange, Yield
<1>7. EndIsTheEnd'
  BY DEF EndIsTheEnd, Yield
<1>8. Position'
  <2>1. next' = from' + Len(out') /\ next' <= end' /\ lastBlock' # None /\ lastBlock' + 1 = next'
    BY <1>1, <1>2, <1>3, NoneIsNoNumber DEF Yield
  <2>2. end' # current' /\ current' <= next' /\ (to' # None => end' <= to' + 1)
    BY <1>1, <1>2 DEF Yield, IInv, TypeOK
  <2> QED BY <2>1, <2>2 DEF Position, Yield
<1> QED BY <1>4, <1>5, <1>6, <1>7, <1>8 DEF IInv

LEMMA RespondStep ==
  ASSUME IInv, Respond
  PROVE  IInv'
<1>1. TypeOK /\ current = from + Len(out) /\ current \in Nat /\ height \in Nat
      /\ to \in Nat \cup {None}
  BY DEF IInv, TypeOK, Position, Respond
<1>2. /\ end' \in Nat /\ end' >= current
      /\ end' = current => current > height
      /\ to # None => end' <= to + 1 \/ end' = current
  BY <1>1, PageEndsBound DEF Respond
<1>3. TypeOK'
  BY <1>1, <1>2 DEF TypeOK, Respond, Phases
<1>4. StreamIsContiguous' /\ WithinRange'
  BY NothingYielded DEF Respond
<1>5. EndIsTheEnd' /\ Position'
  BY <1>1, <1>2 DEF EndIsTheEnd, Position, Respond
<1> QED BY <1>3, <1>4, <1>5 DEF IInv

\* The stream ends, or a page does.
LEMMA PageStep ==
  ASSUME IInv, EndOfRange \/ Exhausted \/ LastPage \/ NextPage
  PROVE  IInv'
<1>1. TypeOK /\ Position
  BY DEF IInv
<1>2. UNCHANGED <<height, from, to, attempt, next, end, lastBlock, portalHead, out>>
  BY DEF EndOfRange, Exhausted, LastPage, NextPage, page
<1>3. StreamIsContiguous' /\ WithinRange'
  BY <1>2, NothingYielded
<1>4. /\ from \in Nat /\ Len(out) \in Nat /\ current \in Nat /\ next \in Nat /\ end \in Nat
      /\ to \in Nat \cup {None} /\ lastBlock \in Nat \cup {None} /\ portalHead \in Nat
  BY <1>1 DEF TypeOK
<1>5. CASE EndOfRange
  <2>1. EndIsTheEnd'
    BY <1>1, <1>2, <1>4, <1>5 DEF EndIsTheEnd, EndOfRange, PastEnd, Position
  <2> QED BY <1>1, <1>2, <1>3, <1>5, <2>1 DEF EndOfRange, page, IInv, TypeOK, Phases, Position
<1>6. CASE Exhausted
  <2>1. next = current /\ next = end /\ next = from + Len(out) /\ current > portalHead
    BY <1>1, <1>4, <1>6 DEF Exhausted, PageOver, Position
  <2>2. EndIsTheEnd'
    BY <1>2, <1>4, <2>1 DEF EndIsTheEnd
  <2> QED BY <1>1, <1>2, <1>3, <1>6, <2>2 DEF Exhausted, page, IInv, TypeOK, Phases, Position
<1>7. CASE LastPage
  <2>1. lastBlock + 1 = next /\ next = from + Len(out) /\ to # None /\ lastBlock >= to
    BY <1>1, <1>4, <1>7 DEF LastPage, PageOver, ReachedEnd, Position
  <2>2. EndIsTheEnd'
    BY <1>2, <1>4, <1>7, <2>1, NoneIsNoNumber DEF EndIsTheEnd, LastPage
  <2> QED BY <1>1, <1>2, <1>3, <1>7, <2>2 DEF LastPage, page, IInv, TypeOK, Phases, Position
<1>8. CASE NextPage
  <2>1. lastBlock + 1 = next /\ next = from + Len(out) /\ current' = lastBlock + 1 /\ phase' = "check"
    BY <1>1, <1>4, <1>8 DEF NextPage, PageOver, Position
  <2>2. TypeOK' /\ Position' /\ EndIsTheEnd'
    BY <1>1, <1>2, <1>4, <2>1 DEF TypeOK, Phases, Position, EndIsTheEnd
  <2> QED BY <1>3, <2>2 DEF IInv
<1> QED BY <1>5, <1>6, <1>7, <1>8

\* A request goes out or is retried, the stream fails, the portal grows.
LEMMA OtherStep ==
  ASSUME IInv, Grow \/ Request \/ Retry \/ GiveUp \/ Refused \/ BodyError \/ UNCHANGED vars
  PROVE  IInv'
<1>1. TypeOK /\ Position /\ EndIsTheEnd
  BY DEF IInv
<1>2. UNCHANGED <<from, to, current, next, end, lastBlock, portalHead, out>>
  BY DEF Grow, Request, Retry, GiveUp, Refused, BodyError, vars, page
<1>3. StreamIsContiguous' /\ WithinRange'
  BY <1>2, NothingYielded
<1>4. height' \in Nat /\ attempt' \in 0..(MaxRetries - 1) /\ phase' \in Phases
  BY SMTT(30), <1>1, MaxRetriesPositive, MaxHeightType
  DEF TypeOK, Grow, Request, Retry, GiveUp, Refused, BodyError, vars, page, Phases
<1>5. TypeOK'
  BY <1>1, <1>2, <1>4 DEF TypeOK
<1>6. /\ phase' = phase \/ phase' = "failed" \/ (phase = "check" /\ phase' = "request" /\ ~ PastEnd)
  BY DEF Grow, Request, Retry, GiveUp, Refused, BodyError, vars
<1>7. EndIsTheEnd' /\ Position'
  BY <1>1, <1>2, <1>6 DEF EndIsTheEnd, Position, PastEnd
<1> QED BY <1>3, <1>5, <1>7 DEF IInv

\* Every step preserves the invariant.
LEMMA InvariantStep == ASSUME IInv, [Next]_vars PROVE IInv'
<1>1. CASE Yield
  BY <1>1, YieldStep
<1>2. CASE Respond
  BY <1>2, RespondStep
<1>3. CASE EndOfRange \/ Exhausted \/ LastPage \/ NextPage
  BY <1>3, PageStep
<1>4. CASE Grow \/ Request \/ Retry \/ GiveUp \/ Refused \/ BodyError \/ UNCHANGED vars
  BY <1>4, OtherStep
<1> QED BY <1>1, <1>2, <1>3, <1>4 DEF Next, Client, Answer, Done

\* The inductive invariant holds in every state.
THEOREM Invariance == Spec => []IInv
<1>1. Init => IInv
  BY InitInvariant
<1>2. IInv /\ [Next]_vars => IInv'
  BY InvariantStep
<1> QED BY <1>1, <1>2, PTL DEF Spec

\* Whatever the paging, the retries and the portal's growth, the blocks that the
\* stream yields are consecutive from the first one asked for (lib.rs:322-388).
THEOREM Contiguity == Spec => []StreamIsContiguous
<1>1. IInv => StreamIsContiguous
  BY DEF IInv
<1> QED BY <1>1, Invariance, PTL

\* A stream that ends well has yielded all there was (lib.rs:376-383).
THEOREM NothingLeftOut == Spec => []EndIsTheEnd
<1>1. IInv => EndIsTheEnd
  BY DEF IInv
<1> QED BY <1>1, Invariance, PTL

\* No block behind the end of the range is yielded, wherever the pages end
\* (lib.rs:127-130, 381-383).
THEOREM StaysWithinRange == Spec => []WithinRange
<1>1. IInv => WithinRange
  BY DEF IInv
<1> QED BY <1>1, Invariance, PTL

----------------------------------------------------------------------------
(* The runs of the command, on that stream.                                *)

\* What does not touch the stream keeps its type and its invariant.
LEMMA StreamUntouched ==
  ASSUME UNCHANGED vars
  PROVE  (TypeOK => TypeOK') /\ (IInv => IInv')
<1>1. TypeOK => TypeOK'
  BY DEF TypeOK, vars, page
<1>2. IInv => IInv'
  BY <1>1 DEF vars, page, IInv, StreamIsContiguous, ConsecutiveFrom, WithinRange, EndIsTheEnd,
              Position, PastEnd
<1> QED BY <1>1, <1>2

\* The stream's steps keep its type, whatever was left out of the page.
LEMMA TypeStep ==
  ASSUME TypeOK, Next
  PROVE  TypeOK'
<1>1. CASE Grow
  BY <1>1, MaxHeightType DEF TypeOK, Grow, page
<1>2. CASE EndOfRange \/ Exhausted \/ LastPage \/ GiveUp \/ Refused \/ BodyError
  BY <1>2 DEF TypeOK, EndOfRange, Exhausted, LastPage, GiveUp, Refused, BodyError, page, Phases
<1>3. CASE Request \/ Retry
  <2>1. attempt' \in 0..(MaxRetries - 1) /\ phase' \in Phases
    BY <1>3, MaxRetriesPositive DEF TypeOK, Request, Retry, Phases
  <2> QED BY <1>3, <2>1 DEF TypeOK, Request, Retry
<1>4. CASE Yield
  BY <1>4 DEF TypeOK, Yield
<1>5. CASE Respond
  <2>1. end' \in Nat
    BY <1>5, PageEndsBound DEF Respond, TypeOK
  <2> QED BY <1>5, <2>1 DEF TypeOK, Respond, Phases
<1>6. CASE NextPage
  BY <1>6 DEF TypeOK, NextPage, Phases
<1>7. CASE Done
  BY <1>7, StreamUntouched DEF Done
<1> QED BY <1>1, <1>2, <1>3, <1>4, <1>5, <1>6, <1>7 DEF Next, Client, Answer

LEMMA InitRunInvariant == ASSUME RunInit PROVE RunInv
<1>1. IInv
  BY InitInvariant DEF RunInit
<1> QED BY <1>1, NoneIsNoNumber
        DEF RunInv, RunTypeOK, RunInit, StreamInv, IInv, HeadInv, HandInv, NoGapReported,
            CompleteIsCaughtUp

----------------------------------------------------------------------------
\* A run starts: its stream is as a stream starts.
LEMMA CommandStep ==
  ASSUME RunInv, NEW f \in FromArgs, NEW t \in ToArgs, Command(f, t)
  PROVE  RunInv'
<1>1. StartBlock(f) \in Nat /\ t \in Nat \cup {None} /\ f \in Nat \cup {None}
  BY ArgsType DEF RunInv, RunTypeOK, StartBlock, Following
<1>2. IInv'
  <2>1. TypeOK'
    BY <1>1, MaxRetriesPositive DEF Command, RunInv, RunTypeOK, TypeOK, Phases
  <2>2. from' \in Nat /\ current' = from' /\ phase' = "check" /\ out' = <<>>
    BY <1>1 DEF Command
  <2>3. StreamIsContiguous' /\ WithinRange'
    BY <2>2 DEF StreamIsContiguous, ConsecutiveFrom, WithinRange
  <2>4. EndIsTheEnd' /\ Position'
    <3>1. \A n \in Nat : n + Len(<<>>) = n
      OBVIOUS
    <3>2. from' + Len(out') = current'
      BY <2>2, <3>1, Zenon
    <3> QED BY <2>2, <3>2 DEF EndIsTheEnd, Position
  <2> QED BY <2>1, <2>3, <2>4 DEF IInv
<1>3. RunTypeOK'
  BY <1>1, <1>2 DEF IInv, Command, RunInv, RunTypeOK
<1>4. HeadInv'
  BY DEF Command, HeadInv, StartBlock, Following
<1>5. HandInv'
  BY <1>1 DEF Command, HandInv, Expected
<1>6. NoGapReported' /\ CompleteIsCaughtUp'
  BY DEF Command, NoGapReported, CompleteIsCaughtUp
<1> QED BY <1>2, <1>3, <1>4, <1>5, <1>6 DEF RunInv, StreamInv

\* The stream moves while the pipeline waits for a block.
LEMMA PullStep ==
  ASSUME RunInv, Pull
  PROVE  RunInv'
<1>1. RunTypeOK /\ TypeOK /\ HeadInv /\ HandInv /\ running /\ hand = None
  BY DEF RunInv, RunTypeOK, Pull, Pulling
<1>2. Client /\ Next /\ UNCHANGED <<drops, head, asked, running, head0, last, outcome>>
  BY DEF Pull, Next
<1>3. TypeOK'
  BY <1>1, <1>2, TypeStep
<1>4. StreamInv'
  BY <1>2, InvariantStep DEF RunInv, StreamInv, Faithful
<1>5. UNCHANGED <<from, to>>
  BY <1>2 DEF Client, EndOfRange, Request, Yield, Exhausted, LastPage, NextPage
<1>6. next \in Nat /\ from \in Nat /\ out \in Seq(Nat)
  BY <1>1 DEF TypeOK
<1>7. RunTypeOK'
  BY <1>1, <1>2, <1>3, <1>6 DEF RunTypeOK, Pull
<1>8. HeadInv'
  BY <1>1, <1>2, <1>5 DEF HeadInv, Following
<1>9. HandInv'
  <2> SUFFICES ASSUME Faithful PROVE HandInv'
    BY <1>2 DEF HandInv, Faithful
  <2>1. IInv
    BY DEF RunInv, StreamInv
  <2>2. CASE phase = "body" /\ next < end
    <3>1. next = from + Len(out) /\ hand' = next
      BY <1>6, <2>1, <2>2 DEF IInv, Position, Pull
    <3>2. Yield
      BY <1>1, <1>2, <2>2 DEF Client, EndOfRange, Request, Exhausted, LastPage, NextPage, PageOver,
                              TypeOK
    <3>3. Len(out') = Len(out) + 1
      BY <1>6, <3>2 DEF Yield
    <3> QED BY <1>1, <1>2, <1>5, <1>6, <3>1, <3>3, NoneIsNoNumber DEF HandInv, Expected, Faithful
  <2>3. CASE ~ (phase = "body" /\ next < end)
    <3>1. out' = out
      BY <1>2, <2>3 DEF Client, EndOfRange, Request, Yield, Exhausted, LastPage, NextPage
    <3>2. hand' = None
      BY <2>3 DEF Pull
    <3> QED BY <1>1, <1>2, <1>5, <3>1, <3>2 DEF HandInv, Expected, Faithful
  <2> QED BY <2>2, <2>3
<1>10. NoGapReported' /\ CompleteIsCaughtUp'
  BY <1>1, <1>2 DEF HeadInv, NoGapReported, CompleteIsCaughtUp
<1> QED BY <1>4, <1>7, <1>8, <1>9, <1>10 DEF RunInv

\* The portal answers, or grows.
LEMMA PortalStep ==
  ASSUME RunInv, PortalAnswers \/ PortalGrows
  PROVE  RunInv'
<1>1. Next /\ UNCHANGED <<drops, head, pipeline>> /\ UNCHANGED <<from, to, out>>
  BY DEF PortalAnswers, PortalGrows, Next, Answer, Retry, GiveUp, Refused, Respond, BodyError, Grow
<1>2. TypeOK'
  BY <1>1, TypeStep DEF RunInv, RunTypeOK
<1>3. StreamInv'
  BY <1>1, InvariantStep DEF RunInv, StreamInv, Faithful, pipeline
<1>4. RunTypeOK' /\ HeadInv' /\ HandInv' /\ NoGapReported'
  BY <1>1, <1>2 DEF RunInv, RunTypeOK, HeadInv, HandInv, Faithful, Expected, Following,
                    NoGapReported, pipeline
<1>5. CompleteIsCaughtUp'
  <2>1. CASE PortalAnswers
    BY <1>1, <2>1 DEF PortalAnswers, Pulling, RunInv, HeadInv, CompleteIsCaughtUp, pipeline
  <2>2. CASE PortalGrows
    BY <1>1, <2>2 DEF PortalGrows, Grow, page, RunInv, CompleteIsCaughtUp, BeyondNext, Following,
                      pipeline
  <2> QED BY <2>1, <2>2
<1> QED BY <1>3, <1>4, <1>5 DEF RunInv

\* A block is left out: the stream is no longer what it promises to be.
LEMMA DropStep ==
  ASSUME RunInv, PortalDrops
  PROVE  RunInv'
<1>1. TypeOK'
  BY DEF PortalDrops, RunInv, RunTypeOK, TypeOK
<1>2. ~ Faithful'
  BY DEF PortalDrops, Faithful, pipeline
<1> QED BY <1>1, <1>2 DEF PortalDrops, Pulling, RunInv, RunTypeOK, StreamInv, HeadInv, HandInv,
                          Following, NoGapReported, CompleteIsCaughtUp, pipeline

----------------------------------------------------------------------------
\* A run ends, with any outcome but two, that have a step of their own.
LEMMA ExitStep ==
  ASSUME RunInv, NEW r \in {"complete", "source_error", "gap", "replay_error", "killed"},
         running, Exit(r), UNCHANGED head,
         r = "gap" => drops,
         r = "complete" /\ ~ drops /\ ~ BeyondNext =>
           (to # None /\ Following(head) > to) \/ Following(head) > portalHead
  PROVE  RunInv'
<1>1. UNCHANGED vars /\ UNCHANGED drops /\ UNCHANGED asked /\ running' = FALSE /\ outcome' = r
      /\ head0' = None /\ last' = None /\ hand' = None
  BY DEF Exit, stream, vars, page
<1>2. RunTypeOK'
  <2>1. TypeOK' /\ RunTypeOK
    BY <1>1, StreamUntouched DEF RunInv, RunTypeOK
  <2>2. {head', asked', head0', last', hand'} \subseteq Nat \cup {None}
    BY <1>1, <2>1 DEF RunTypeOK
  <2>3. drops' \in BOOLEAN /\ running' \in BOOLEAN
    BY <1>1, <2>1 DEF RunTypeOK
  <2> QED BY <1>1, <2>1, <2>2, <2>3 DEF RunTypeOK
<1>3. StreamInv'
  BY <1>1, StreamUntouched DEF RunInv, StreamInv, Faithful
<1>4. HeadInv' /\ HandInv'
  BY <1>1 DEF HeadInv, HandInv
<1>5. NoGapReported'
  BY <1>1 DEF NoGapReported
<1>6. CompleteIsCaughtUp'
  BY <1>1 DEF CompleteIsCaughtUp, BeyondNext, Following, vars, page
<1> QED BY <1>2, <1>3, <1>4, <1>5, <1>6 DEF RunInv

\* A stream that ended well without leaving out a block has brought the head there.
LEMMA CompleteStep ==
  ASSUME RunInv, Complete
  PROVE  RunInv'
<1>1. running /\ hand = None /\ phase = "done" /\ Exit("complete") /\ UNCHANGED head
  BY DEF Complete, Pulling
<1>2. ASSUME ~ drops, ~ BeyondNext
      PROVE  (to # None /\ Following(head) > to) \/ Following(head) > portalHead
  <2>1. IInv /\ HandInv /\ HeadInv
    BY <1>2 DEF RunInv, StreamInv, Faithful
  <2>2. /\ from \in Nat /\ Len(out) \in Nat /\ to \in Nat \cup {None} /\ portalHead \in Nat
        /\ {head, asked, head0, last} \subseteq Nat \cup {None}
    BY <2>1 DEF IInv, TypeOK, RunInv, RunTypeOK
  <2>3. Following(head) >= from + Len(out)
    <3>1. CASE last # None
      BY <1>1, <1>2, <2>1, <2>2, <3>1 DEF HandInv, HeadInv, Expected, Faithful, Following
    <3>2. CASE last = None /\ from + Len(out) = from
      BY <1>1, <1>2, <2>1, <2>2, <3>2 DEF HeadInv, Following, BeyondNext
    <3>3. CASE last = None /\ head0 # None /\ from + Len(out) <= head0 + 1
      BY <1>1, <2>1, <2>2, <3>3 DEF HeadInv, Following
    <3> QED BY <1>1, <1>2, <2>1, <3>1, <3>2, <3>3 DEF HandInv, Expected, Faithful
  <2>4. (to # None /\ from + Len(out) > to) \/ from + Len(out) > portalHead
    BY <1>1, <2>1 DEF IInv, EndIsTheEnd
  <2> QED
    <3>1. Following(head) \in Nat
      BY <2>2 DEF Following
    <3> QED BY <2>2, <2>3, <2>4, <3>1
<1> QED BY <1>1, <1>2, ExitStep

\* Where nothing is left out, the block in hand follows the one before.
LEMMA NoJump ==
  ASSUME RunInv, Holding, Faithful
  PROVE  ~ Jumps
BY DEF RunInv, Holding, HandInv, Expected, Jumps

LEMMA EndStep ==
  ASSUME RunInv, SourceFails \/ GapError \/ ReplayFails \/ Kill
  PROVE  RunInv'
<1>1. CASE GapError
  <2>1. drops
    BY <1>1, NoJump DEF GapError, Faithful
  <2> QED BY <1>1, <2>1, ExitStep DEF GapError, Holding
<1>2. CASE SourceFails
  BY <1>2, ExitStep DEF SourceFails, Pulling
<1>3. CASE ReplayFails
  BY <1>3, ExitStep DEF ReplayFails, Holding
<1>4. CASE Kill
  BY <1>4, ExitStep DEF Kill
<1> QED BY <1>1, <1>2, <1>3, <1>4

----------------------------------------------------------------------------
\* The pipeline passes over a block, or replays it.
LEMMA HandleStep ==
  ASSUME RunInv, SkipBlock \/ ReplayBlock
  PROVE  RunInv'
<1>1. /\ UNCHANGED <<drops, asked, running, head0, outcome>> /\ UNCHANGED vars
      /\ running /\ hand # None /\ hand' = None
  BY DEF SkipBlock, ReplayBlock, Holding, stream, vars, page
<1>2. RunTypeOK /\ HeadInv /\ HandInv /\ TypeOK
  BY DEF RunInv, RunTypeOK
<1>3. /\ from \in Nat /\ Len(out) \in Nat /\ from' = from /\ out' = out
      /\ hand \in Nat /\ {head, asked, head0, last} \subseteq Nat \cup {None}
  BY <1>1, <1>2 DEF RunTypeOK, TypeOK, vars, page
<1>4. TypeOK'
  BY <1>1, <1>2, StreamUntouched
<1>5. CASE SkipBlock
  <2>1. UNCHANGED <<head, last>> /\ head0 # None /\ hand <= head0
    BY <1>5 DEF SkipBlock, Seen
  <2>2. RunTypeOK'
    BY <1>1, <1>2, <1>3, <1>4, <2>1 DEF RunTypeOK
  <2>3. StreamInv'
    BY <1>1, <2>1, StreamUntouched DEF RunInv, StreamInv, Faithful
  <2>4. HeadInv'
    BY <1>1, <1>2, <1>3, <2>1 DEF HeadInv, Following
  <2>5. HandInv'
    <3> SUFFICES ASSUME Faithful PROVE HandInv'
      BY <1>1, <2>1 DEF HandInv, Faithful
    <3>1. last = None
      BY <1>1, <1>2, <1>3, <2>1 DEF HandInv, HeadInv, Expected
    <3>2. from + Len(out) <= head0 + 1
      BY <1>1, <1>2, <1>3, <2>1 DEF HandInv
    <3> QED BY <1>1, <1>3, <2>1, <3>1, <3>2 DEF HandInv, Expected
  <2> QED BY <1>1, <1>2, <2>2, <2>3, <2>4, <2>5
          DEF RunInv, HeadInv, NoGapReported, CompleteIsCaughtUp
<1>6. CASE ReplayBlock
  <2>1. head' = hand /\ last' = hand /\ (head0 # None => hand > head0) /\ (last # None => hand = last + 1)
    BY <1>3, <1>6 DEF ReplayBlock, Seen, Jumps
  <2>2. RunTypeOK'
    BY <1>1, <1>2, <1>3, <1>4, <2>1 DEF RunTypeOK
  <2>3. Faithful' => Faithful
    BY <1>1, <2>1 DEF Faithful
  <2>4. StreamInv'
    BY <1>1, <2>3, StreamUntouched DEF RunInv, StreamInv
  <2>5. HeadInv'
    BY <1>1, <1>2, <1>3, <2>1 DEF HeadInv, Following
  <2>6. HandInv'
    BY <1>1, <1>2, <1>3, <2>1, <2>3 DEF HandInv, Expected
  <2> QED BY <1>1, <1>2, <2>2, <2>4, <2>5, <2>6
          DEF RunInv, HeadInv, NoGapReported, CompleteIsCaughtUp
<1> QED BY <1>5, <1>6

LEMMA RunStutter == ASSUME RunInv, UNCHANGED runVars PROVE RunInv'
<1>1. UNCHANGED vars
  BY DEF runVars
<1> QED BY <1>1, StreamUntouched
        DEF runVars, pipeline, vars, page, RunInv, RunTypeOK, StreamInv, Faithful, HeadInv, HandInv,
            Expected, Following, NoGapReported, CompleteIsCaughtUp, BeyondNext

\* Every step preserves the invariant.
LEMMA RunInvStep == ASSUME RunInv, [RunNext]_runVars PROVE RunInv'
BY CommandStep, PullStep, PortalStep, DropStep, CompleteStep, EndStep, HandleStep, RunStutter
DEF RunNext

\* The inductive invariant of the command holds in every state.
THEOREM RunInvariance == RunSpec => []RunInv
<1>1. RunInit => RunInv
  BY InitRunInvariant
<1>2. RunInv /\ [RunNext]_runVars => RunInv'
  BY RunInvStep
<1> QED BY <1>1, <1>2, PTL DEF RunSpec

----------------------------------------------------------------------------
\* The first block offered is no further than the one behind the head.
LEMMA FirstOffer == ASSUME RunInv PROVE FirstOfferContiguous
<1> SUFFICES ASSUME Holding, last = None PROVE hand <= Following(head) \/ BeyondNext
  BY DEF FirstOfferContiguous
<1>1. Faithful /\ running /\ hand # None /\ HandInv /\ HeadInv
  BY DEF RunInv, Holding, Faithful
<1>2. {head, asked, head0, hand} \subseteq Nat \cup {None} /\ head = head0
  BY <1>1 DEF RunInv, RunTypeOK, HeadInv
<1>3. CASE hand = from
  BY <1>1, <1>2, <1>3 DEF HeadInv, Following, BeyondNext
<1>4. CASE head0 # None /\ hand <= head0 + 1
  BY <1>2, <1>4 DEF Following
<1> QED BY <1>1, <1>3, <1>4 DEF HandInv, Expected

\* A step of the head is to the block that follows it, or to one that --from names.
LEMMA HeadStep ==
  ASSUME RunInv, [RunNext]_runVars
  PROVE  head' \in {head, Following(head)} \/ (last = None /\ BeyondNext)
<1>1. CASE ReplayBlock
  <2>1. running /\ hand # None /\ head' = hand /\ ~ Seen /\ ~ Jumps /\ HeadInv
    BY <1>1 DEF ReplayBlock, Holding, RunInv
  <2>2. {head, head0, hand, last} \subseteq Nat \cup {None}
    BY DEF RunInv, RunTypeOK
  <2>3. CASE last # None
    BY <2>1, <2>2, <2>3 DEF HeadInv, Jumps, Following
  <2>4. CASE last = None
    <3>1. hand <= Following(head) \/ BeyondNext
      BY <1>1, <2>4, FirstOffer DEF FirstOfferContiguous, ReplayBlock
    <3>2. head = None \/ hand > head
      BY <2>1, <2>2, <2>4 DEF HeadInv, Seen
    <3> QED BY <2>1, <2>2, <2>4, <3>1, <3>2 DEF Following
  <2> QED BY <2>3, <2>4
<1>2. CASE ~ ReplayBlock
  BY <1>2 DEF RunNext, runVars, Command, Pull, PortalAnswers, PortalDrops, PortalGrows, Complete,
              SourceFails, SkipBlock, GapError, ReplayFails, Kill
<1> QED BY <1>1, <1>2

\* No run leaves a hole or replays a block twice, wherever those before it were cut off
\* and whatever the portal leaves out later on (pipeline.rs:122-139).
THEOREM HeadLeavesNoHole == RunSpec => NoHole
<1>1. RunInv /\ [RunNext]_runVars =>
        [head' \in {head, Following(head)} \/ (last = None /\ BeyondNext)]_runVars
  BY HeadStep
<1> QED BY <1>1, RunInvariance, PTL DEF RunSpec, NoHole

\* What the replayer assumes of its streams (StreamsStartContiguous) the command keeps,
\* unless its --from lies beyond the head (cli main.rs:373, pipeline.rs:122-129).
THEOREM StreamsStartAtTheHead == RunSpec => []FirstOfferContiguous
<1>1. RunInv => FirstOfferContiguous
  BY FirstOffer
<1> QED BY <1>1, RunInvariance, PTL

\* The gap check refuses nothing that a whole portal sends (pipeline.rs:131-139).
THEOREM NoFalseGap == RunSpec => []NoGapReported
<1>1. RunInv => NoGapReported
  BY DEF RunInv
<1> QED BY <1>1, RunInvariance, PTL

\* A replay that reports completion has reached --to or the portal's height.
THEOREM CompletionIsTrue == RunSpec => []CompleteIsCaughtUp
<1>1. RunInv => CompleteIsCaughtUp
  BY DEF RunInv
<1> QED BY <1>1, RunInvariance, PTL
=============================================================================
