----------------------------- MODULE SqdFetcher -----------------------------
(***************************************************************************)
(* Streaming a range of blocks from the data portal, page by page, with    *)
(* retries (crates/sqd-fetcher).                                           *)
(*                                                                         *)
(* The portal is external.  It holds the blocks up to its height, which    *)
(* grows.  A request for the blocks from a number on is answered with an   *)
(* unbroken run of them, as long as the portal likes, that starts there    *)
(* and respects toBlock; or it fails.  The body may break off in an error. *)
(* A block is its number; query fields and parsing are left out, except    *)
(* that a line may fail to parse.                                          *)
(***************************************************************************)
EXTENDS Naturals, Sequences

CONSTANTS
  None,        \* no upper end of the range
  MaxRetries,  \* how many times a request is tried (MAX_RETRIES)
  Ranges,      \* the <<from, to>> that streams are asked for
  MaxHeight    \* bound: the portal's height stops growing there

ASSUME MaxRetriesPositive == MaxRetries \in Nat \ {0}
ASSUME NoneIsNoNumber == None \notin Nat
ASSUME MaxHeightType == MaxHeight \in Nat
ASSUME RangesType == Ranges \subseteq Nat \X (Nat \cup {None})

VARIABLES
  height,      \* the portal's last block
  from, to,    \* the range the stream was asked for
  phase,       \* where stream_blocks is
  current,     \* the number the next request starts from
  attempt,     \* attempts made for this request before the present one
  next,        \* the next block in the body of the response
  end,         \* the number after the last block in it
  lastBlock,   \* the last block parsed from it, None before the first
  portalHead,  \* the portal's height as of its last response
  out          \* the blocks yielded

page == <<current, attempt, next, end, lastBlock, portalHead>>
vars == <<height, from, to, phase, page, out>>

Phases == {"check", "request", "body", "done", "failed"}

Init ==
  /\ height \in 0..MaxHeight
  /\ \E r \in Ranges : from = r[1] /\ to = r[2]
  /\ phase = "check" /\ current = from
  /\ attempt = 0 /\ next = 0 /\ end = 0 /\ lastBlock = None /\ portalHead = 0
  /\ out = <<>>

Grow ==
  /\ height < MaxHeight
  /\ height' = height + 1
  /\ UNCHANGED <<from, to, phase, page, out>>

\* Mutant: the last block of the range is not asked for.
PastEnd_m == to # None /\ current >= to

PastEnd == to # None /\ current > to

EndOfRange ==
  /\ phase = "check" /\ PastEnd
  /\ phase' = "done"
  /\ UNCHANGED <<height, from, to, page, out>>

\* start_request: the first attempt goes out.
Request ==
  /\ phase = "check" /\ ~ PastEnd
  /\ phase' = "request" /\ attempt' = 0
  /\ UNCHANGED <<height, from, to, current, next, end, lastBlock, portalHead, out>>

\* A 5xx answer or a failed connection is tried again ...
Retry ==
  /\ phase = "request" /\ attempt + 1 < MaxRetries
  /\ attempt' = attempt + 1
  /\ UNCHANGED <<height, from, to, phase, current, next, end, lastBlock, portalHead, out>>

\* ... and once the attempts are used up, the stream fails.
GiveUp ==
  /\ phase = "request" /\ attempt + 1 = MaxRetries
  /\ phase' = "failed"
  /\ UNCHANGED <<height, from, to, page, out>>

\* Any other error, a 4xx answer for one, is final.
Refused ==
  /\ phase = "request"
  /\ phase' = "failed"
  /\ UNCHANGED <<height, from, to, page, out>>

\* Mutant: the query does not say where the range ends.
PageEnds_m == IF current > height THEN {current} ELSE (current + 1)..(height + 1)

\* The portal answers with the blocks from current to before e: one at least,
\* unless current is beyond its height.
PageEnds ==
  IF current > height THEN {current}
  ELSE {e \in (current + 1)..(height + 1) : to # None => e <= to + 1}

\* Mutant: the last block of the page before is still remembered.
Respond_m ==
  /\ phase = "request"
  /\ end' \in PageEnds
  /\ next' = current
  /\ phase' = "body"
  /\ portalHead' = height
  /\ UNCHANGED <<height, from, to, current, attempt, lastBlock, out>>

Respond ==
  /\ phase = "request"
  /\ phase' = "body"
  /\ end' \in PageEnds
  /\ next' = current /\ lastBlock' = None
  /\ portalHead' = height
  /\ UNCHANGED <<height, from, to, current, attempt, out>>

\* Mutant: the block parsed is not remembered.
Yield_m ==
  /\ phase = "body" /\ next < end
  /\ out' = Append(out, next)
  /\ next' = next + 1
  /\ UNCHANGED <<height, from, to, phase, current, attempt, end, lastBlock, portalHead>>

Yield ==
  /\ phase = "body" /\ next < end
  /\ out' = Append(out, next)
  /\ lastBlock' = next /\ next' = next + 1
  /\ UNCHANGED <<height, from, to, phase, current, attempt, end, portalHead>>

\* The body breaks off, or a line is no block: the stream ends with an error,
\* wherever it is in the page.  Nothing is requested again.
BodyError ==
  /\ phase = "body"
  /\ phase' = "failed"
  /\ UNCHANGED <<height, from, to, page, out>>

PageOver == phase = "body" /\ next = end

\* An empty page: the portal has no more.
Exhausted ==
  /\ PageOver /\ lastBlock = None
  /\ phase' = "done"
  /\ UNCHANGED <<height, from, to, page, out>>

ReachedEnd == to # None /\ lastBlock >= to

LastPage ==
  /\ PageOver /\ lastBlock # None /\ ReachedEnd
  /\ phase' = "done"
  /\ UNCHANGED <<height, from, to, page, out>>

\* Mutant: the next page starts with the last block of this one.
NextPage_m ==
  /\ PageOver /\ lastBlock # None /\ ~ ReachedEnd
  /\ phase' = "check" /\ current' = lastBlock
  /\ UNCHANGED <<height, from, to, attempt, next, end, lastBlock, portalHead, out>>

NextPage ==
  /\ PageOver /\ lastBlock # None /\ ~ ReachedEnd
  /\ phase' = "check" /\ current' = lastBlock + 1
  /\ UNCHANGED <<height, from, to, attempt, next, end, lastBlock, portalHead, out>>

Ends == EndOfRange \/ Exhausted \/ LastPage
Fails == GiveUp \/ Refused \/ BodyError
Answer == Retry \/ GiveUp \/ Refused \/ Respond
Client == EndOfRange \/ Request \/ Yield \/ Exhausted \/ LastPage \/ NextPage

Done == phase \in {"done", "failed"} /\ UNCHANGED vars

Next == Grow \/ Client \/ Answer \/ BodyError \/ Done

Spec == Init /\ [][Next]_vars

\* The client runs, and whoever answers the request does so.
FairSpec == Spec /\ WF_vars(Client) /\ WF_vars(Answer)

----------------------------------------------------------------------------
\* The numbers of a sequence are those from the given one on.
ConsecutiveFrom(s, n) == \A i \in 1..Len(s) : s[i] = n + i - 1

\* The blocks yielded are the consecutive ones from "from" on, none twice and
\* none left out, across pages, retries and a growing portal (lib.rs:322-388).
StreamIsContiguous == ConsecutiveFrom(out, from)

\* No block beyond the end asked for is yielded: the query names the end of the
\* range, and a page that reaches it is the last (lib.rs:127-130, 381-383).
WithinRange == to # None => \A i \in 1..Len(out) : out[i] <= to

\* A stream that ends without an error has yielded all that was asked for, or
\* all that the portal had when it answered last (lib.rs:310-312).
EndIsTheEnd ==
  phase = "done" =>
    \/ to # None /\ from + Len(out) > to
    \/ from + Len(out) > portalHead

\* A stream ends: every page makes it shorter, and errors end it.
Terminates == <>(phase \in {"done", "failed"})

\* Every variable has its type; the attempts stay below the limit.
TypeOK ==
  /\ height \in Nat /\ from \in Nat /\ to \in Nat \cup {None}
  /\ phase \in Phases
  /\ current \in Nat /\ attempt \in 0..(MaxRetries - 1)
  /\ next \in Nat /\ end \in Nat /\ lastBlock \in Nat \cup {None} /\ portalHead \in Nat
  /\ out \in Seq(Nat)

\* Where the stream stands: the number it expects is the one it asked for or the
\* one the body has next, and the body lies in the range and below the height.
Position ==
  /\ phase \in {"check", "request"} => current = from + Len(out)
  /\ phase = "request" => ~ PastEnd
  /\ phase = "body" =>
       /\ next = from + Len(out) /\ current <= next /\ next <= end
       /\ IF lastBlock = None THEN next = current ELSE lastBlock + 1 = next
       /\ end = current => current > portalHead
       /\ to # None => end <= to + 1 \/ end = current

\* The inductive invariant.
IInv == TypeOK /\ StreamIsContiguous /\ WithinRange /\ EndIsTheEnd /\ Position
=============================================================================
