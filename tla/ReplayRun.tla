------------------------------ MODULE ReplayRun ------------------------------
(***************************************************************************)
(* The replay command: block stream, pipeline and database head together   *)
(* (run_replay in crates/cli, run_pipeline in crates/replayer, over        *)
(* SqdFetcher).  Runs follow one another, each from the head that the one  *)
(* before left; any of them may fail or be killed.                         *)
(*                                                                         *)
(* The pipeline pulls blocks one at a time: the stream does not move while *)
(* a block is in its hands.  Here a block that replays just becomes the    *)
(* head; Replayer models what replaying does.                              *)
(***************************************************************************)
EXTENDS SqdFetcher

CONSTANTS
  FromArgs, ToArgs  \* the --from and --to given, None for no argument

ASSUME ArgsType == FromArgs \cup ToArgs \subseteq Nat \cup {None}

VARIABLES
  drops,    \* whether this portal may leave blocks out of a page
  head,     \* the head block of the database, None before the first
  asked,    \* the --from of the run, None for no argument
  running,  \* whether a run is on
  head0,    \* the head that its run_pipeline read
  last,     \* the last block it replayed
  hand,     \* the block pulled from the stream and not handled yet
  outcome   \* how the last run ended

pipeline == <<asked, running, head0, last, hand, outcome>>
stream == <<from, to, phase, page, out>>
runVars == <<vars, drops, head, pipeline>>

RunInit ==
  /\ Init /\ from = 0 /\ to = None /\ drops \in BOOLEAN
  /\ head = None /\ asked = None /\ running = FALSE /\ head0 = None /\ last = None /\ hand = None
  /\ outcome = "none"

Following(h) == IF h = None THEN 0 ELSE h + 1
\* Mutant: the block after the head is passed by.
StartBlock_m(f) == IF f # None THEN f ELSE Following(head) + 1

StartBlock(f) == IF f # None THEN f ELSE Following(head)

Command(f, t) ==
  /\ ~ running
  /\ asked' = f /\ running' = TRUE /\ head0' = head /\ last' = None /\ hand' = None /\ outcome' = "none"
  /\ from' = StartBlock(f) /\ to' = t
  /\ phase' = "check" /\ current' = StartBlock(f)
  /\ attempt' = 0 /\ next' = 0 /\ end' = 0 /\ lastBlock' = None /\ portalHead' = 0
  /\ out' = <<>>
  /\ UNCHANGED <<height, drops, head>>

Exit(r) ==
  /\ running' = FALSE /\ outcome' = r
  /\ head0' = None /\ last' = None /\ hand' = None
  /\ UNCHANGED <<height, drops, asked, stream>>

Pulling == running /\ hand = None
Holding == running /\ hand # None

\* The stream works on the next block while the pipeline waits for it.
Pull ==
  /\ Pulling
  /\ hand' = IF phase = "body" /\ next < end THEN next ELSE None
  /\ Client
  /\ UNCHANGED <<drops, head, asked, running, head0, last, outcome>>

PortalAnswers ==
  /\ Pulling
  /\ Answer \/ BodyError
  /\ UNCHANGED <<drops, head, pipeline>>

\* A faulty portal leaves out a block, though not the first one a run would replay.
PortalDrops ==
  /\ drops /\ Pulling
  /\ phase = "body" /\ next < end /\ last # None
  /\ next' = next + 1
  /\ UNCHANGED <<height, from, to, phase, current, attempt, end, lastBlock, portalHead, out,
                 drops, head, pipeline>>

PortalGrows == Grow /\ UNCHANGED <<drops, head, pipeline>>

Complete == Pulling /\ phase = "done" /\ Exit("complete") /\ UNCHANGED head
SourceFails == Pulling /\ phase = "failed" /\ Exit("source_error") /\ UNCHANGED head

\* Mutant: the block after the head counts as seen.
Seen_m == head0 # None /\ hand <= head0 + 1

Seen == head0 # None /\ hand <= head0
\* Mutant: the continuity check is gone.
Jumps_m == FALSE

Jumps == last # None /\ hand # last + 1

SkipBlock ==
  /\ Holding /\ Seen
  /\ hand' = None
  /\ UNCHANGED <<height, drops, stream, head, asked, running, head0, last, outcome>>

GapError == Holding /\ ~ Seen /\ Jumps /\ Exit("gap") /\ UNCHANGED head

ReplayBlock ==
  /\ Holding /\ ~ Seen /\ ~ Jumps
  /\ head' = hand /\ last' = hand /\ hand' = None
  /\ UNCHANGED <<height, drops, stream, asked, running, head0, outcome>>

ReplayFails == Holding /\ ~ Seen /\ ~ Jumps /\ Exit("replay_error") /\ UNCHANGED head

Kill == running /\ Exit("killed") /\ UNCHANGED head

RunNext ==
  \/ \E f \in FromArgs, t \in ToArgs : Command(f, t)
  \/ Pull \/ PortalAnswers \/ PortalDrops \/ PortalGrows
  \/ Complete \/ SourceFails
  \/ SkipBlock \/ GapError \/ ReplayBlock \/ ReplayFails \/ Kill

RunSpec == RunInit /\ [][RunNext]_runVars

\* The program runs, the portal answers its requests, and someone keeps starting
\* the command without arguments.
FairRunSpec ==
  /\ RunSpec
  /\ WF_runVars(Pull \/ PortalAnswers \/ Complete \/ SourceFails \/ SkipBlock \/ ReplayBlock)
  /\ WF_runVars(Command(None, None))
  /\ WF_runVars(PortalGrows)

----------------------------------------------------------------------------
\* A --from above the block that follows the head asks for a hole; nothing checks it.
BeyondNext == asked # None /\ asked > Following(head)

\* The first block that a run replays follows the head, and so does each one after
\* it: no run leaves a hole or replays a block twice, unless its --from asks for it,
\* wherever the runs before it were cut off and whatever the portal leaves out later
\* on (pipeline.rs:122-139).
NoHole == [][head' \in {head, Following(head)} \/ (last = None /\ BeyondNext)]_runVars

\* What Replayer assumes of its streams: the first block offered is no further than
\* the one that follows the head, unless --from asks for it.
FirstOfferContiguous ==
  (Holding /\ last = None) => hand <= Following(head) \/ BeyondNext

\* The gap check refuses no block of a portal that leaves none out: pages join up.
NoGapReported == ~ drops => outcome # "gap"

\* "replay complete" means it: the head has reached --to or the height that the
\* portal last reported, unless --from lies beyond (main.rs, lib.rs of the fetcher).
CompleteIsCaughtUp ==
  (outcome = "complete" /\ ~ drops /\ ~ BeyondNext) =>
    \/ to # None /\ Following(head) > to
    \/ Following(head) > portalHead

\* When failures end, the head reaches the portal's last block, if the portal leaves
\* none out.
CatchesUp ==
  (<>[][~ (Kill \/ ReplayFails \/ SourceFails \/ \E f \in FromArgs, t \in ToArgs \ {None} : Command(f, t))]_runVars)
     => <>(drops \/ head = MaxHeight)

----------------------------------------------------------------------------
\* The inductive invariant.

RunTypeOK ==
  /\ TypeOK
  /\ drops \in BOOLEAN /\ running \in BOOLEAN
  /\ {head, asked, head0, last, hand} \subseteq Nat \cup {None}
  /\ outcome \in {"none", "complete", "source_error", "gap", "replay_error", "killed"}

\* As long as no block can have been left out, the stream is what SqdFetcher promises.
Faithful == ~ drops \/ (running /\ last = None)
StreamInv == Faithful => IInv

\* The head is the one that the run read until it replays a block, then that block.
HeadInv ==
  running =>
    /\ outcome = "none"
    /\ from = IF asked # None THEN asked ELSE Following(head0)
    /\ head = IF last = None THEN head0 ELSE last
    /\ last # None /\ head0 # None => last > head0

\* The first block that the pipeline has not handled yet.
Expected == IF hand = None THEN from + Len(out) ELSE hand

\* It follows the last one that was replayed; before that, all blocks were skipped.
HandInv ==
  running /\ Faithful =>
    /\ hand # None => hand + 1 = from + Len(out)
    /\ IF last # None THEN Expected = last + 1
       ELSE Expected = from \/ (head0 # None /\ Expected <= head0 + 1)

RunInv ==
  /\ RunTypeOK /\ StreamInv /\ HeadInv /\ HandInv
  /\ NoGapReported /\ CompleteIsCaughtUp
=============================================================================
