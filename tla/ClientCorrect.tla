--------------------------- MODULE ClientCorrect ---------------------------
(***************************************************************************)
(* The inductive invariant of the clients: what their caches may hold, and *)
(* what they know of the call in hand.                                     *)
(***************************************************************************)
EXTENDS Client

\* What the server has said by world n: a row of one of its worlds, or a code asked for
\* by address in one world and stored under the hash that the account had in another.
AccountEntries(n) ==
  {Entry(AccountPlace(a), GetAccount(history[w], a)) : w \in 1..n, a \in Addr}
SlotEntries(n) ==
  {Entry(SlotPlace(a, s), ReadSlot(GetStorage(history[w], a, s))) :
     w \in 1..n, a \in Addr, s \in Slot}
AskedFor(n) ==
  {x \in (1..n) \X (1..n) \X Addr :
     HasCode(history[x[1]].acct[x[3]]) /\ GetCode(history[x[2]], x[3]) # None}
CodeEntries(n) ==
  {Entry(CodePlace(history[x[1]].acct[x[3]].code), GetCode(history[x[2]], x[3])) :
     x \in AskedFor(n)}
Said(n) == AccountEntries(n) \cup SlotEntries(n) \cup CodeEntries(n)

\* A cache that holds nothing else: one entry for a place, its kind's, in its capacity.
Distinct(tier) == \A i, j \in DOMAIN tier : tier[i].at = tier[j].at => i = j
OfKind(tier, t) == \A i \in DOMAIN tier : tier[i].at.tier = t
Caches(n) ==
  {caches \in [Tiers -> Seq(Said(n))] : \A t \in Tiers :
     Len(caches[t]) <= client.capacity /\ Distinct(caches[t]) /\ OfKind(caches[t], t)}

\* The steps of a run and what they may read.
AccountSteps == {s \in Steps : ReadsAccount(s)}
RunSteps == {s \in Steps : s.op = "run"}
SlotSteps == {s \in Steps : s.op = "sload"}
OtherSteps == {s \in Steps : ~ ReadsAccount(s) /\ s.op # "run"}
Numbers == Nat \cup {SpecAt(Schedule, history[w].head, 0) : w \in DOMAIN history}
Logged ==
  [step: AccountSteps, value: AccountInfo \cup {None}]
    \cup [step: RunSteps, value: Code \cup {NoCode}]
    \cup [step: OtherSteps, value: Numbers]
Runs == [todo: Seq(Steps), log: Seq(Logged)]

CallerTypes ==
  /\ pc \in [Callers -> States] /\ verdict \in [Callers -> Verdicts]
  /\ run \in [Callers -> Runs]
  /\ DOMAIN call = Callers /\ DOMAIN reply = Callers
  /\ DOMAIN got = Callers /\ DOMAIN code = Callers

\* The answer to a prefetch, until it is stored.
AnswerInv(c) == pc[c] = "answered" =>
  call[c] \in Calls /\ reply[c].slice \in Seq(Said(world))

\* The answer to a read is what the server said, now or earlier, and so is the code.
Fetching(c) == pc[c] \in {"got", "coded", "store"}
ReadInv(c) == Fetching(c) =>
  /\ run[c].todo # <<>> /\ Now(c) \in AccountSteps \cup SlotSteps
  /\ \E w \in 1..world : got[c] = ServerReads(history[w], Now(c))
CodeInv(c) == pc[c] = "coded" =>
  /\ ReadsAccount(Now(c)) /\ HasCode(got[c])
  /\ \E w \in 1..world : code[c] = GetCode(history[w], Now(c).of)

IInv ==
  /\ client \in Clients /\ history \in Histories /\ world \in DOMAIN history
  /\ left \in 0..MaxCalls
  /\ cache \in Caches(world)
  /\ CallerTypes
  /\ \A c \in Callers : AnswerInv(c) /\ ReadInv(c) /\ CodeInv(c)

----------------------------------------------------------------------------
\* While the database stays as it is: the world is the first one.
ServerRead == [step \in Steps |-> ServerReads(history[1], step)]

\* A run after each number of steps.
Unrolled(r, read) ==
  LET after[n \in 0..Gas] == IF n = 0 THEN Begin(r) ELSE StepOf(after[n - 1], read)
  IN  after

\* A local run that is, so far, the server's.
Faithful(c) == \E n \in 0..Gas :
  run[c] = Unrolled(call[c], ServerRead)[n] /\ Len(run[c].log) = n

Excused(c) ==
  \/ Done(c, LAMBDA e : ReadsBlock(e.step))
  \/ ~ HasRoom /\ Done(c, LostCode)

\* The codes that the database has of the accounts that a cache or a run knows are cached.
Available(caches, x) == x \in history[1].code => Held(caches["code"], CodePlace(x))
CodesKept(caches) == \A a \in Addr :
  (Held(caches["account"], AccountPlace(a)) /\ HasCode(GetAccount(history[1], a))) =>
    Available(caches, GetAccount(history[1], a).code)
Ready(caches, r) ==
  /\ \A i \in DOMAIN r.todo : r.todo[i].op = "run" => Available(caches, r.todo[i].what)
  /\ \A i \in DOMAIN r.log : (ReadsAccount(r.log[i].step) /\ HasCode(r.log[i].value)) =>
       Available(caches, r.log[i].value.code)

InRun(c) == pc[c] \in {"run", "got", "coded", "store"}
RoomInv == HasRoom =>
  /\ CodesKept(cache)
  /\ \A c \in Callers : InRun(c) => Ready(cache, run[c])
  /\ \A c \in Callers : pc[c] = "store" => Available(cache, got[c].code)

\* What a caller knows of the answer, and how it stands with the server's run.
Answered(c) == pc[c] # "idle" \/ verdict[c] \in {"match", "mismatch"}
HonestInv(c) ==
  /\ pc[c] # "idle" => verdict[c] = "none"
  /\ Answered(c) => /\ call[c] \in Calls /\ reply[c] = Prefetch(history[1], call[c])
                    /\ reply[c] # None
  /\ InRun(c) => client.fetches /\ (Faithful(c) \/ Excused(c))
  /\ Fetching(c) => ~ Over(run[c]) /\ ~ Journaled(run[c])

StillInv == world = 1 =>
  /\ RoomInv /\ HonestServerVerifies
  /\ \A c \in Callers : HonestInv(c)

----------------------------------------------------------------------------
\* What the call in hand was given, and what it has touched or is about to touch.
Own(c) == PlacesIn(reply[c].slice)
Pending(c) ==
  (IF Fetching(c) THEN {PlaceOf(Now(c))} ELSE {})
    \cup (IF Fetching(c) /\ ReadsAccount(Now(c)) /\ HasCode(got[c])
          THEN {CodePlace(got[c].code)} ELSE {})
Needed(c) == Touched(c) \cup Pending(c)
FitsIn(places) == \A t \in Tiers : Cardinality(TierOf(places, t)) <= client.capacity

\* Whatever was used after one of these is one of those.
Recent(tier, these, those) == \A i, j \in DOMAIN tier :
  (i <= j /\ tier[i].at \in these) => tier[j].at \in those
HasEntry(tier, e) == \E i \in DOMAIN tier : tier[i] = e
HasSlice(caches, slice) ==
  \A i \in DOMAIN slice : HasEntry(caches[slice[i].at.tier], slice[i])

ReplyInv(c) == pc[c] # "idle" =>
  /\ call[c] \in Calls /\ reply[c] # None
  /\ \E w \in 1..world : reply[c] = Prefetch(history[w], call[c])
AsksOthers(c) ==
  /\ Fetching(c) => PlaceOf(Now(c)) \notin Own(c)
  /\ pc[c] = "coded" => CodePlace(got[c].code) \notin Own(c)
Safe(caches, c, places) ==
  /\ HasSlice(caches, reply[c].slice)
  /\ \A t \in Tiers : Recent(caches[t], Own(c), places)
OwnThere(c) == Safe(cache, c, Needed(c)) /\ AsksOthers(c)
OwnInv(c) == (InRun(c) /\ Alone(c) /\ FitsIn(Needed(c))) => OwnThere(c)

SliceInv == \A c \in Callers : ReplyInv(c) /\ OwnInv(c)
=============================================================================
