------------------------------- MODULE Client -------------------------------
(***************************************************************************)
(* The two clients of the HTTP API.  Both ask for a call with prefetch,    *)
(* store the state slice that comes back in their caches and, to verify,   *)
(* run the call again on the caches.  The native client (crates/client)    *)
(* keeps LRU caches shared by threads and asks the server for what they    *)
(* lack; the browser client (crates/client-wasm) keeps maps without limit, *)
(* runs the call in one turn of the event loop and takes what they lack    *)
(* for absent.                                                             *)
(*                                                                         *)
(* The server answers each request at one moment.  Its database advances   *)
(* along a history of worlds while the server is down between requests;    *)
(* the client keeps its caches.  Any request in flight may fail.           *)
(***************************************************************************)
EXTENDS StateApi

CONSTANTS
  Callers,    \* threads of the native client, pending promises of the browser's
  Clients,    \* the kinds of client: does it fetch, capacity, does it verify, its rules
  Histories,  \* sequences of the rows that the server's database goes through
  Requests,   \* the calls that are made
  MaxCalls    \* bound: calls made in all

VARIABLES
  client,   \* which client it is
  history,  \* what happens to the server's database
  world,    \* where in the history it is
  left,     \* calls still to be made
  cache,    \* the three caches: entries, the least recently used first
  pc,       \* where each caller is
  call,     \* the call it makes
  reply,    \* the answer to its prefetch
  run,      \* its local run
  got,      \* the answer to its last read
  code,     \* the answer to its request for an account's code
  verdict   \* how its last call ended

caller == <<pc, call, reply, run, got, code, verdict>>
vars == <<client, history, world, left, cache, caller>>

Kinds == [fetches: BOOLEAN, capacity: Nat \ {0}, verifies: BOOLEAN, rules: Nat]
ASSUME ClientsType == Clients \subseteq Kinds
\* Addresses and slots have 20 and 32 bytes, and a bytecode has a largest length.
ASSUME PlacesAreFinite == IsFiniteSet(Places)
\* The browser client's maps have no limit.
ASSUME BrowserHasRoom ==
  \A k \in Clients : ~ k.fetches => Cardinality(Places) <= k.capacity
ASSUME HistoriesType == \A h \in Histories : h \in Seq(Rows) /\ h # <<>>
ASSUME RequestsType == Requests \subseteq Calls
ASSUME MaxCallsType == MaxCalls \in Nat

db == history[world]

----------------------------------------------------------------------------
\* The caches.
Held(tier, place) == \E i \in DOMAIN tier : tier[i].at = place
PositionOf(tier, place) == CHOOSE i \in DOMAIN tier : tier[i].at = place
ValueOf(tier, place) == tier[PositionOf(tier, place)].value
Without(tier, place) ==
  IF Held(tier, place) THEN RemoveAt(tier, PositionOf(tier, place)) ELSE tier

\* Mutant: a full cache drops the entry that was used last.
Trim_m(tier) ==
  IF Len(tier) > client.capacity THEN SubSeq(tier, 1, Len(tier) - 2) \o <<tier[Len(tier)]>>
  ELSE tier

\* Mutant: a cache holds one entry more than its capacity.
Trim_m2(tier) == IF Len(tier) > client.capacity + 1 THEN Tail(tier) ELSE tier

Trim(tier) == IF Len(tier) > client.capacity THEN Tail(tier) ELSE tier

Put(caches, e) ==
  [caches EXCEPT ![e.at.tier] = Trim(Append(Without(@, e.at), e))]

Cached(place) == Held(cache[place.tier], place)
CachedValue(place) == ValueOf(cache[place.tier], place)
Use(place) == Put(cache, Entry(place, CachedValue(place)))

\* A slice is stored entry by entry, while the lock on the caches is held.
Stored(caches, slice) ==
  LET after[i \in 0..Len(slice)] ==
        IF i = 0 THEN caches ELSE Put(after[i - 1], slice[i])
  IN  after[Len(slice)]
StoreSlice(caches, c) == Stored(caches, reply[c].slice)

----------------------------------------------------------------------------
NoRun == [todo |-> <<>>, log |-> <<>>]

Init ==
  /\ client \in Clients /\ history \in Histories
  /\ world = 1 /\ left = MaxCalls
  /\ cache = [t \in Tiers |-> <<>>]
  /\ pc = [c \in Callers |-> "idle"]
  /\ call = [c \in Callers |-> None]
  /\ reply = [c \in Callers |-> None]
  /\ run = [c \in Callers |-> NoRun]
  /\ got = [c \in Callers |-> None] /\ code = [c \in Callers |-> None]
  /\ verdict = [c \in Callers |-> "none"]

\* The server is stopped, its database replayed further, and started again.
Move ==
  /\ world < Len(history)
  /\ world' = world + 1
  /\ UNCHANGED <<client, history, left, cache, caller>>

\* A call: the server runs it and answers, or refuses it.
Ask(c, r) ==
  /\ pc[c] = "idle" /\ left > 0
  /\ left' = left - 1
  /\ call' = [call EXCEPT ![c] = r]
  /\ LET answer == Prefetch(db, r)
     IN /\ reply' = [reply EXCEPT ![c] = answer]
        /\ pc' = [pc EXCEPT ![c] = IF answer = None THEN "idle" ELSE "answered"]
        /\ verdict' = [verdict EXCEPT ![c] = IF answer = None THEN "error" ELSE "none"]
  /\ run' = [run EXCEPT ![c] = NoRun]
  /\ got' = [got EXCEPT ![c] = None] /\ code' = [code EXCEPT ![c] = None]
  /\ UNCHANGED <<client, history, world, cache>>

\* A request fails on the way, and the call with it; the caches stay.
Fail(c) ==
  /\ pc[c] \in {"answered", "got", "coded"}
  /\ pc' = [pc EXCEPT ![c] = "idle"]
  /\ verdict' = [verdict EXCEPT ![c] = "error"]
  /\ UNCHANGED <<client, history, world, left, cache, call, reply, run, got, code>>

\* A prefetch alone, which both clients offer, or a call of a client that trusts the
\* server: the slice is stored and the result taken as it is.
Preload(c) ==
  /\ pc[c] = "answered"
  /\ cache' = StoreSlice(cache, c)
  /\ pc' = [pc EXCEPT ![c] = "idle"]
  /\ verdict' = [verdict EXCEPT ![c] = "unverified"]
  /\ UNCHANGED <<client, history, world, left, call, reply, run, got, code>>

Verdict(c, r) ==
  IF Refused(r) THEN "error"
  ELSE IF Outcome(r) = reply[c].outcome THEN "match" ELSE "mismatch"

\* The local runs know no block: its number is 0, the rules are the client's.
PlaceOf(step) ==
  CASE ReadsAccount(step) -> AccountPlace(step.of)
    [] step.op = "run" -> CodePlace(step.what)
    [] step.op = "sload" -> SlotPlace(step.of, step.what)

Absent(step) ==
  IF ReadsAccount(step) THEN None ELSE IF step.op = "run" THEN NoCode ELSE 0

ReadsBlock(step) == step.op \in BlockOps
BlockValue(step) == IF step.op = "number" THEN 0 ELSE client.rules

MapReads(caches, step) ==
  IF ReadsBlock(step) THEN BlockValue(step)
  ELSE LET p == PlaceOf(step)
       IN IF Held(caches[p.tier], p) THEN ValueOf(caches[p.tier], p) ELSE Absent(step)

\* The browser client, from the answer to the verdict.
VerifyAtOnce(c) ==
  /\ pc[c] = "answered" /\ client.verifies /\ ~ client.fetches
  /\ LET stored == StoreSlice(cache, c)
         r == RunOf(call[c], [step \in Steps |-> MapReads(stored, step)])
     IN /\ cache' = stored
        /\ run' = [run EXCEPT ![c] = r]
        /\ verdict' = [verdict EXCEPT ![c] = Verdict(c, r)]
  /\ pc' = [pc EXCEPT ![c] = "idle"]
  /\ UNCHANGED <<client, history, world, left, call, reply, got, code>>

----------------------------------------------------------------------------
\* The native client runs the call read by read.
StartRun(c) ==
  /\ pc[c] = "answered" /\ client.verifies /\ client.fetches
  /\ cache' = StoreSlice(cache, c)
  /\ run' = [run EXCEPT ![c] = Begin(call[c])]
  /\ pc' = [pc EXCEPT ![c] = "run"]
  /\ UNCHANGED <<client, history, world, left, call, reply, got, code, verdict>>

Running(c) == pc[c] = "run" /\ ~ Over(run[c])
Now(c) == Head(run[c].todo)
Go(c, value) == run' = [run EXCEPT ![c] = Advance(@, value)]

\* A read that needs no cache.
Known(c) ==
  /\ Running(c) /\ (Journaled(run[c]) \/ ReadsBlock(Now(c)))
  /\ Go(c, IF Journaled(run[c]) THEN FromJournal(run[c]) ELSE BlockValue(Now(c)))
  /\ UNCHANGED <<client, history, world, left, cache, pc, call, reply, got, code, verdict>>

Looks(c) == Running(c) /\ ~ Journaled(run[c]) /\ ~ ReadsBlock(Now(c))

Hit(c) ==
  /\ Looks(c) /\ Cached(PlaceOf(Now(c)))
  /\ Go(c, CachedValue(PlaceOf(Now(c))))
  /\ cache' = Use(PlaceOf(Now(c)))
  /\ UNCHANGED <<client, history, world, left, pc, call, reply, got, code, verdict>>

Misses(c) == Looks(c) /\ ~ Cached(PlaceOf(Now(c)))

\* Code is not asked for again: it should be there since its account was read.
NoSuchCode(c) ==
  /\ Misses(c) /\ Now(c).op = "run"
  /\ Go(c, NoCode)
  /\ UNCHANGED <<client, history, world, left, cache, pc, call, reply, got, code, verdict>>

\* The server answers the request for an account or a slot.
Get(c) ==
  /\ Misses(c) /\ Now(c).op # "run"
  /\ got' = [got EXCEPT ![c] = ServerReads(db, Now(c))]
  /\ pc' = [pc EXCEPT ![c] = "got"]
  /\ UNCHANGED <<client, history, world, left, cache, call, reply, run, code, verdict>>

\* Mutant: the code of an account is left for later.
NeedsCode_m(c) == FALSE

NeedsCode(c) ==
  /\ ReadsAccount(Now(c)) /\ HasCode(got[c])
  /\ ~ Cached(CodePlace(got[c].code))

\* The code is asked for by address, in a request of its own.
GetItsCode(c) ==
  /\ pc[c] = "got" /\ NeedsCode(c)
  /\ code' = [code EXCEPT ![c] = GetCode(db, Now(c).of)]
  /\ pc' = [pc EXCEPT ![c] = "coded"]
  /\ UNCHANGED <<client, history, world, left, cache, call, reply, run, got, verdict>>

\* Mutant: a missing code is stored as empty.
StoreCode_m(c) ==
  /\ pc[c] = "coded"
  /\ cache' = Put(cache, Entry(CodePlace(got[c].code), IF code[c] = None THEN NoCode ELSE code[c]))
  /\ pc' = [pc EXCEPT ![c] = "store"]
  /\ UNCHANGED <<client, history, world, left, call, reply, run, got, code, verdict>>

\* It is stored under the hash that the account had before; a missing one is not.
StoreCode(c) ==
  /\ pc[c] = "coded"
  /\ cache' = IF code[c] = None THEN cache
              ELSE Put(cache, Entry(CodePlace(got[c].code), code[c]))
  /\ pc' = [pc EXCEPT ![c] = "store"]
  /\ UNCHANGED <<client, history, world, left, call, reply, run, got, code, verdict>>

\* Mutant: an absent account is not stored, and asked for again.
Store_m(c) ==
  /\ pc[c] = "store" \/ (pc[c] = "got" /\ ~ NeedsCode(c))
  /\ cache' = IF got[c] = None THEN cache ELSE Put(cache, Entry(PlaceOf(Now(c)), got[c]))
  /\ run' = [run EXCEPT ![c] = IF got[c] = None THEN @ ELSE Advance(@, got[c])]
  /\ pc' = [pc EXCEPT ![c] = "run"]
  /\ got' = [got EXCEPT ![c] = None] /\ code' = [code EXCEPT ![c] = None]
  /\ UNCHANGED <<client, history, world, left, call, reply, verdict>>

\* Mutant: an absent account is stored as an empty one.
Store_m2(c) ==
  /\ pc[c] = "store" \/ (pc[c] = "got" /\ ~ NeedsCode(c))
  /\ LET value == IF got[c] = None THEN [nonce |-> 0, balance |-> 0, code |-> NoCode] ELSE got[c]
     IN cache' = Put(cache, Entry(PlaceOf(Now(c)), value)) /\ Go(c, value)
  /\ pc' = [pc EXCEPT ![c] = "run"]
  /\ got' = [got EXCEPT ![c] = None] /\ code' = [code EXCEPT ![c] = None]
  /\ UNCHANGED <<client, history, world, left, call, reply, verdict>>

\* The answer is stored, absent accounts too, over whatever came in meanwhile.
Store(c) ==
  /\ pc[c] = "store" \/ (pc[c] = "got" /\ ~ NeedsCode(c))
  /\ cache' = Put(cache, Entry(PlaceOf(Now(c)), got[c]))
  /\ Go(c, got[c])
  /\ pc' = [pc EXCEPT ![c] = "run"]
  /\ got' = [got EXCEPT ![c] = None] /\ code' = [code EXCEPT ![c] = None]
  /\ UNCHANGED <<client, history, world, left, call, reply, verdict>>

Finish(c) ==
  /\ pc[c] = "run" /\ Over(run[c])
  /\ verdict' = [verdict EXCEPT ![c] = Verdict(c, run[c])]
  /\ pc' = [pc EXCEPT ![c] = "idle"]
  /\ UNCHANGED <<client, history, world, left, cache, call, reply, run, got, code>>

Step(c) ==
  \/ Preload(c) \/ VerifyAtOnce(c) \/ StartRun(c)
  \/ Known(c) \/ Hit(c) \/ NoSuchCode(c) \/ Get(c)
  \/ GetItsCode(c) \/ StoreCode(c) \/ Store(c) \/ Finish(c)

Next ==
  \/ Move
  \/ \E c \in Callers : (\E r \in Requests : Ask(c, r)) \/ Fail(c) \/ Step(c)

Spec == Init /\ [][Next]_vars

\* Each thread runs, and the server answers it.
FairSpec == Spec /\ \A c \in Callers : WF_vars(Step(c))

----------------------------------------------------------------------------
PlacesIn(entries) == {entries[i].at : i \in DOMAIN entries}
TierOf(places, t) == {p \in places : p.tier = t}
Done(c, Is(_)) == \E i \in DOMAIN run[c].log : Is(run[c].log[i])

States == {"idle", "answered", "run", "got", "coded", "store"}
Verdicts == {"none", "error", "unverified", "match", "mismatch"}

\* Every variable has its type; a cache is a map within its capacity.
TypeOK ==
  /\ client \in Clients /\ history \in Histories /\ world \in DOMAIN history
  /\ left \in 0..MaxCalls
  /\ \A t \in Tiers :
       /\ Len(cache[t]) <= client.capacity
       /\ Cardinality(PlacesIn(cache[t])) = Len(cache[t])
       /\ PlacesIn(cache[t]) \subseteq TierOf(Places, t)
  /\ \A c \in Callers : pc[c] \in States /\ verdict[c] \in Verdicts

\* While the database stays as it is, verifying the answer of an honest server fails
\* for one of three reasons only: the call looks at its block, a code was evicted
\* between two reads, or the browser client lacks a called account that the server
\* left out (client lib.rs:328-336, 434-441; client-wasm lib.rs:115-117).
HasRoom == \A t \in Tiers : Cardinality(TierOf(Places, t)) <= client.capacity
LostCode(e) == e.step.op = "run" /\ e.value = NoCode /\ e.step.what \in db.code
LeftOut(c, e) ==
  /\ e.step.op \in {"call", "delegatecall"} /\ GetAccount(db, e.step.of) # None
  /\ AccountPlace(e.step.of) \notin PlacesIn(reply[c].slice)

HonestServerVerifies ==
  \A c \in Callers : (world = 1 /\ verdict[c] = "mismatch") =>
    \/ Done(c, LAMBDA e : ReadsBlock(e.step))
    \/ client.fetches /\ ~ HasRoom /\ Done(c, LostCode)
    \/ ~ client.fetches /\ Done(c, LAMBDA e : LeftOut(c, e))

\* What a call was given it keeps: if all that it touches fits into the caches and no
\* other call is made, its slice stays in them, with the slice's values, until the call
\* ends, whatever was in them before (lib.rs:179-211).
ReadPlaces(r) == {PlaceOf(s) : s \in {t \in Recorded(r) : ~ ReadsBlock(t)}}
CodePlaces(r) ==
  {CodePlace(r.log[i].value.code) :
     i \in {k \in DOMAIN r.log : ReadsAccount(r.log[k].step) /\ HasCode(r.log[k].value)}}
Touched(c) == PlacesIn(reply[c].slice) \cup ReadPlaces(run[c]) \cup CodePlaces(run[c])
Fits(c) == \A t \in Tiers : Cardinality(TierOf(Touched(c), t)) <= client.capacity
Alone(c) == \A d \in Callers \ {c} : verdict[d] = "none" /\ pc[d] = "idle"

OwnSliceStays ==
  \A c \in Callers : (pc[c] = "run" /\ Alone(c) /\ Fits(c)) =>
    \A i \in DOMAIN reply[c].slice :
      LET e == reply[c].slice[i] IN Cached(e.at) /\ CachedValue(e.at) = e.value

\* A code is cached under its own hash, unless an account changes its code while the
\* client asks for it: hash and code come in two requests (lib.rs:224-278).
CodeStays == \A v, w \in DOMAIN history : \A a \in Addr :
  (HasCode(history[v].acct[a]) /\ HasCode(history[w].acct[a])) =>
    history[v].acct[a].code = history[w].acct[a].code

CodeUnderItsHash ==
  CodeStays => \A i \in DOMAIN cache["code"] : cache["code"][i].value = cache["code"][i].at.what

\* A cached account or slot is one that the server had, at that place, now or earlier.
CacheIsGenuine ==
  /\ \A i \in DOMAIN cache["account"] : \E w \in 1..world :
       cache["account"][i].value = GetAccount(history[w], cache["account"][i].at.of)
  /\ \A i \in DOMAIN cache["slot"] : \E w \in 1..world :
       LET e == cache["slot"][i]
       IN e.value = ReadSlot(GetStorage(history[w], e.at.of, e.at.what))

\* A call that was answered ends.
CallsEnd == \A c \in Callers : pc[c] # "idle" ~> pc[c] = "idle"
=============================================================================
