------------------------------ MODULE StateApi ------------------------------
(***************************************************************************)
(* The read endpoints of the HTTP server (crates/api).  The server holds   *)
(* the database exclusively and writes nothing: its rows change only while *)
(* it is down, between two requests.  An absent row is answered with 404.  *)
(***************************************************************************)
EXTENDS EvmCall, SequencesExt, ChainSpec

CONSTANT Schedule  \* the chain's forks

Tiers == {"account", "slot", "code"}

\* Where a value belongs in a client's caches.
AccountPlace(a) == [tier |-> "account", of |-> a, what |-> None]
SlotPlace(a, s) == [tier |-> "slot", of |-> a, what |-> s]
CodePlace(c) == [tier |-> "code", of |-> None, what |-> c]
Places == {AccountPlace(a) : a \in Addr} \cup {CodePlace(c) : c \in Code}
            \cup {SlotPlace(a, s) : a \in Addr, s \in Slot}

GetAccount(db, a) == db.acct[a]
GetStorage(db, a, s) == db.slot[a][s]

\* The code of an account is looked up by the hash that the account has now.
GetCode(db, a) ==
  IF HasCode(db.acct[a]) /\ db.acct[a].code \in db.code THEN db.acct[a].code ELSE None

\* What the server's EVM reads; the timestamp it is given is 0.
ServerReads(db, step) ==
  CASE ReadsAccount(step) -> GetAccount(db, step.of)
    [] step.op = "run" -> IF step.what \in db.code THEN step.what ELSE NoCode
    [] step.op = "sload" -> ReadSlot(GetStorage(db, step.of, step.what))
    [] step.op = "number" -> db.head
    [] step.op = "rules" -> SpecAt(Schedule, db.head, 0)

\* The inspector sees opcodes: those that read a balance or a slot, not the calls.
Recorded(run) == {run.log[i].step : i \in DOMAIN run.log}
SlotsRead(run) == {s \in Recorded(run) : s.op = "sload"}
Accesses(call, run) ==
  {call.from, call.to} \cup {s.of : s \in {t \in Recorded(run) : t.op \in {"balance", "sload"}}}

Entry(place, value) == [at |-> place, value |-> value]

\* The state slice, in the order in which a client stores it.
Slice(db, call, run) ==
  LET known == {a \in Accesses(call, run) : GetAccount(db, a) # None}
  IN SetToSeq({Entry(AccountPlace(a), GetAccount(db, a)) : a \in known})
       \o SetToSeq({Entry(SlotPlace(s.of, s.what), ReadSlot(GetStorage(db, s.of, s.what))) :
                      s \in SlotsRead(run)})
       \o SetToSeq({Entry(CodePlace(GetCode(db, a)), GetCode(db, a)) :
                      a \in {b \in known : GetCode(db, b) # None}})

\* The prefetch endpoint; a refused call is an error.
Prefetch(db, call) ==
  LET run == RunOf(call, [step \in Steps |-> ServerReads(db, step)])
  IN IF Refused(run) THEN None
     ELSE [outcome |-> Outcome(run), slice |-> Slice(db, call, run)]
=============================================================================
