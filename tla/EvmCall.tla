------------------------------ MODULE EvmCall ------------------------------
(***************************************************************************)
(* A read-only call as the EVM runs it, whatever it reads from.  Server    *)
(* and client both run revm on it, the one over the database, the other    *)
(* over its caches (crates/api, crates/client).                            *)
(*                                                                         *)
(* The EVM is external.  A bytecode is the sequence of the reads it makes; *)
(* the output of a call is what they returned.  A call ends when nothing   *)
(* is left to do or the gas is used up.  Writes go to revm's journal only  *)
(* and are left out; so are the call's value and the fee recipient.        *)
(***************************************************************************)
EXTENDS StateDb, Sequences

CONSTANTS
  Body,  \* the reads that each bytecode makes
  Gas    \* how many steps a call may take (gas_limit)

\* A step: the operation, the contract it runs for, the account and the slot or
\* bytecode that it is about.
AccountOps == {"caller", "balance", "call", "delegatecall"}
BlockOps == {"number", "rules"}
Steps == [op: AccountOps \cup BlockOps, self: Addr, of: Addr, what: {None}]
           \cup [op: {"run"}, self: Addr, of: Addr, what: Code]
           \cup [op: {"sload"}, self: Addr, of: Addr, what: Slot]

\* The caller is read before any bytecode runs, and only calls start one.
ASSUME BodyType == Body \in [Code -> Seq({s \in Steps : s.op \notin {"caller", "run"}})]
ASSUME GasType == Gas \in Nat \ {0}

Calls == [from: Addr, to: Addr]

\* A run: the steps to do, and those done with what each has read.
Begin(call) ==
  [todo |-> <<[op |-> "caller", self |-> call.to, of |-> call.from, what |-> None],
              [op |-> "call", self |-> call.to, of |-> call.to, what |-> None]>>,
   log |-> <<>>]

HasCode(info) == info # None /\ info.code # NoCode

\* A called bytecode runs for the account called, a delegated one for the caller.
InFrame(body, self) ==
  [i \in DOMAIN body |->
     [body[i] EXCEPT !.self = self, !.of = IF body[i].op = "sload" THEN self ELSE @]]

Unfolds(step, value) ==
  CASE step.op \in {"call", "delegatecall"} /\ HasCode(value) ->
         <<[op |-> "run", self |-> IF step.op = "call" THEN step.of ELSE step.self,
            of |-> step.of, what |-> value.code]>>
    [] step.op = "run" /\ value # NoCode -> InFrame(Body[value], step.self)
    [] OTHER -> <<>>

Advance(run, value) ==
  [todo |-> Unfolds(Head(run.todo), value) \o Tail(run.todo),
   log |-> Append(run.log, [step |-> Head(run.todo), value |-> value])]

\* The call's nonce is 0: revm refuses a caller whose own nonce is another.
Refused(run) ==
  Len(run.log) = 1 /\ run.log[1].value # None /\ run.log[1].value.nonce # 0

Over(run) == run.todo = <<>> \/ Len(run.log) = Gas \/ Refused(run)

\* revm's journal remembers each row for the rest of the call.
SameRow(s, t) == s.of = t.of /\ s.what = t.what
ReadsAccount(step) == step.op \in AccountOps
Loaded(run, step) ==
  {i \in DOMAIN run.log :
     /\ SameRow(run.log[i].step, step)
     /\ IF ReadsAccount(step) THEN ReadsAccount(run.log[i].step)
        ELSE run.log[i].step.op = step.op}
Journaled(run) == Loaded(run, Head(run.todo)) # {}
FromJournal(run) == run.log[CHOOSE i \in Loaded(run, Head(run.todo)) : TRUE].value

\* What the caller sees.
Balance(info) == IF info = None THEN 0 ELSE info.balance
Visibly(entry) == IF entry.step.op = "balance" THEN Balance(entry.value) ELSE entry.value
IsOutput(entry) == entry.step.op \in {"balance", "sload", "number", "rules"}

\* A call that runs out of gas returns nothing.
Outcome(run) ==
  LET seen == SelectSeq(run.log, IsOutput)
  IN [success |-> run.todo = <<>>,
      output |-> IF run.todo = <<>> THEN [i \in DOMAIN seen |-> Visibly(seen[i])] ELSE <<>>]

\* One step, when every read goes through read.
StepOf(run, read) ==
  IF Over(run) THEN run
  ELSE Advance(run, IF Journaled(run) THEN FromJournal(run) ELSE read[Head(run.todo)])

\* The whole run; the singleton makes TLC compute each step once.
RunOf(call, read) ==
  LET after[n \in 0..Gas] ==
        IF n = 0 THEN Begin(call)
        ELSE CHOOSE r \in {StepOf(run, read) : run \in {after[n - 1]}} : TRUE
  IN after[Gas]
=============================================================================
