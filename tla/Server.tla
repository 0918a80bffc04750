------------------------------- MODULE Server -------------------------------
(***************************************************************************)
(* The HTTP server beside the other commands (crates/api): requests for a  *)
(* single row, batches, and web sockets whose texts are answered one by    *)
(* one, each by a task of its own that reads the rows of the database its  *)
(* process has opened.  The prefetch endpoint is in StateApi.              *)
(*                                                                         *)
(* A query is the row it asks for, "head", or "bad" when an address or a   *)
(* slot in it does not parse.  The code of an account is found in two      *)
(* reads: the account's row, then the row of its code hash.                *)
(***************************************************************************)
EXTENDS Commands

CONSTANTS
  CodeRow,   \* CodeRow[v]: the row of the code of an account with value v, or None
  Conns,     \* connections
  Singles,   \* the queries that a single request may ask
  Batches,   \* the lists of queries that a batch may ask
  Texts,     \* the texts that a socket may be sent, "garbled" for no request at all
  MaxTexts   \* a bound on the texts sent over a socket

ASSUME CodeRowType == CodeRow \in [Values -> Rows \cup {None}]
ASSUME RowsRead == {"account", "slot"} \subseteq Rows

Queries == {"account", "slot", "code", "head", "bad", "garbled"}
Forms == {"none", "single", "batch", "socket"}

ASSUME QueriesType ==
  Singles \subseteq Queries /\ Batches \subseteq Seq(Queries) /\ Texts \subseteq Queries

Questions == [id: Nat, query: Queries]
Answers == [id: Nat \cup {None}, status: {"ok", "not found", "bad request", "error"},
            value: Values \cup {None}]

\* account: what was read first for the code query in hand.
Connections == [server: Procs \cup {None}, form: Forms,
                asked: Seq(Questions), done: Seq(Answers), account: Values \cup {None}]
NoConnection == [server |-> None, form |-> "none", asked |-> <<>>, done |-> <<>>, account |-> None]

VARIABLES
  conns,
  opened   \* history: the database as each process found it

serverVars == <<vars, conns, opened>>

ServerInit == Init /\ conns = [c \in Conns |-> NoConnection] /\ opened = [p \in Procs |-> None]

View(c) == db[jobs[conns[c].server].dir]
Numbered(queries) == [i \in DOMAIN queries |-> [id |-> i, query |-> queries[i]]]

----------------------------------------------------------------------------
\* A request of a client reaches a server; its body must parse as a whole.
Request(c, p, form, queries) ==
  /\ conns[c] = NoConnection /\ Runs(p, "serve")
  /\ conns' = [conns EXCEPT ![c] =
       [NoConnection EXCEPT !.server = p, !.form = form, !.asked = Numbered(queries)]]
  /\ UNCHANGED <<vars, opened>>

\* A client sends a text over its socket.
Text(c, query) ==
  /\ conns[c].form = "socket" /\ Len(conns[c].asked) < MaxTexts
  /\ conns' = [conns EXCEPT ![c].asked = Append(@, [id |-> Len(@) + 1, query |-> query])]
  /\ UNCHANGED <<vars, opened>>

Busy(c) == Len(conns[c].done) < Len(conns[c].asked)
InHand(c) == conns[c].asked[Len(conns[c].done) + 1]

Failure(status) == [status |-> status, value |-> None]
Found(value) == IF value = None THEN Failure("not found") ELSE [status |-> "ok", value |-> value]

\* Mutant: the account that was read for a query stays for the next one.
Reply_m(c, id, outcome) ==
  conns' = [conns EXCEPT ![c].done = Append(@, [id |-> id, status |-> outcome.status,
                                                value |-> outcome.value])]

Reply(c, id, outcome) ==
  conns' = [conns EXCEPT ![c].account = None,
                         ![c].done = Append(@, [id |-> id, status |-> outcome.status,
                                                value |-> outcome.value])]
Answer(c, outcome) == Reply(c, InHand(c).id, outcome)

\* Mutant: one address that does not parse fails the whole batch.
Reject_m(c) ==
  /\ Busy(c) /\ InHand(c).query = "bad"
  /\ conns' = [conns EXCEPT ![c].done =
       [i \in DOMAIN conns[c].asked |-> [id |-> conns[c].asked[i].id, status |-> "bad request", value |-> None]]]
  /\ UNCHANGED <<vars, opened>>

\* An address that does not parse is that query's own failure.
Reject(c) ==
  /\ Busy(c) /\ InHand(c).query = "bad"
  /\ Answer(c, Failure("bad request"))
  /\ UNCHANGED <<vars, opened>>

\* A text that is no request is answered too, without an id.
RejectText(c) ==
  /\ Busy(c) /\ InHand(c).query = "garbled"
  /\ Reply(c, None, Failure("bad request"))
  /\ UNCHANGED <<vars, opened>>

ReadHead(c) ==
  /\ Busy(c) /\ InHand(c).query = "head"
  /\ Answer(c, Found(View(c).head))
  /\ UNCHANGED <<vars, opened>>

ReadRow(c) ==
  /\ Busy(c) /\ InHand(c).query \in {"account", "slot"}
  /\ Answer(c, Found(View(c).rows[InHand(c).query]))
  /\ UNCHANGED <<vars, opened>>

\* The first read of a code query ...
ReadAccount(c) ==
  LET account == View(c).rows["account"]
  IN  /\ Busy(c) /\ InHand(c).query = "code" /\ conns[c].account = None
      /\ IF account = None THEN Answer(c, Failure("not found"))
         ELSE conns' = [conns EXCEPT ![c].account = account]
      /\ UNCHANGED <<vars, opened>>

\* ... and the second, which finds nothing for the hash of no code.
ReadCode(c) ==
  LET row == CodeRow[conns[c].account]
  IN  /\ Busy(c) /\ InHand(c).query = "code" /\ conns[c].account # None
      /\ Answer(c, IF row = None THEN Failure("not found") ELSE Found(View(c).rows[row]))
      /\ UNCHANGED <<vars, opened>>

\* A read of the database fails; that query is answered with the error.
ReadFails(c) ==
  /\ Busy(c) /\ InHand(c).query \notin {"bad", "garbled"}
  /\ Answer(c, Failure("error"))
  /\ UNCHANGED <<vars, opened>>

\* All the results of a request go back together.
Respond(c) ==
  /\ conns[c].form \in {"single", "batch"} /\ ~ Busy(c)
  /\ conns' = [conns EXCEPT ![c] = NoConnection]
  /\ UNCHANGED <<vars, opened>>

\* The client closes its socket or goes away, or an answer cannot be sent.
Disconnect(c) ==
  /\ conns[c] # NoConnection
  /\ conns' = [conns EXCEPT ![c] = NoConnection]
  /\ UNCHANGED <<vars, opened>>

\* A command that starts opens the database as it is; one that ends takes its
\* connections with it.
Command ==
  /\ Next
  /\ opened' = [p \in Procs |->
       IF jobs'[p] = NoJob THEN None
       ELSE IF jobs[p] = NoJob THEN db[jobs'[p].dir] ELSE opened[p]]
  /\ conns' = [c \in Conns |->
       IF conns[c] # NoConnection /\ jobs'[conns[c].server] = NoJob THEN NoConnection ELSE conns[c]]

Handle(c) ==
  \/ Reject(c) \/ RejectText(c) \/ ReadHead(c) \/ ReadRow(c) \/ ReadAccount(c) \/ ReadCode(c)
  \/ ReadFails(c) \/ Respond(c)

Ask(c) ==
  \/ \E p \in Procs : \/ \E q \in Singles : Request(c, p, "single", <<q>>)
                      \/ \E list \in Batches : Request(c, p, "batch", list)
                      \/ Request(c, p, "socket", <<>>)
  \/ \E q \in Texts : Text(c, q)

ServerNext == Command \/ \E c \in Conns : Ask(c) \/ Handle(c) \/ Disconnect(c)

ServerSpec == ServerInit /\ [][ServerNext]_serverVars
----------------------------------------------------------------------------
\* Every variable has its type; only a code query in hand holds an account.
ServerTypeOK ==
  /\ TypeOK
  /\ conns \in [Conns -> Connections]
  /\ \A c \in Conns : conns[c] # NoConnection =>
       conns[c].server \in Procs /\ Runs(conns[c].server, "serve")
  /\ \A c \in Conns : conns[c].account # None => Busy(c) /\ InHand(c).query = "code"

\* What a database says to a query.
Says(data, query) ==
  CASE query \in {"bad", "garbled"} -> Failure("bad request")
    [] query = "head" -> Found(data.head)
    [] query \in {"account", "slot"} -> Found(data.rows[query])
    [] query = "code" ->
         IF data.rows["account"] = None \/ CodeRow[data.rows["account"]] = None
         THEN Failure("not found")
         ELSE Found(data.rows[CodeRow[data.rows["account"]]])

\* All that a server ever answers is of one state, the one it found when it opened
\* the database, over all its connections and in every batch, whatever commands run
\* beside it; the i-th answer is to the i-th query, under its id, and a query that
\* fails fails alone (api lib.rs:165-226, 435-577).
AnswersOfOneState ==
  \A c \in Conns : \A i \in DOMAIN conns[c].done :
    LET asked == conns[c].asked[i]
        answer == conns[c].done[i]
    IN  /\ [status |-> answer.status, value |-> answer.value]
             \in {Says(opened[conns[c].server], asked.query), Failure("error")}
        /\ answer.id = IF asked.query = "garbled" THEN None ELSE asked.id

----------------------------------------------------------------------------
\* The inductive invariant.

\* No command changes a database while a server has it open.
OpenedStays == \A p \in Procs : Runs(p, "serve") => opened[p] = db[jobs[p].dir]

\* Answers come in the order of the queries; the account that was read for a query is
\* that of the database that is open.
InTurn ==
  \A c \in Conns :
    /\ Len(conns[c].done) <= Len(conns[c].asked)
    /\ conns[c].account # None => conns[c].account = opened[conns[c].server].rows["account"]

ServerInv == ServerTypeOK /\ OpenedStays /\ InTurn /\ AnswersOfOneState
=============================================================================
