--------------------------- MODULE CommandProtocol ---------------------------
(***************************************************************************)
(* One authenticated connection, from the program at one end to the        *)
(* queue's worker at the other: start_command_loop of src/code/Main_Cli.cpp*)
(* (or a benchmark's loop), processClientCommand and applyTransaction-     *)
(* Request of ClientSession.cpp, send and receive of ServerConnection.cpp. *)
(*                                                                         *)
(* The protocol has no identifiers: a program takes the lines it reads as  *)
(* the answer to its last command.  Lines carry here the number of the     *)
(* command they answer, 0 for an order of the bot, so that the model can   *)
(* tell when the program is wrong.  Two threads of the server write to the *)
(* connection, the session's and the worker's, and neither takes a lock.   *)
(* Nothing closes the connection at the server's end before the server is  *)
(* stopped: a session that ends leaves the program connected.              *)
(***************************************************************************)
EXTENDS Integers, Sequences, FiniteSets

CONSTANTS
  MaxCommands,   \* bound: commands typed or sent by the program
  MaxBotOrders,  \* bound: orders of the bot
  MaxHistory     \* bound: lines of history shown (10 in processClientCommand)

ASSUME ProtocolAssumption ==
  /\ MaxCommands \in Nat \ {0}
  /\ MaxBotOrders \in Nat
  /\ MaxHistory \in Nat

Line == [kind : {"AUTH", "OK", "ERROR", "INFO", "TRANSACTION_RESULT"}, of : 0..MaxCommands]
L(k, n) == [kind |-> k, of |-> n]

(* Commands.  SHOW WALLET, GET_PRICE and what is not understood are asks.  *)
(* The server takes buy for BUY, but the terminal does not; it takes quit  *)
(* and QUIT x for QUIT, which the terminal only knows by itself.           *)
Kinds == {"ask", "history", "BUY", "buy", "start", "stop", "quit"}

VARIABLES
  program,       \* terminal, bench (bench_transaction) or tps (Benchmark)
  cli,           \* ready, reading, closed
  kind, issued,  \* the last command, and its number
  got,           \* the last line read for it
  successes, failures,  \* counted by the benchmarks
  lost,          \* a benchmark's end of the connection is of no more use
  toServer, toClient,   \* what is under way: commands, lines
  out,           \* what the session's thread has still to send, as records
  session,       \* at the top of its loop, in SSL_read, or ended
  quit,          \* the number of the QUIT that cleared running, 0 if none has
  bot, botOrders,
  queue,         \* orders waiting, by command number
  worker,        \* idle or settled (its result is still to be sent)
  order,         \* the order it has settled
  settled,       \* auxiliary: number of orders settled
  writing,       \* the threads inside SSL_write
  marked,        \* m_markedForClose of the server's end
  spoilt,        \* the next bytes the program reads fail the checks of TLS
  raced,         \* auxiliary: two threads have been inside SSL_write at once
  surprised      \* auxiliary: lines the terminal does not wait for were due

cliVars  == <<program, cli, kind, issued, got, successes, failures, lost>>
sessVars == <<out, session, quit, bot, botOrders>>
workVars == <<worker, order, settled>>
connVars == <<writing, marked, spoilt, raced>>
vars == <<cliVars, toServer, toClient, sessVars, queue, workVars, connVars, surprised>>

TypeOK ==
  /\ program \in {"terminal", "bench", "tps"}
  /\ cli \in {"ready", "reading", "closed"}
  /\ kind \in Kinds /\ issued \in 0..MaxCommands
  /\ got \in Seq(Line)
  /\ successes \in Nat /\ failures \in Nat /\ lost \in BOOLEAN
  /\ toServer \in Seq(Kinds \X (1..MaxCommands))
  /\ toClient \in Seq(Line)
  /\ out \in Seq(Seq(Line))
  /\ session \in {"looping", "receiving", "ended"} /\ quit \in 0..MaxCommands
  /\ bot \in BOOLEAN /\ botOrders \in 0..MaxBotOrders
  /\ queue \in Seq(0..MaxCommands)
  /\ worker \in {"idle", "settled"} /\ order \in 0..MaxCommands
  /\ settled + Len(queue) <= issued + botOrders
  /\ writing \subseteq {"session", "worker"}
  /\ marked \in BOOLEAN /\ spoilt \in BOOLEAN /\ raced \in BOOLEAN /\ surprised \in BOOLEAN

(* test_transactions starts its loop without reading the answer to its     *)
(* credentials; the two others have read it.                               *)
Init ==
  /\ program \in {"terminal", "bench", "tps"}
  /\ cli = "ready" /\ kind = "ask" /\ issued = 0 /\ got = << >>
  /\ successes = 0 /\ failures = 0 /\ lost = FALSE
  /\ toServer = << >>
  /\ toClient = IF program = "tps" THEN <<L("AUTH", 0)>> ELSE << >>
  /\ out = << >> /\ session = "looping" /\ quit = 0
  /\ bot = FALSE /\ botOrders = 0
  /\ queue = << >>
  /\ worker = "idle" /\ order = 0 /\ settled = 0
  /\ writing = {} /\ marked = FALSE /\ spoilt = FALSE /\ raced = FALSE
  /\ surprised = FALSE

-----------------------------------------------------------------------------
(* The program.                                                            *)

Issue(k) ==
  /\ cli = "ready" /\ ~lost /\ issued < MaxCommands
  /\ program # "terminal" => k = "BUY"
  /\ kind' = k /\ issued' = issued + 1 /\ got' = << >>
  /\ toServer' = Append(toServer, <<k, issued'>>)
  /\ cli' = "reading"
  /\ UNCHANGED <<program, successes, failures, lost, toClient, sessVars, queue, workVars,
                 connVars, surprised>>

(* QUIT at the terminal: it is sent, and its answer is not read.           *)
Quit ==
  /\ cli = "ready" /\ program = "terminal" /\ issued < MaxCommands
  /\ kind' = "quit" /\ issued' = issued + 1 /\ got' = << >>
  /\ toServer' = Append(toServer, <<"quit", issued'>>)
  /\ cli' = "closed"
  /\ UNCHANGED <<program, successes, failures, lost, toClient, sessVars, queue, workVars,
                 connVars, surprised>>

(* A benchmark goes on when a read has failed: it counts a failure for     *)
(* every transaction left.                                                 *)
IssueInVain ==
  /\ cli = "ready" /\ lost /\ issued < MaxCommands
  /\ issued' = issued + 1 /\ failures' = failures + 1
  /\ UNCHANGED <<program, cli, kind, got, successes, lost, toServer, toClient, sessVars, queue,
                 workVars, connVars, surprised>>

(* The end of the input, or of the transactions to send.                   *)
Close ==
  /\ cli = "ready"
  /\ cli' = "closed"
  /\ UNCHANGED <<program, kind, issued, got, successes, failures, lost, toServer, toClient,
                 sessVars, queue, workVars, connVars, surprised>>

(* Mutant: the acknowledgement is taken for the end of a trade.            *)
FinalAtOk(line) == TRUE

(* The line ends the terminal's wait: for a command in capitals that       *)
(* begins with BUY or SELL, any but the acknowledgement.                   *)
Final(line) == kind # "BUY" \/ line.kind # "OK"

Read ==
  /\ cli = "reading" /\ toClient # << >> /\ program = "terminal"
  /\ got' = <<Head(toClient)>>
  /\ toClient' = Tail(toClient)
  /\ cli' = IF Final(Head(toClient)) THEN "ready" ELSE "reading"
  /\ UNCHANGED <<program, kind, issued, successes, failures, lost, toServer, sessVars, queue,
                 workVars, connVars, surprised>>

(* Mutant: whatever is read is a success, as in Benchmark.cpp.             *)
CountsAll(line) == TRUE

(* bench_transaction: the one line read says that the transaction is done. *)
Counts(line) == line.kind = "TRANSACTION_RESULT"

ReadAndCount ==
  /\ cli = "reading" /\ toClient # << >> /\ program = "bench"
  /\ IF Counts(Head(toClient))
     THEN successes' = successes + 1 /\ UNCHANGED failures
     ELSE failures' = failures + 1 /\ UNCHANGED successes
  /\ got' = <<Head(toClient)>> /\ toClient' = Tail(toClient)
  /\ cli' = "ready"
  /\ UNCHANGED <<program, kind, issued, lost, toServer, sessVars, queue, workVars, connVars,
                 surprised>>

(* test_transactions: any record counts.                                   *)
ReadRecord ==
  /\ cli = "reading" /\ toClient # << >> /\ program = "tps"
  /\ successes' = successes + 1
  /\ got' = <<Head(toClient)>> /\ toClient' = Tail(toClient)
  /\ cli' = "ready"
  /\ UNCHANGED <<program, kind, issued, failures, lost, toServer, sessVars, queue, workVars,
                 connVars, surprised>>

(* A read fails on bytes that are not what TLS expects.  The terminal      *)
(* leaves; a benchmark counts a failure and its loop goes on.              *)
ReadFails ==
  /\ cli = "reading" /\ toClient = << >> /\ spoilt
  /\ IF program = "terminal"
     THEN cli' = "closed" /\ UNCHANGED <<failures, lost>>
     ELSE cli' = "ready" /\ failures' = failures + 1 /\ lost' = TRUE
  /\ UNCHANGED <<program, kind, issued, got, successes, toServer, toClient, sessVars, queue,
                 workVars, connVars, surprised>>

-----------------------------------------------------------------------------
(* The session's thread: it reads a command when it has sent the answers   *)
(* to the one before.                                                      *)

(* The top of the loop of run, and the test at the head of receive: it     *)
(* ends, or blocks in SSL_read, where a later markForClose is not seen.    *)
Loop ==
  /\ session = "looping" /\ out = << >>
  /\ session' = IF quit = 0 /\ ~marked THEN "receiving" ELSE "ended"
  /\ UNCHANGED <<cliVars, toServer, toClient, out, quit, bot, botOrders, queue, workVars,
                 connVars, surprised>>

Answer(records) == out' = records

Handles(k) ==
  /\ session = "receiving" /\ toServer # << >> /\ Head(toServer)[1] = k
  /\ session' = "looping" /\ toServer' = Tail(toServer)
  /\ UNCHANGED <<cliVars, toClient, botOrders, workVars, connVars>>

Number == Head(toServer)[2]

Ask ==
  /\ Handles("ask")
  /\ \E k \in {"INFO", "ERROR"} : Answer(<< <<L(k, Number)>> >>)
  /\ UNCHANGED <<quit, bot, queue, surprised>>

(* SHOW TRANSACTIONS: a heading and a line for each, in one record.        *)
ShowTransactions ==
  /\ Handles("history")
  /\ \E h \in 0..MaxHistory :
       /\ Answer(<< [i \in 1..(1 + h) |-> L("INFO", Number)] >>)
       /\ surprised' = (surprised \/ h > 0)
  /\ UNCHANGED <<quit, bot, queue>>

(* BUY and SELL, in any case: refused while there is a bot, or if the      *)
(* command is not well formed.                                             *)
RefuseTrade ==
  /\ Handles("BUY") \/ Handles("buy")
  /\ Answer(<< <<L("ERROR", Number)>> >>)
  /\ UNCHANGED <<quit, bot, queue, surprised>>

(* Mutant: the failure is not told, only the acknowledgement is sent.      *)
FailTradeSilently ==
  /\ Handles("BUY") \/ Handles("buy")
  /\ ~bot
  /\ Answer(<< <<L("OK", Number)>> >>)
  /\ surprised' = TRUE
  /\ UNCHANGED <<quit, bot, queue>>

(* handleClientTradeRequest fails (no balance, no price): it sends an      *)
(* error, and processClientCommand, which ignores its result, sends the    *)
(* acknowledgement all the same.                                           *)
FailTrade ==
  /\ Handles("BUY") \/ Handles("buy")
  /\ ~bot
  /\ Answer(<< <<L("ERROR", Number)>>, <<L("OK", Number)>> >>)
  /\ surprised' = TRUE
  /\ UNCHANGED <<quit, bot, queue>>

(* The order is in the queue before the acknowledgement is sent.           *)
SubmitTrade ==
  /\ Handles("BUY") \/ Handles("buy")
  /\ ~bot
  /\ queue' = Append(queue, Number)
  /\ Answer(<< <<L("OK", Number)>> >>)
  /\ surprised' = (surprised \/ Head(toServer)[1] = "buy")
  /\ UNCHANGED <<quit, bot>>

(* startBot and stopBot send their own answer.                             *)
StartBot ==
  /\ Handles("start")
  /\ \E ok \in BOOLEAN :
       /\ ok => ~bot
       /\ bot' = (bot \/ ok)
       /\ Answer(<< <<L(IF ok THEN "INFO" ELSE "ERROR", Number)>> >>)
  /\ UNCHANGED <<quit, queue, surprised>>

StopBot ==
  /\ Handles("stop")
  /\ bot' = FALSE
  /\ Answer(<< <<L(IF bot THEN "INFO" ELSE "ERROR", Number)>> >>)
  /\ UNCHANGED <<quit, queue, surprised>>

(* QUIT, in any case and with anything after it: the answer is sent, the   *)
(* loop is left, and the connection stays open.                            *)
QuitCommand ==
  /\ Handles("quit")
  /\ quit' = Number
  /\ Answer(<< <<L("OK", Number)>> >>)
  /\ UNCHANGED <<bot, queue, surprised>>

(* The end of a connection that was marked: send refuses.                  *)
DropAnswer ==
  /\ out # << >> /\ "session" \notin writing /\ marked
  /\ out' = Tail(out)
  /\ UNCHANGED <<cliVars, toServer, toClient, session, quit, bot, botOrders, queue, workVars,
                 connVars, surprised>>

(* SSL_read fails: the program has closed its end, or its checks have      *)
(* failed, or the server's own connection is in no state to read.          *)
EndSession ==
  /\ session = "receiving" /\ (cli = "closed" \/ lost \/ raced)
  /\ session' = "ended" /\ marked' = TRUE
  /\ UNCHANGED <<cliVars, toServer, toClient, out, quit, bot, botOrders, queue, workVars,
                 writing, spoilt, raced, surprised>>

(* An order of the bot, from its own thread or from the session's.         *)
BotOrder ==
  /\ bot /\ botOrders < MaxBotOrders
  /\ botOrders' = botOrders + 1
  /\ queue' = Append(queue, 0)
  /\ UNCHANGED <<cliVars, toServer, toClient, out, session, quit, bot, workVars, connVars,
                 surprised>>

-----------------------------------------------------------------------------
(* The queue's worker: it settles an order, whichever way, and tells the   *)
(* session (applyTransactionRequest).                                      *)

(* Mutant: the order settled stays in the queue.                           *)
SettleAgain ==
  /\ worker = "idle" /\ queue # << >>
  /\ worker' = "settled" /\ order' = Head(queue) /\ settled' = settled + 1
  /\ UNCHANGED <<cliVars, toServer, toClient, sessVars, queue, connVars, surprised>>

Settle ==
  /\ worker = "idle" /\ queue # << >>
  /\ worker' = "settled" /\ order' = Head(queue) /\ settled' = settled + 1
  /\ queue' = Tail(queue)
  /\ UNCHANGED <<cliVars, toServer, toClient, sessVars, connVars, surprised>>

(* The session is no longer connected: the result is dropped.  That its    *)
(* thread has ended does not matter.                                       *)
DropResult ==
  /\ worker = "settled" /\ "worker" \notin writing /\ marked
  /\ worker' = "idle"
  /\ UNCHANGED <<cliVars, toServer, toClient, sessVars, queue, order, settled, connVars,
                 surprised>>

-----------------------------------------------------------------------------
(* ServerConnection::send.                                                 *)

ToSend(w) == IF w = "session" THEN out # << >> ELSE worker = "settled"

(* The loop around SSL_write is entered: send looks at the mark, and at    *)
(* nothing that would keep the other thread out.                           *)
BeginSend(w) ==
  /\ ToSend(w) /\ w \notin writing /\ ~marked
  /\ writing' = writing \cup {w}
  /\ raced' = (raced \/ writing # {})
  /\ UNCHANGED <<cliVars, toServer, toClient, sessVars, queue, workVars, marked, spoilt,
                 surprised>>

(* A record arrives; or it does not, because the program is gone or since  *)
(* OpenSSL is not made for two threads at once: what they did to the       *)
(* connection may spoil it, and SSL_write may see it or not.               *)
Gone == cli = "closed" \/ lost

Transmit(record) ==
  \/ /\ ~spoilt
     /\ toClient' = IF Gone THEN toClient ELSE toClient \o record
     /\ UNCHANGED <<marked, spoilt>>
  \/ /\ raced \/ Gone
     /\ marked' \in {marked, TRUE}
     /\ spoilt' \in IF raced THEN {spoilt, TRUE} ELSE {spoilt}
     /\ UNCHANGED toClient

SentBySession ==
  /\ "session" \in writing
  /\ writing' = writing \ {"session"}
  /\ Transmit(Head(out)) /\ out' = Tail(out)
  /\ UNCHANGED <<cliVars, toServer, session, quit, bot, botOrders, queue, workVars, raced,
                 surprised>>

(* The result overtakes the acknowledgement of its order.                  *)
Overtakes == \E i \in DOMAIN out : L("OK", order) \in {out[i][j] : j \in DOMAIN out[i]}

SentByWorker ==
  /\ "worker" \in writing
  /\ writing' = writing \ {"worker"}
  /\ Transmit(<<L("TRANSACTION_RESULT", order)>>) /\ worker' = "idle"
  /\ surprised' = (surprised \/ order = 0 \/ Overtakes)
  /\ UNCHANGED <<cliVars, toServer, sessVars, queue, order, settled, raced>>

-----------------------------------------------------------------------------
Program == Read \/ ReadAndCount \/ ReadRecord \/ ReadFails
Command == Ask \/ ShowTransactions \/ RefuseTrade \/ FailTrade \/ SubmitTrade
           \/ StartBot \/ StopBot \/ QuitCommand
Serve   == Loop \/ Command \/ DropAnswer \/ EndSession

Next ==
  \/ \E k \in Kinds : Issue(k)
  \/ Quit \/ IssueInVain \/ Close
  \/ Program
  \/ Serve
  \/ BotOrder
  \/ Settle \/ DropResult
  \/ \E w \in {"session", "worker"} : BeginSend(w)
  \/ SentBySession \/ SentByWorker

Spec == Init /\ [][Next]_vars

(* The session's thread and the worker go on while they can, and what is   *)
(* under way is read; nobody has to type a command.                        *)
FairSpec ==
  /\ Spec
  /\ WF_vars(Program) /\ WF_vars(Serve)
  /\ WF_vars(Settle) /\ WF_vars(DropResult)
  /\ \A w \in {"session", "worker"} : WF_vars(BeginSend(w))
  /\ WF_vars(SentBySession) /\ WF_vars(SentByWorker)

-----------------------------------------------------------------------------
(* The terminal takes each line for the answer to its last command.  It is *)
(* right unless one of five things has happened on the connection: a       *)
(* history of several lines, a buy or sell in small letters, a trade that  *)
(* handleClientTradeRequest refused (two answers), an order of the bot, or *)
(* a result that overtook its acknowledgement (Main_Cli.cpp, the loop of   *)
(* replies).                                                               *)
InStepUnlessSurprised ==
  (program = "terminal" /\ ~surprised) => \A i \in DOMAIN got : got[i].of = issued

(* A command comes to an end for the program that sent it: there is no     *)
(* command without an answer, an order whose result is awaited is settled, *)
(* and no line that is awaited was consumed before, unless an earlier quit *)
(* has ended the session or two threads have met in SSL_write.  Then the   *)
(* program may wait for ever, for the server does not close the connection *)
(* (Main_Cli.cpp, bench_transaction.cpp and Benchmark.cpp block in a read).*)
CommandReturns ==
  (cli = "reading") ~> (cli # "reading" \/ quit \in 1..(issued - 1) \/ raced)

(* What bench_transaction counts as done was settled; it may count less,   *)
(* and a transaction it has not counted at all is the one it waits for.    *)
BenchCountsSettled ==
  program = "bench" =>
    /\ successes <= settled
    /\ successes + failures + (IF cli = "reading" THEN 1 ELSE 0) = issued
-----------------------------------------------------------------------------
(* What comments of the code say and the code does not do.                 *)

(* Access to the connection is serialised by the session's thread (send of *)
(* ServerConnection.cpp): no two threads are inside SSL_write at once.     *)
OneWriter == Cardinality(writing) <= 1
=============================================================================
