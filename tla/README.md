# Verification of PPN_CTS

PPN_CTS is a crypto-trading simulator written in C++17. Clients connect to a
server over TLS, own a wallet of dollars and SRD-BTC, place orders by hand or let
a Bollinger-band bot place them, and a single worker thread of the server executes
all orders against a simulated price. `FineTrading/` is a separate back-test of
the same strategies. This directory holds TLA+ models of the program, their TLC
configurations, and theorems checked by TLAPS.

Paths below are relative to the repository; `X.cpp` without a directory is
`src/code/X.cpp`, `X.h` is `src/headers/X.h`.

## 1. Inventory

### Components, state, operations

| Component | State it keeps | Operations |
|---|---|---|
| `TransactionQueue` | `queue` under `mtx`, condition variable `cv`, atomic `running`, one worker thread, `sessionMap` (weak pointers) under its own mutex | `start`, `stop`, `addRequest`, `registerSession`, `unregisterSession`; worker: `process`, `processRequest` |
| `Wallet` | two balances, transaction history, a file per client; `walletMutex`, locked by the queue's worker only | `getBalance`, `updateBalance`, `addTransaction`, `saveToFile`, `loadFromFile`; constructor loads, destructor saves |
| `Transaction` | static counter and its file; the global CSV log | identifiers, `logTransactionToCSV`, `loadCounter`, `saveCounter` |
| `ClientSession` | `running`, its thread, its `bot`, its connection, its wallet | commands (`SHOW`, `GET_PRICE`, `BUY`, `SELL`, `START BOT`, `STOP BOT`, `QUIT`), the 16 s poll of the bot, `submitBotOrder`, `applyTransactionRequest`, `start`, `stop` |
| `Bot` | position state and entry price under `botMutex`, price history, its thread | `processLatestPrice`, `notifyTransactionCompleted`, `start`, `stop` |
| `Server` | thread pool, `users`, `activeSessions`, listening socket | `StartServer`, `StopServer`, `AcceptLoop`, `HandleClient`, `processAuthRequest`, `LoadUsers`, `SaveUsers`, `CreateWalletFile` |
| `Global` | last price, circular buffer of prices, price thread | price loop, `getPrice`, `getPreviousPrice`, start and stop of the thread |
| `ServerConnection`, `ClientAuthenticator`, `ClientInitiator` | a TLS connection and its receive buffer | `send`, `receive`, `receiveLine`, `closeConnection`, the AUTH exchange |
| `Main_Cli` | the position in the reply stream | the command loop |
| `FineTrading` | back-test portfolio, bot, price series | `processNewPrice`, `buyBTC`, `sellBTC`, two simulations |

### How they interact

* Session threads and bot threads call `TransactionQueue::addRequest`. They compute
  the quantity from a balance and a price they read without a lock.
* The worker looks the session up, locks the wallet's mutex, checks the price it has
  read and the funds, updates the two balances one after the other, saves the wallet
  file, appends to the history, unlocks, logs to the CSV, and calls
  `applyTransactionRequest`, which tells the bot and sends a line to the client from
  the worker's thread.
* The server registers a session with the queue before it starts the session's thread;
  `ClientSession::stop` joins the thread and then unregisters.
* `StopServer` stops the sessions, saves, stops the price thread, then the queue, then
  the pool.
* The price thread publishes to `Global`; everyone reads through `getPrice`.

### What is hard, and what makes each part correct

* *Queue*: condition-variable hand-off and stopping; each accepted order handled once,
  in order; drained at exit; no lost wake-up.
* *Wallet*: never negative, balances equal to what the history replays to, file a past
  state unless its save was cut short; crash between truncation and write; loading what was
  saved.
* *Session and bot*: lifecycles crossing the queue's notifications; position state
  against orders outstanding; an order of one bot reported to the next.
* *Server*: a client admitted at most once and again after it left; shutdown ends.
* *Protocol*: replies and asynchronous results on one stream, written by two threads; commands
  that return.
* *Price feed*: index arithmetic of the circular buffer.
* *Back-test*: bot and portfolio agree on the position.

`PROJECT.json` lists each hazard at its line, with the properties that would catch it going wrong,
or the reason why there is none.

## 2. Plan

| Step | Modules | Content | State |
|---|---|---|---|
| 1 | `Orders`, `Ledger`, `TransactionQueue`, `MCTransactionQueue`, `TransactionQueueProofs`, `LedgerProofs` | orders, wallets and the queue's worker; the ledger they implement; proofs | checked and proved |
| 2 | `Bank`, `WalletStore`, `MCWalletStore`, `WalletStoreProofs` | registration, wallet and user files, counter; a kill between any two writes, restart; the bank they implement; proofs | checked and proved |
| 3 | `PriceFeed`, `PriceFeedProofs` | price thread, circular buffer, "price n seconds ago"; proofs | checked and proved |
| 4 | `Bollinger`, `TradingBot`, `TradingBotProofs` | the bot, its two deciding threads, notifications, START and STOP BOT, destruction; proofs | checked and proved |
| 5 | `BackTest`, `BackTestProofs` | `FineTrading`: choice of the start, both strategies, portfolio; proofs | checked and proved |
| 6 | `Admission`, `Server`, `ServerProofs` | accept thread, pool, authentication, `activeSessions`, `StopServer`, destructor; the admission they implement; proofs | checked and proved |
| 7 | `CommandProtocol`, `CommandProtocolProofs` | client programs, session replies and asynchronous results on one stream; proofs | checked and proved |

How the modules compose. `TransactionQueue` contains the wallets, the worker and every
thread that submits; `TradingBot` opens up the bot of one client and shrinks the queue to
what the bot can see; `WalletStore` shrinks the queue to its disk operations; `Server`
opens up connections and sessions and shrinks a session to its thread's life;
`CommandProtocol` opens up one connection. `Orders` and `Bollinger` are shared. Three
abstract specifications are implemented: `Ledger` by `TransactionQueue`, `Bank` by
`WalletStore`, `Admission` by `Server`.

Every safety property that a passing run checks is a theorem (section 10), and so are the three
refinements; one theorem has a hypothesis, which section 10 discusses. Liveness stays with
TLC. Four runs are violated: each checks what a comment of the code says and the code does not
do.

## 3. The core: orders, ledger, transaction queue

**`Orders`** holds the data and the arithmetic of one trade. An amount is an
integer: a quantity counts lots, a price counts dollars per lot, a dollar balance
counts `1/FeeDen` of a dollar, so the fee of 0.0001 is exact with `FeeDen = 10000`.
The rounding of doubles is the abstraction; comparisons and the order of operations
are the code's. `Covered` is the check of the funds, `Debited` and `Credited` the
two `updateBalance` calls. `Replay` and `At` say what a history amounts to: the balances
after each of its lines, and the lines at some places of a log.

**`Ledger`** is what the queue promises: orders are settled one at a time, oldest
first; a settlement trades the whole quantity at a price the account can pay, or
refuses it and keeps the refusal in the history, or discards the order.

**`TransactionQueue`** is `TransactionQueue.cpp` with what it calls. The worker's
control point is a variable and every statement another thread can see is a step:

| Control point | Code | Action |
|---|---|---|
| `test` → `parking` → `asleep` | `cv.wait`: predicate, sleep (mtx is held while `parking`) | `Park`, `FallAsleep`, `SpuriousWakeup` |
| `test` → `lookup` | front, pop | `Take` |
| `lookup` | session in `sessionMap`? | `Lookup` |
| `price` | `Global::getPrice` | `ReadPrice` |
| `decide` | price and funds, under `walletMutex` | `Decide` |
| `debit`, `credit` | the two `updateBalance` | `Debit`, `Credit` |
| `save` | `saveToFile`, which may fail at the open or after it | `Save` |
| `append` | `addTransaction`, then unlock | `AddTransaction` |
| `log` | `logTransactionToCSV` | `LogToCsv` |
| `notify` | `applyTransactionRequest` | `NotifySession` |

A caller of `addRequest` reads `running` without the mutex, pushes under it and
signals outside it (`AddRequest`, `Push`, `NotifyOne`); `stop()` is `StopRequest`,
`StopNotify`, `StopJoin`; SHOW WALLET is `ReadUsd`, `ReadBtc`, `Reply`. A client has
a session thread and possibly a bot thread; START BOT and STOP BOT appear as
`StartBot` and `StopBot` because they decide who may submit what; nothing stops a bot
when its session ends, as in the code. `csv` and `results` record the calls of
`logTransactionToCSV` and `applyTransactionRequest`; what these do with a file that
cannot be opened or a client that is gone changes nothing the queue reads back.
`accepted` and `dueAtStop` are auxiliary: they record the pushes and are read by
properties only (`accepted` also by the bound). `saveToFile` empties the file when it opens it:
`Save` leaves the file as it was (the open failed), written to its end (`Written`), or
holding what was written before a write or the close failed (`Unfinished`), which may be
nothing; `whole` tells the last two apart. The properties about histories, files and
replies are stated on `Book` (a history with the transaction in progress, once it has
reached the wallet) and `Balances` (what replaying it gives). The orders of unknown type that
`processRequest` guards against are left out: no caller builds one.

### Runs

All runs set `CHECK_DEADLOCK FALSE`: a server that has been stopped, or whose bound
of requests is used up, may have nothing left to do.

| Run | Instance | Shows |
|---|---|---|
| `queue` | 2 clients, one with a bot; 3 orders of 10 lots; no price or 999; `FairSpec`; 403 000 states | `TypeOK`, `FifoOnce`, `DrainedAtExit`, `HistoryMatchesLog`, `ResultsFollowLog`, `Served`, `StopReturns` |
| `queue_trades` | 1 client with a bot; 3 orders of 1 or 10 lots; no price, 999 or 1000; SHOW WALLET | `NoOverdraft`, `BooksBalance`, `FileTellsThePast`, `EachFigureIsReal`, refinement of `Ledger` |

Bounds: three orders give an order in progress, one queued and one being pushed,
which is all the pairs of threads can be concerned with at once; the prices are
chosen around a new wallet's 10000 dollars so that ten lots are covered at 999 and
miss only the fee at 1000, and the second of two orders computed from the same dollars is
never covered. In `queue` one client holds ten lots and the other the dollars for ten, so
that orders are completed or refused, and discarded while there is no price. `MaxRequests` is the
only bound on behaviours; the proofs do not depend on it.

Fairness (`FairSpec`): a thread that can take a step eventually does. It is assumed of
the worker, of a caller inside `addRequest` and of the thread inside `stop()`; the
code gives each of them a thread of its own. It is not assumed that anyone submits
an order, that prices move, or that a sleeping worker wakes without being notified.

### Observations

Three things a reader of the code's comments may not expect; the model contains them, no
run is devoted to them.

* `Wallet.h:25` says the balances are protected by `walletMutex`; `getBalance`
  (`Wallet.cpp:121`) does not lock it, and SHOW WALLET can show dollars from before
  and crypto from after a trade. Each figure taken alone is a real one
  (`EachFigureIsReal`), the pair need not be.
* `ClientSession.cpp:116` unregisters a session so that the queue does not notify it;
  the queue holds the session from the start of `processRequest` and notifies it
  anyway (`NotifySession` needs no registration).
* `TransactionQueue.cpp:332` says a transaction built late means a missing session;
  an invalid price ends there too, and the client's history misses the order. The
  properties on histories only speak of the orders that reached an account (`ReachedAccount`).

## 4. The files: bank, wallet store

**`Bank`** is what the files promise over any number of restarts: a client's money is
the initial grant, made once, and the trades made since.

**`WalletStore`** is the server seen from its disk: `users.txt`, a wallet file per
client, `counter.txt`. Orders and prices are gone; an account is named by where its
money comes from (was the grant received, which trades), a line of the history by its
identifier and status. A file is rewritten as the code does it: opened, which empties
it, then closed, which writes the stream's buffer, with a spill in between once the
history outgrows the buffer (`BufferLines` lines). Three activities write, each with
its own lock or stage:

| Variable | Activity | Actions |
|---|---|---|
| `clerk` | the holder of `usersMutex`: a registration, or `StopServer` saving the users | `Register`, `OpenUsers`, `WriteUsers`, `OpenWallet`, `FillWallet`, `SaveUsers` |
| `job` | the worker settling a transaction; later the destructors of session and wallet, which save twice | `Discard`, `Refuse`, `Settle`, `OpenSave`, `SpillSave`, `CloseSave`, `AddTransaction`, `DestroySession` |
| `phase` | `StartServer`, `StopServer`, `~Server` | `Start`, `StopServer`, `OpenCounter`, `WriteCounter`, `QueueStopped`, `PoolStopped`, `Exit` |

`OpenSession` is the part of `HandleClient` that loads a wallet; a client has one session
per run of the server because `activeSessions` is not cleaned when it disconnects. The
path that erases a session because its thread could not be created is in `Server`, not here.
`Killed` ends the process at any point and loses all but the files; the program installs no
signal handler, so that SIGTERM is such a kill. An orderly stop exists in the code (the
accept loop ends when its socket becomes invalid) and is modelled too. The clock in a
transaction's identifier is `ids`, which only grows; `counter` keeps its last value
while the server is down. `kills` and `failures` count, for the bounds and the guards of
properties.

| Run | Instance | Shows |
|---|---|---|
| `store` | 2 clients, 3 identifiers, 2 starts, one kill, one failing open or write; 2.5 million states | `TypeOK`, `UsersHaveWallets`, refinement of `Bank`, `AcknowledgedIsSaved`, `KilledCostsOneWallet`, `HistoryIsBacked`, `HistoryIncreases` |
| `store_history` | 1 client, 1 identifier, 3 starts | violated: `HistorySurvivesLoad` |

Two starts and a kill give every pair (point of the kill, what is found afterwards);
three identifiers give a client a history longer than the buffer and one line lost by
a load; two clients let one register, or save, while the other is being saved.
`UsersHaveWallets` and the refinement speak of each behaviour up to its first kill or failure,
`AcknowledgedIsSaved` and `KilledCostsOneWallet` up to its first failure, the two properties of
histories of all of it. The runs
set `CHECK_DEADLOCK FALSE`: a server may stay down, and the bounds end every behaviour.

`store_history` is a disagreement of the code with its comments: the loop over the balance
lines of a wallet (`Wallet.cpp:174`, "les 2 premières lignes") reads a third line before it
stops, so that every load loses the first transaction of the file. The passing runs state
their properties so that they hold in spite of it.

Observations without a run of their own:

* `users.txt` is truncated before it is written (`Server.cpp:380`): after a kill in
  between, users who come back are new and `CreateWalletFile` replaces their wallets.
  `UsersHaveWallets` and the refinement of `Bank` therefore say nothing after the first kill, and no
  property catches what such a kill does to the registrations that follow;
* `CreateWalletFile` tests for errors before it closes the file (`Server.cpp:304`): on a
  full disk the new user is accepted with an empty wallet;
* `stop_serv.sh:26` relies on SIGTERM letting the program save; nothing catches it, and
  the end of each history, appended after the wallet was saved, is lost;
* the counter is saved before the queue is drained (`Server.cpp:228`, `:236`), so its
  values repeat; identifiers stay distinct because of their clock (`HistoryIncreases`).

## 5. The price feed

**`PriceFeed`** is `Global.cpp` with the price thread. A price is represented by the number
of the update that published it, so that "which price does a reader get" has an exact
answer; the HTTP request either brings a usable price or does not.

| Code | Actions |
|---|---|
| `startPriceGenerationThread`, `stopPriceGenerationThread` | `Start`, `Stop`, `Join` |
| the loop of the thread: test, request, publication, pause | `LoopTest`, `FetchFails`, `Publish`, `Store`, `WakeUp` |
| `getPrice`, `getPreviousPrice` | `GetPrice`, `GetPreviousPrice` |

The writer holds `srdMutex` while it takes `bufferMutex`, and the two readers take one of
them each: `Publish` and `Store` are two steps, and only `getPrice` waits in between.
`Remainder` is the `%` of C++, whose sign is the dividend's.

| Run | Instance | Shows |
|---|---|---|
| `feed` | 4 slots, 15 s, 10 prices, delays 0 to 200 s | `TypeOK`, `RingIsRecentPast`, `PreviousPriceIsPast`, `HistoryHoldsWhatWasSeen` |
| `feed_oldest` | the same | violated: `TooLongGivesTheOldest` |

Four slots are filled and overwritten more than twice; the delays lie on both sides of one
interval, of several, and of the whole buffer. `PreviousPriceIsPast` says which of the stored
prices answers a delay; a delay under one interval gets the oldest, which the function's name does
not suggest.

`feed_oldest` is a disagreement of the code with its comments. For a delay beyond the buffer
`Global.cpp:334` announces "l'élément le plus ancien stocké" and takes `MAX_VALUES_PER_DAY - 1`
steps back (`:335`, "Indexe l'élément le plus ancien"). But `activeIndex` is the slot of the next
write, which in a full buffer holds the oldest price; that many steps back is the slot after it,
the second oldest. `PreviousPriceIsPast` leaves open which of the two a delay beyond the buffer
gets; `TooLongGivesTheOldest` is what the comments say.

## 6. The trading bot

**`Bollinger`** compares a price with the bands exactly, without square roots, for both users
of the bands. **`TradingBot`** is one `Bot` object and the three threads that touch it:

| Variable | Thread | Actions |
|---|---|---|
| `thread` | the bot's, `tradeLoop` | `LoopTest`, `Decide`, `Lock`, `Submit`, `WakeUp` |
| `session` | the session's: START BOT, the poll after each reception, manual orders, STOP BOT, the end of the client | `StartBot`, `Poll`, `SubmitPolled`, `ManualOrder`, `StopBot`, `JoinBot`, `Leave` |
| `session`, `queueOn` | the server's stop: `ClientSession::stop`, `TransactionQueue::stop`, destruction | `StopSession`, `StopQueue`, `DropSession`, `Destroyed` |
| `worker` | the queue's worker: execution, `if (bot)`, the call | `Execute`, `CheckBot`, `Notify` |

`ClientSession::bot` is read by the worker and reset by the session's thread without a lock.
A `Notify` of a bot destroyed since `CheckBot` is undefined behaviour: the process ends or
nothing happens. The process also ends when a `std::thread` that was never joined is
destroyed (`DropSession` of a client that left) and when the bot's thread is the last to hold
the session (`Submit`). Amounts are units: the bot buys with a fixed amount and otherwise only
tests whether a balance is positive. The history keeps `Period` prices, the part that is read
of the `2 * Period` the code keeps. Exceptions inside `tradeLoop`, which it logs and
survives, are left out.

| Run | Instance | Shows |
|---|---|---|
| `bot` | prices 1 and 2 (and unknown), period 2, K 1, 2 units, 2 orders waiting, `FairSpec`; 222 000 states | `TypeOK`, `LongHoldsCrypto`, `StoppedBotIsSilent`, `JoinsReturn` |

With two prices and a window of two, each price can be at the lower band, at the upper band and
neither (both prices alike: at both). Two units and two waiting orders let the bot's thread
and the poll both buy on one decision, and let an order of one bot be reported to the next.
Fairness: the bot's thread, the session's thread inside a command and the worker go on,
and so does a destructor that has begun (`Destroyed`); nobody has to start, stop or leave.

What the properties tolerate: `ClientSession.cpp:765` says that `stopBot` is called by
`ClientSession::stop`, which it is not, so that a bot trades on after its client has left
(`StoppedBotIsSilent` is about STOP BOT); two BUYs decided by the two threads can both be
executed; and the result of a manual order, or of an earlier bot, moves the position. `LongHoldsCrypto`
says that the position agrees with the wallet in spite of the last two, not that they do not
happen.

## 7. The server

**`Admission`** is what `HandleClient` promises: at most one verdict for a connection, at most
one admitted connection for a client, everyone else refused meanwhile. **`Server`** is
`Server.cpp` from `accept` to the destructor, with the authenticator and the life of a session.
A connection goes through `stage`:

| Stage | Thread | Code | Actions |
|---|---|---|---|
| `none` → `shaking` → `queued` | accept | `AcceptLoop`, `AcceptSSLConnection`, `taskQueue` | `Accept`, `Shaken`, `AcceptFails` |
| → `authenticating` | pool | `threadPoolWorker` | `Take`, `Return` |
| → `claiming` | pool | `AuthenticateClient` | `Authenticate` |
| → `answering` | pool | `activeSessions` under `sessionsMutex`, wallet, session | `Refuse`, `OpenSession`, `NoSession` |
| → `registering` → `starting` | pool | the AUTH line, `registerSession` | `Admit`, `Register` |
| → `launching` → `served` or `unwinding` | pool | `ClientSession::start` and its failure | `Start`, `Launch`, `LaunchFails`, `Unwind` |
| `served` | session | the end of `run`; a write to a peer that left | `SessionEnds`, `DiesOnSend` |

`main` is the control point of the main thread: `StartServer` and its failures, waiting for the
accept thread, `StopServer` (`Collect`, `StopSession`, `JoinSession`, `SkipSession`,
`StopOthers`, `StopPool`, `PoolJoined`), the destructor of the sessions
(`DestroySession`) and `Exit`. Peers connect, greet, identify themselves and leave as they like.
Three facts of the code that the model keeps and a reader may miss:

* `stopThreadPool` is never initialised (`Server.h:146`): it is either value at the start, and
  if it is set the pool's threads return at once;
* an entry of `activeSessions` is removed only when the session's thread could not be created; a
  client that left is refused until the server is restarted (run `server_reconnect`; this is
  why `unregisterSession`, which nobody calls, has no action);
* an authentication failure is answered by closing the connection: no line is sent, although
  `Server.cpp:627` says the authenticator has sent one.

| Run | Instance | Shows |
|---|---|---|
| `server` | 2 clients, 2 connections, pools of 1 and 2, `FairSpec`; 158 542 states | `TypeOK`, `ServedIsRegistered`, `NothingRunsAtExit`, refinement of `Admission`, `Answered`, `StopReturns` |
| `server_reconnect` | 1 client, 2 connections, pool of 2 | violated: `RefusedIsConnected` |

Two connections suffice for what they can do to each other: claim the same client or two, wait
for the one thread of a pool, be in `StopServer`'s copy of `activeSessions` or miss it. A third
connection was tried for the invariants (one client). Fairness: every thread of the
server goes on while it can; a session's thread wakes up for sure only if its peer has left or
its connection is closed. Peers owe nothing: `PeersSpeak` (who connects identifies itself or
leaves) and `PeersLeave` are antecedents of `Answered` and `StopReturns`, which fail without
them: silent peers block the pool's threads, and `ClientSession::stop` joins a thread that is
blocked in a read before it closes the connection.

## 8. One connection

**`CommandProtocol`** is one authenticated connection. At one end is the terminal client
(`Main_Cli.cpp`) or one of two benchmarks (`bench_transaction.cpp`, and `test_transactions` of
`Benchmark.cpp`); at the other the session's thread, which answers, and the queue's worker,
which reports. The lines carry the number of the command they answer, which the real ones do
not: the program takes what it reads for the answer to its last command.

| Code | Actions |
|---|---|
| the loops of the programs | `Issue`, `Quit`, `IssueInVain`, `Close`; `Read` / `ReadAndCount` / `ReadRecord`, `ReadFails` |
| `run`: the top of the loop, its reads | `Loop`, `EndSession` |
| `processClientCommand` | `Ask`, `ShowTransactions`, `RefuseTrade`, `FailTrade`, `SubmitTrade`, `StartBot`, `StopBot`, `QuitCommand` |
| the bot and the worker | `BotOrder`, `Settle`, `DropResult` |
| `ServerConnection::send` | `BeginSend`, `DropAnswer`, `SentBySession`, `SentByWorker` with `Transmit` |

What ends, and what does not:

* A session ends when its read fails, when its connection is marked (`markForClose`), or on QUIT.
  It leaves the connection open: only `StopServer` and the destructor close it, and they are in
  `Server`, not here. A program whose session has ended is therefore still connected; its next
  command is never answered, and the result of an order still in the queue reaches it.
* The server upper-cases a command before it compares it, the terminal does not. `QUIT` is sent
  and the terminal leaves (`Quit`); `quit`, or `QUIT` with a word after it, is sent, ends the
  session, and the terminal reads the answer and goes on (`Issue("quit")`). In the same way `buy`
  is a trade for the server and an ordinary command for the terminal, which waits for one line.
* A read of the program fails only if what arrives is not what TLS expects (`spoilt`), not because
  the server's end is marked: `send` marks and closes nothing. The terminal leaves then; the
  benchmarks count a failure and go on with every transaction left (`IssueInVain`).
* A trade that `handleClientTradeRequest` refuses is answered twice: an error, then the
  acknowledgement.

`send` takes no lock. Two threads that meet in `SSL_write` (`raced`) are undefined behaviour of
OpenSSL: from then on a record may arrive, be lost, fail the send (which marks the connection)
or spoil the stream for the reader, and the server's own read may fail. That a
thread reads while another writes is taken to be harmless here, although OpenSSL asks for a lock
there as well. A send to a program that has left may also end the process (`SIGPIPE`); this
is an action of `Server` and has no place in the life of one connection.

| Run | Instance | Shows |
|---|---|---|
| `protocol` | 4 commands, 2 orders of the bot, histories of at most 1 line, `FairSpec`; 2.5 million states | `TypeOK`, `InStepUnlessSurprised`, `BenchCountsSettled`, `CommandReturns` |
| `protocol_writers` | 2 commands, no bot | violated: `OneWriter` |

Four commands let START BOT, an order of the bot, STOP BOT and a later command share a
connection, or a trade, a quit and a command after it; one line of history is enough to put the
client one line behind. Fairness: the server's threads go on and what is under way is read; nobody
has to type. `CommandReturns` says that a command comes to an end for the program that sent it
unless an earlier quit has ended the session or the two threads have met in `SSL_write`: in
both cases the program may wait for ever. A benchmark counts lines, not trades:
`test_transactions` starts one line behind because it does not read the answer to its
credentials, so `BenchCountsSettled` is stated for `bench_transaction`.

`protocol_writers` is a disagreement of the code with its comments: `ServerConnection.cpp:90` says
that access is serialised by the session's thread, `ClientSession.cpp:672` that `send` has to be
thread-safe. An order is in the queue before its acknowledgement is sent, so that the worker can
send the result at the same time.

## 9. The back-test

**`BackTest`** is `FineTrading`: the fetch (which may fail or bring too few prices), the random
choice of the start, the noisy copies, the momentum strategy and the Bollinger strategy, each
with its `Portfolio`. `main` throws if there are fewer prices than a period and a simulation
take. Amounts are integers and the balance is divisible by all that a simulation divides it by;
rounding is not modelled. `buyBTC`, `sellBTC`, `processNewPrice` and the simulations keep their
names or read `buyBTC`, `sellBTC`, `Signal` with `Move`, `MomentumStep`, `WarmUp` and
`BollingerStep`.

| Run | Instance | Shows |
|---|---|---|
| `backtest` | prices 1 and 4, noisy ones also 0; period 3, 4 steps, 2 runs, series of up to 8 prices; 378 000 states | `TypeOK` (with: nothing is overdrawn), `ReadsTheSeries`, `BotAgrees` |

Every series of prices of that length is checked. A period of three lets a price fall outside
the bands; four steps let a position be opened, closed and opened again; series of up to eight
prices put the start at both ends of its range; two runs show that nothing is carried over. A
price of zero can come from the noise only, and trading at it does nothing while the bot's
position moves: `BotAgrees` names that case and the signals of the warm-up, which nobody
acts on.

## 10. Proofs

### The queue: `TransactionQueueProofs`

For all clients, quantities, prices, fees, initial accounts and numbers of requests allowed by
`OrdersAssumption` and `QueueAssumption`:

* `TypeCorrect`: `TypeOK`;
* `NeverOverdrawn`: no balance is ever negative;
* `LoggedOnceInOrder`: log, order in progress and queue are, end to end, the orders
  pushed;
* `StopDrains`: a worker that has returned has executed all that was pushed before
  `stop()` took the mutex;
* `Invariance`: the inductive invariant `IInv` they follow from.

The argument. `NoOverdraft` is not inductive: at `debit` it needs the check of the
funds to be still true. `StillCovered` says so; it is preserved because only `Debit`
and `Credit` write a wallet (`OthersKeepWallets`) and only `Decide` leads to `debit`
(`ReachingDebit`). `Control` ties the control points to the locals (there is an order
in `processRequest`, a completed one has a positive price, an idle worker has none).
`FifoOnce` is inductive with `Control`: a push appends to the queue and to `accepted`,
`Take` moves the head into the job, `LogToCsv` moves the job to the end of the log;
the lemmas on concatenation do the rest. `DrainedAtExit` follows since `Exit` finds
the queue and the job empty, so that by `FifoOnce` the log is all of `accepted`.

### The server: `ServerProofs`

For all clients, connections and sizes of the pool allowed by `ServerAssumption`, and either
initial value of the stop flag:

* `TypeCorrect`: `TypeOK`, whose conjunct on the pool says that a connection being handled
  has a thread;
* `RegisteredWhenServed`: a session that serves is the one the server and, unless a session of
  its client failed to start, the queue know;
* `CleanExit`: nothing runs when `main` returns;
* `AdmissionImplemented`: `Server` implements `Admission`;
* `Invariance`: the inductive invariant `IInv` they follow from.

The argument. Six parts hold each other up. `Queued` says that the queue of tasks holds each
queued connection once: without it `Take` could hand one connection to two threads, and the
count of threads (`NextPool`) would be wrong. `Control` says what a connection's stage tells
about its session, in particular that a session not yet started is neither running nor being
stopped, and that only one that failed to start is unwound. `Owned` says that `activeSessions`
is exactly the sessions opened and not given up, each under its own client; it is what makes
two sessions of one client impossible. `Stopping` is about the main thread: what is still to
be stopped exists; once the pool has been joined there is no thread in it, hence
(`EmptyPool`) no connection in `HandleClient` and no new session, so that the second copy of
`activeSessions`, the destructor's, misses nothing: this gives `CleanExit`. `Known` is the
queue's `sessionMap`: entries are cleared by client name, and by `Owned` the entry cleared is
the session's own unless a session of the client failed. For the refinement, `OpenSession` is
`Admit`, `Refuse` is `Refuse`, `LaunchFails` and `DestroySession` are `Release`, all by `Control`
and `Owned`; every other step changes neither `activeSessions` nor a verdict (`NoVerdict`).

### The books: `LedgerProofs`

Under the same two assumptions, on top of `IInv`:

* `CheckStandsToCommit`: from the check under `walletMutex` to `addTransaction`, the outcome is
  what `Covered` says of the committed balance;
* `LedgerImplemented`: `TransactionQueue` implements `Ledger`;
* `BooksAlwaysBalance`, `FileOfThePast`, `FiguresAreReal`: `BooksBalance`, `FileTellsThePast`,
  `EachFigureIsReal`;
* `HistoryInLog`, `ResultsInLog`: `HistoryMatchesLog`, `ResultsFollowLog`.

The argument. The refinement maps the wallets to `CommittedBalance`, the account without the
updates of the trade in progress, and commits at `addTransaction`. `CommittedByPoint` computes
that balance at each control point (undoing a debit, then both updates); `CheckStands` carries
the check across them. Then `AddTransaction` is `Fill` or `Reject`, `Push` is `Accept`, a `Lookup`
or `Decide` that gives an order up is `Discard`, and every other step stutters.

The books need a further invariant, `BooksInv`. `CommittedBooks` says that the committed balance
is the replay of the history; `FiguresShown` holds for a SHOW WALLET half done what
`EachFigureIsReal` says of one that is done; `FoundKnown` keeps the session found from the
lookup to the notification. `Replay` and `At` are recursive functions. The induction theorems
of the library take operators, which the provers cannot instantiate; `InductionTo` states
induction up to a bound for a *set*, proved from the well-foundedness of `<` on the
naturals (`LeastElement`). With it the recursions have solutions (`ReplayExists` and its
analogue for `At`), and what is needed of them are three local facts: their first value, the
step from one line to the next, and that appending a line does not change the values before it.

`FileTellsThePast` is preserved by an append because the balances after a line and the lines
before it stay the same when the book grows (`SavesOf`); a save puts in the file one of the
three things `SavesOf` allows for the transaction in progress, or leaves it alone.

### The files: `WalletStoreProofs`

For all clients, sizes of the stream's buffer and bounds on identifiers, starts, kills and
failures (`StoreAssumption`):

* `StoreTypeCorrect`: `TypeOK`;
* `HistoryBacked`, `HistoryOrdered`: `HistoryIsBacked`, `HistoryIncreases`, whatever is killed or
  fails;
* `AcknowledgedSurvives`, `KillCostsOneWallet`: `AcknowledgedIsSaved` and the action property
  `KilledCostsOneWallet`, both about stores where no file operation has failed, with any
  number of kills;
* `NoUserWithoutWallet`: `UsersHaveWallets`;
* `BankImplemented`: `Spec => ImplementsBank`: the first state is one of `Bank`, and each step of
  the store after which no process has been killed and no file operation has failed is a step of
  `Bank` or a stutter.

The argument. `Sound` adds to the types that nothing is in progress when the server is down,
that the clerk is done before sessions are destroyed and the worker before the pool is joined
(`Quiet`), and that only registered users' wallets are loaded and only loaded ones are
written (`LoadedOnce`): without it a file could be rewritten under a registration.
`Histories` bounds the identifiers in every wallet, every file and every part of a file a spill
has written by the last one made (`Told`: the transaction in progress, which has it, is not yet
in a history), so that an append keeps the order and a load that loses a line does too.
`Acknowledged` says that users and accounts in memory are on disk except for the file being
written; `KilledCostsOneWallet` follows since at most one wallet file is open at a time.
`Registered` says that an account on disk is that of a registered user; it is what makes the
initial grant happen once. For the refinement, `FillWallet` is `Grant`, `Settle` is `Trade`, and
`Refuse` and `Discard` are `Refuse`; loads, saves and restarts leave the account of every client as it
was, in memory or, by `Acknowledged`, on disk.

The condition on each step of `ImplementsBank` is needed: after a kill while `users.txt` is
rewritten the code makes the grant again (section 4). `kills` and `failures` never decrease
(`OrderlyBefore`), so that the steps it speaks of are the ones before the first fault; they
include any number of stops and starts.

### The price feed: `PriceFeedProofs`

For every size, interval, set of delays (negative ones included) and number of updates
(`FeedAssumption`): `TypeCorrect` (`TypeOK`), `RingIsThePast` (`RingIsRecentPast`),
`AnswersFromThePast` (`PreviousPriceIsPast`) and `HistoryFollowsPrice`
(`HistoryHoldsWhatWasSeen`). `RingIsRecentPast` is inductive once a writer between its two writes
is known to have a price in hand (`Holding`): a store moves each price one place
further from the next write and overwrites the oldest, whose place is the one before the
next write (`Places`, arithmetic modulo `Size`). The answers follow from the ring and the
bounds of a quotient (`QuotientBounds`); no statement fixes which of the two oldest prices answers
a delay beyond the buffer, since `feed_oldest` refutes the one the comments make. `HistoryFollowsPrice` needs that no reader was given a
price that is not stored yet (`SeenStored`), which is what `srdMutex`, held over both writes,
gives.

### The trading bot: `TradingBotProofs`

For every set of positive prices, period, coefficient, balance and bound on the queue
(`BotAssumption`): `BotTypeCorrect` (`TypeOK`: no balance is negative, every order is for a positive
quantity), `PositionFollowsWallet` (`LongHoldsCrypto`) and `NoOrderOfAStoppedBot`
(`StoppedBotIsSilent`, an action property). `LongHoldsCrypto` is not inductive: the position
moves when the bot is told, the wallet when the order is executed. `Bought` bridges the
two (between the execution of a BUY and its notification the worker, the only one to sell, is
busy), and `NothingLeft` says what STOP BOT leaves behind: no thread, no position and no decided
order in the session's hands. The bands are not looked into: the theorems hold whatever the
prices make the bot decide.

### The connection: `CommandProtocolProofs`

For any number of commands, orders of the bot and lines of history (`ProtocolAssumption`):

* `ProtocolTypeCorrect`: `TypeOK`, with `Counted` (every order waiting or settled was a command
  or is the bot's);
* `BenchCountsRight`: `BenchCountsSettled`. `Counting` relates the successes counted, the results
  under way and the orders settled; the results under way are bounded by a function along the
  stream (`AtMost`), as counting them would be a recursion; a transaction sent in vain counts as
  issued and failed;
* `TerminalInStep`: `InStepUnlessSurprised`. `InStep` follows the one command of an unsurprised
  terminal through the connection: asked, answered, queued, in the worker's hands, or on its
  way back as the last line there is (`LinesInStep`, `AskedOnce`, `AnsweredOnce`,
  `OrderedOnce`), in exactly one place at a time; and nothing is left of it when the
  terminal is ready for the next (`WhenReady`). It is stated over the five surprises together:
  each step that would break it sets one. The end of the session, a marked connection and two
  threads in `SSL_write` lose lines but put none where another is awaited.

### The back-test: `BackTestProofs`

For every set of prices, period, number of steps and of runs, balance, fraction and length of the
series (`BackTestAssumption`):

* `BackTestTypeCorrect`: `TypeOK`, with: no amount is ever negative;
* `RunsReadTheSeries`: `ReadsTheSeries`;
* `BotAndPortfolioAgree`: `Spec /\ []Affordable => []BotAgrees`.

`InSeries` and `Reading` relate the control point, the start and the step to the window.
`Holding` says that crypto is held only in a long position bought with everything. It needs a
fact about the bands: a long position is never closed at a price of zero, where the sale would do
nothing, because zero is not above the mean of prices (`ZeroIsNotAbove`); `SumOf`, a recursive
function, is natural by `InductionTo`. The first half of `BotAgrees` follows without
hypothesis. The second half, that a long position has something in it, does not hold for all
constants in whole numbers: the code buys a fraction with any sum, here a purchase rounds
down. `Affordable` says that the dollars of a simulation that holds no crypto buy a whole
unit at any price; run `backtest` satisfies it in every state.

### What proving changed

* `UsersHaveWallets` was stated for every behaviour and held in its run because the run has no
  kill and no failure; the statement now says so.
* `PreviousPriceIsPast` was false for a buffer of one slot, which answers the one price it has to
  every delay; the statement now covers it.
* The types of `TradingBot` were too weak to be inductive: an order's quantity is positive, and
  a result's price may be zero only for a refused order.
* `BackTest` with no run at all would have started one; `Runs` is positive, as in the code.

### Only model-checked

Liveness (`Served`, `StopReturns`, `Answered`, `JoinsReturn`, `CommandReturns`), which is out of the
provers' reach; the second half of `BotAgrees` without `Affordable`; and the four disagreements
(`store_history`, `server_reconnect`, `protocol_writers`, `feed_oldest`), which are
counterexamples.

Some hazards in `PROJECT.json` have no property: the code does what should not happen, and no
comment claims otherwise in a way a run could refute, or the claim is told in the hazard's note. They are
a kill during a registration, the bot that trades on without its client, two BUYs on one
decision, results that move the position of another order's bot, the signal of the back-test's
warm-up, the stop flag of the pool that is never initialised, the handshake without a timeout,
and the write error of a new wallet that shows only at close. The models contain all of them.

Each property is accompanied, in `PROJECT.json`, by a mutant: a plausible mistake in a
definition (marked *Mutant* in the modules) under which its run fails.

## 11. Not modelled

* The TLS library and sockets, and the cutting of received records into lines
  (`receiveLine`): lines arrive whole.
* The HTTP requests, the parsing of their answers, hashing, the wording of logs and of lines.
* `StopServer` called while the accept thread is in `accept`: only the handlers in `main`, after an
  exception thrown by `StartServer` once that thread runs, would do it.
* Exceptions for lack of memory, in `registerSession`, in the containers and in `tradeLoop`.
* The rounding of doubles: amounts are integers everywhere.
* The connection benchmarks of `Benchmark.cpp`, which only open connections (any peer of `Server`
  does), the figures they print, `test.cpp`, the scripts and the vendored build tree.
