----------------------------- MODULE TradingBot -----------------------------
(***************************************************************************)
(* The trading bot of one client: src/code/Bot.cpp with the parts of       *)
(* ClientSession.cpp that start, poll, stop and notify it, and the queue's *)
(* worker as far as the bot can see it.                                    *)
(*                                                                         *)
(* Three threads touch the Bot object.  Its own thread (tradeLoop) decides *)
(* and submits orders.  The session's thread creates it, decides and       *)
(* submits orders too (the poll of ClientSession::run), and destroys it.   *)
(* The queue's worker tells it what became of an order.  botMutex makes    *)
(* each call atomic; the shared_ptr ClientSession::bot has no lock.        *)
(*                                                                         *)
(* Amounts.  One unit of dollars is what one BUY of the bot invests, and   *)
(* buys one unit of crypto; a wallet holds Funds units.  Fees and gains    *)
(* are left out: the bot only tests whether a balance is positive.         *)
(***************************************************************************)
EXTENDS Integers, Sequences, Bollinger

CONSTANTS
  Prices,    \* market prices; 0 stands for "not known yet"
  Period,    \* bollingerPeriod (20 in ClientSession::startBot)
  SquareK,   \* the square of bollingerK
  Funds,     \* units of dollars the wallet starts with
  MaxQueue   \* bound: orders waiting in the transaction queue

ASSUME BotAssumption ==
  /\ Prices \subseteq Nat \ {0}
  /\ Period \in Nat \ {0}
  /\ SquareK \in Nat \ {0}
  /\ Funds \in Nat
  /\ MaxQueue \in Nat

VARIABLES
  price,       \* Global::getPrice
  usd, btc,    \* the client's Wallet
  session,     \* ready, submitting or joining (inside stopBot): its thread
               \* runs; left: the client is gone and the thread has ended;
               \* stopped: by ClientSession::stop; dropped: the server's last
               \* reference is gone; gone: destroyed; dead: the process is
  decided,     \* the action the session's poll is about to submit
  bot,         \* ClientSession::bot is not null
  running,     \* Bot::running
  thread,      \* control point of the bot's thread
  action,      \* the action it is about to submit
  history,     \* priceHistoryForCalculation
  position, entryPrice,
  queueOn,     \* the transaction queue accepts orders
  orders,      \* the orders waiting in it
  worker,      \* idle, executed (an order) or checked (if (bot) was true)
  result       \* what became of the order the worker has just executed

botObject   == <<history, position, entryPrice>>
threadVars  == <<running, thread, action>>
sessionVars == <<session, decided>>
queueVars   == <<queueOn, orders>>
workerVars  == <<worker, result>>
walletVars  == <<usd, btc>>

vars == <<price, usd, btc, session, decided, bot, running, thread, action, history,
          position, entryPrice, queueOn, orders, worker, result>>

Actions == {"HOLD", "BUY", "CLOSE_LONG"}
Order   == [type : {"BUY", "SELL"}, quantity : Nat \ {0}]
Result  == [type : {"BUY", "SELL"}, completed : BOOLEAN, price : Prices \cup {0}]
NoResult == [type |-> "BUY", completed |-> FALSE, price |-> 0]

TypeOK ==
  /\ price \in Prices \cup {0}
  /\ usd \in Nat /\ btc \in Nat
  /\ session \in {"ready", "submitting", "joining", "left", "stopped", "dropped", "gone",
                 "dead"}
  /\ decided \in Actions
  /\ bot \in BOOLEAN /\ running \in BOOLEAN
  /\ thread \in {"off", "top", "deciding", "locking", "submitting", "sleeping", "exited"}
  /\ action \in Actions
  /\ history \in Seq(Prices)
  /\ position \in {"NONE", "LONG"}
  /\ entryPrice \in Prices \cup {0}
  /\ queueOn \in BOOLEAN
  /\ orders \in Seq(Order)
  /\ worker \in {"idle", "executed", "checked", "dead"}
  /\ result \in Result

Init ==
  /\ price = 0
  /\ usd = Funds /\ btc = 0
  /\ session = "ready"
  /\ decided = "HOLD"
  /\ bot = FALSE /\ running = FALSE
  /\ thread = "off"
  /\ action = "HOLD"
  /\ history = << >>
  /\ position = "NONE"
  /\ entryPrice = 0
  /\ queueOn = TRUE
  /\ orders = << >>
  /\ worker = "idle"
  /\ result = NoResult

(* The process ends: no thread takes another step.                         *)
Dies ==
  /\ session' = "dead"
  /\ thread' = "off"
  /\ worker' = "dead"

(* The price thread: the price is positive once it is known.               *)
Publish ==
  /\ worker # "dead"
  /\ price' \in Prices
  /\ UNCHANGED <<walletVars, sessionVars, bot, threadVars, botObject, queueVars,
                 workerVars>>

-----------------------------------------------------------------------------
(* Bot::processLatestPrice and ClientSession::submitBotOrder, called by    *)
(* the bot's thread and by the session's.                                  *)

LastOf(h, n) == IF Len(h) <= n THEN h ELSE Window(h, n)

(* The code keeps 2 * Period prices but reads only the last Period.        *)
History == IF price = 0 THEN history ELSE LastOf(Append(history, price), Period)

(* The action decided on history h.                                        *)
Decision(h) ==
  LET w == Window(h, Period)
  IN  IF price = 0 \/ Len(h) < Period THEN "HOLD"
      ELSE IF position = "NONE" /\ AtLowerBand(price, w, SquareK) /\ usd > 0 THEN "BUY"
      ELSE IF position = "LONG" /\ AtUpperBand(price, w, SquareK) /\ btc > 0 THEN "CLOSE_LONG"
      ELSE "HOLD"

(* The order an action becomes, none if the amount or the price is not     *)
(* positive any more.  The balance is read here, when the order is made.   *)
OrderFor(a) ==
  IF a = "BUY" /\ usd > 0 /\ price > 0 THEN <<[type |-> "BUY", quantity |-> 1]>>
  ELSE IF a = "CLOSE_LONG" /\ btc > 0 THEN <<[type |-> "SELL", quantity |-> btc]>>
  ELSE << >>

(* TransactionQueue::addRequest: a stopped queue drops what it is given.   *)
AddRequests(s) ==
  /\ Len(orders \o s) <= MaxQueue
  /\ orders' = IF queueOn THEN orders \o s ELSE orders
  /\ UNCHANGED queueOn

-----------------------------------------------------------------------------
(* The bot's thread: tradeLoop.                                            *)

(* Mutant: the loop does not look at running.                              *)
LoopOnce ==
  /\ thread = "top"
  /\ thread' = "deciding"
  /\ UNCHANGED <<price, walletVars, sessionVars, bot, running, action, botObject,
                 queueVars, workerVars>>

LoopTest ==
  /\ thread = "top"
  /\ thread' = IF running THEN "deciding" ELSE "exited"
  /\ UNCHANGED <<price, walletVars, sessionVars, bot, running, action, botObject,
                 queueVars, workerVars>>

Decide ==
  /\ thread = "deciding"
  /\ history' = History
  /\ action' = Decision(History)
  /\ thread' = IF action' = "HOLD" THEN "sleeping" ELSE "locking"
  /\ UNCHANGED <<price, walletVars, sessionVars, bot, running, position, entryPrice,
                 queueVars, workerVars>>

(* clientSessionPtr.lock(): a bot whose session is being destroyed stops   *)
(* itself.                                                                 *)
Lock ==
  /\ thread = "locking"
  /\ IF session = "dropped"
     THEN running' = FALSE /\ thread' = "sleeping"
     ELSE thread' = "submitting" /\ UNCHANGED running
  /\ UNCHANGED <<price, walletVars, sessionVars, bot, action, botObject, queueVars,
                 workerVars>>

(* submitBotOrder, and the release of the reference taken by lock().  If   *)
(* the server has dropped its own meanwhile this is the last one: the      *)
(* session is destroyed on this thread, and ~Bot joins the thread it runs  *)
(* on, which throws out of a destructor.                                   *)
Submit ==
  /\ thread = "submitting"
  /\ AddRequests(OrderFor(action))
  /\ action' = "HOLD"
  /\ IF session = "dropped"
     THEN Dies
     ELSE thread' = "sleeping" /\ UNCHANGED <<session, worker>>
  /\ UNCHANGED <<price, walletVars, decided, bot, running, botObject, result>>

(* The pause ends after tradeInterval, or within 100 ms of a stop.         *)
WakeUp ==
  /\ thread = "sleeping"
  /\ thread' = "top"
  /\ UNCHANGED <<price, walletVars, sessionVars, bot, running, action, botObject,
                 queueVars, workerVars>>

BotStep == LoopTest \/ Decide \/ Lock \/ Submit \/ WakeUp

-----------------------------------------------------------------------------
(* The session's thread.                                                   *)

(* START BOT with a valid K: a new Bot, its thread started.                *)
StartBot ==
  /\ session = "ready"
  /\ ~ bot
  /\ bot' = TRUE
  /\ running' = TRUE
  /\ thread' = "top"
  /\ UNCHANGED <<price, usd, btc, sessionVars, action, botObject, queueVars, workerVars>>

(* The poll made after each reception while there is a bot: it decides     *)
(* like the bot's thread, on the same object ...                           *)
Poll ==
  /\ session = "ready"
  /\ bot
  /\ history' = History
  /\ decided' = Decision(History)
  /\ session' = IF decided' = "HOLD" THEN "ready" ELSE "submitting"
  /\ UNCHANGED <<price, walletVars, bot, threadVars, position, entryPrice, queueVars,
                 workerVars>>

(* ... and submits.                                                        *)
SubmitPolled ==
  /\ session = "submitting"
  /\ AddRequests(OrderFor(decided))
  /\ decided' = "HOLD"
  /\ session' = "ready"
  /\ UNCHANGED <<price, walletVars, bot, threadVars, botObject, workerVars>>

(* BUY or SELL typed by the client, refused while there is a bot: any      *)
(* share of what the wallet holds.                                         *)
ManualOrder ==
  /\ session = "ready"
  /\ ~ bot
  /\ \/ /\ price > 0
        /\ \E q \in 1 .. usd : AddRequests(<<[type |-> "BUY", quantity |-> q]>>)
     \/ \E q \in 1 .. btc : AddRequests(<<[type |-> "SELL", quantity |-> q]>>)
  /\ UNCHANGED <<price, walletVars, sessionVars, bot, threadVars, botObject, workerVars>>

(* STOP BOT: stop() clears running ...                                     *)
StopBot ==
  /\ session = "ready"
  /\ bot
  /\ running' = FALSE
  /\ session' = "joining"
  /\ UNCHANGED <<price, walletVars, decided, bot, thread, action, botObject, queueVars,
                 workerVars>>

NoBot ==
  /\ bot' = FALSE
  /\ thread' = "off"
  /\ action' = "HOLD"
  /\ history' = << >>
  /\ position' = "NONE"
  /\ entryPrice' = 0

(* Mutant: the bot is destroyed without its thread being joined.           *)
NoJoin ==
  /\ session = "joining"
  /\ session' = "ready"
  /\ bot' = FALSE
  /\ history' = << >>
  /\ position' = "NONE"
  /\ entryPrice' = 0
  /\ UNCHANGED <<price, usd, btc, decided, threadVars, queueVars, workerVars>>

(* ... joins the thread, and the pointer is reset: the Bot is destroyed.   *)
JoinBot ==
  /\ session = "joining"
  /\ thread = "exited"
  /\ session' = "ready"
  /\ NoBot
  /\ UNCHANGED <<price, usd, btc, decided, running, queueVars, workerVars>>

(* The client quits or its connection is lost: the thread ends and leaves  *)
(* everything else as it is, the bot included.                             *)
Leave ==
  /\ session = "ready"
  /\ session' = "left"
  /\ UNCHANGED <<price, walletVars, decided, bot, threadVars, botObject, queueVars,
                 workerVars>>

SessionStep == SubmitPolled \/ JoinBot

-----------------------------------------------------------------------------
(* The server stops: ClientSession::stop, which does not stop the bot ...  *)
StopSession ==
  /\ session = "ready"
  /\ session' = "stopped"
  /\ UNCHANGED <<price, walletVars, decided, bot, threadVars, botObject, queueVars,
                 workerVars>>

(* ... then TransactionQueue::stop, which drains the queue ...             *)
StopQueue ==
  /\ session \in {"left", "stopped"}
  /\ queueOn
  /\ orders = << >>
  /\ worker = "idle"
  /\ queueOn' = FALSE
  /\ UNCHANGED <<price, walletVars, sessionVars, bot, threadVars, botObject, orders,
                 workerVars>>

(* ... then ~Server drops the session.  The thread of a session whose      *)
(* client left was never joined: destroying it ends the process.  If the   *)
(* bot's thread holds a reference, the session lives on until it lets go.  *)
DropSession ==
  /\ session \in {"left", "stopped"}
  /\ ~ queueOn
  /\ IF session = "left"
     THEN Dies /\ UNCHANGED running
     ELSE /\ session' = "dropped"
          /\ running' = (running /\ thread = "submitting")
          /\ UNCHANGED <<thread, worker>>
  /\ UNCHANGED <<price, walletVars, decided, bot, action, botObject, queueVars, result>>

(* ~Bot, in ~ClientSession: stop() has cleared running, and joins.         *)
Destroyed ==
  /\ session = "dropped"
  /\ thread \in {"off", "exited"}
  /\ session' = "gone"
  /\ NoBot
  /\ UNCHANGED <<price, usd, btc, decided, running, queueVars, workerVars>>

-----------------------------------------------------------------------------
(* The queue's worker.                                                     *)

(* Mutant: the funds are not checked again when the order is executed.     *)
CoveredWhenAsked(o) == TRUE

Covered(o) == IF o.type = "BUY" THEN usd >= o.quantity ELSE btc >= o.quantity

(* An order is executed if the wallet covers it; a BUY may fail although   *)
(* the dollars are there, when the price has risen since the order.  The   *)
(* orders of a session that was stopped fail without being notified.       *)
Execute ==
  LET o == Head(orders)
  IN  /\ worker = "idle"
      /\ orders # << >>
      /\ orders' = Tail(orders)
      /\ \/ /\ session # "stopped"
            /\ price > 0
            /\ Covered(o)
            /\ usd' = IF o.type = "BUY" THEN usd - o.quantity ELSE usd + o.quantity
            /\ btc' = IF o.type = "BUY" THEN btc + o.quantity ELSE btc - o.quantity
            /\ result' = [type |-> o.type, completed |-> TRUE, price |-> price]
            /\ worker' = "executed"
         \/ /\ session # "stopped"
            /\ ~ Covered(o) \/ price = 0 \/ o.type = "BUY"
            /\ result' = [type |-> o.type, completed |-> FALSE, price |-> price]
            /\ worker' = "executed"
            /\ UNCHANGED <<usd, btc>>
         \/ /\ session = "stopped"
            /\ UNCHANGED <<usd, btc, worker, result>>
      /\ UNCHANGED <<price, sessionVars, bot, threadVars, botObject, queueOn>>

(* applyTransactionRequest: if (bot) ...                                   *)
CheckBot ==
  /\ worker = "executed"
  /\ IF bot THEN worker' = "checked" /\ UNCHANGED result
            ELSE worker' = "idle" /\ result' = NoResult
  /\ UNCHANGED <<price, walletVars, sessionVars, bot, threadVars, botObject, queueVars>>

(* Mutant: an order that failed moves the position too.                    *)
TransactionAttempted ==
  \/ /\ result.type = "BUY" /\ position = "NONE"
     /\ position' = "LONG"
     /\ entryPrice' = result.price
  \/ /\ result.type = "SELL" /\ position = "LONG"
     /\ position' = "NONE"
     /\ entryPrice' = 0
  \/ /\ (result.type = "BUY") = (position = "LONG")
     /\ UNCHANGED <<position, entryPrice>>

(* notifyTransactionCompleted: whoever ordered it, a completed BUY opens   *)
(* the position and a completed SELL closes it.                            *)
TransactionCompleted ==
  \/ /\ result.completed /\ result.type = "BUY" /\ position = "NONE"
     /\ position' = "LONG"
     /\ entryPrice' = result.price
  \/ /\ result.completed /\ result.type = "SELL" /\ position = "LONG"
     /\ position' = "NONE"
     /\ entryPrice' = 0
  \/ /\ result.completed => (result.type = "BUY") = (position = "LONG")
     /\ UNCHANGED <<position, entryPrice>>

(* ... bot->notifyTransactionCompleted(tx).  The pointer is read again     *)
(* without a lock: a Bot that STOP BOT destroyed in between is called all  *)
(* the same, which ends the process or, if the memory still reads as       *)
(* before, has no effect.                                                  *)
Notify ==
  /\ worker = "checked"
  /\ result' = NoResult
  /\ \/ /\ bot
        /\ TransactionCompleted
        /\ worker' = "idle"
        /\ UNCHANGED <<session, thread>>
     \/ /\ ~ bot
        /\ worker' = "idle"
        /\ UNCHANGED <<position, entryPrice, session, thread>>
     \/ /\ ~ bot
        /\ Dies
        /\ UNCHANGED <<position, entryPrice>>
  /\ UNCHANGED <<price, walletVars, decided, bot, running, action, history, queueVars>>

WorkerStep == Execute \/ CheckBot \/ Notify

ServerStep == StopSession \/ StopQueue \/ DropSession \/ Destroyed

Next ==
  \/ Publish \/ BotStep \/ WorkerStep \/ SessionStep \/ ServerStep
  \/ StartBot \/ Poll \/ ManualOrder \/ StopBot \/ Leave

Spec == Init /\ [][Next]_vars

(* The threads run: the bot's, the session's when it is in a command, and  *)
(* the worker.  Nobody has to start or stop anything.                      *)
Fairness ==
  /\ WF_vars(BotStep)
  /\ WF_vars(SessionStep)
  /\ WF_vars(WorkerStep)
  /\ WF_vars(Destroyed)

FairSpec == Spec /\ Fairness

-----------------------------------------------------------------------------
(* A bot that believes it is in position has crypto to sell: the position  *)
(* follows the wallet although any order of the client moves it, whichever *)
(* thread and whichever bot it came from, except between the execution of  *)
(* a SELL and its notification.                                            *)
LongHoldsCrypto ==
  position = "LONG" =>
    \/ btc > 0
    \/ worker # "idle" /\ result.type = "SELL" /\ result.completed

(* Once STOP BOT has returned no order of that bot enters the queue: only  *)
(* the orders already waiting are executed.                                *)
StoppedBotIsSilent ==
  [][(~ bot /\ Len(orders') > Len(orders)) => ManualOrder]_vars

(* Bot::stop returns.  In STOP BOT the join of the bot's thread is not     *)
(* held up by the worker, the queue or the mutex; and a bot that was left  *)
(* running ends when its session is destroyed, or takes the process with   *)
(* it.                                                                     *)
JoinsReturn ==
  /\ (session = "joining") ~> session \in {"ready", "dead"}
  /\ (session = "dropped") ~> session \in {"gone", "dead"}
=============================================================================
