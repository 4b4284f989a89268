-------------------------- MODULE TransactionQueue --------------------------
(***************************************************************************)
(* src/code/TransactionQueue.cpp with the parts of Wallet.cpp and          *)
(* ClientSession.cpp it calls: a queue of orders fed by session and bot    *)
(* threads, one worker thread that executes them against the clients'      *)
(* wallets, the server thread that starts and stops the worker, and the    *)
(* threads that read a wallet while the worker changes it.                 *)
(*                                                                         *)
(* Threads and their control points                                        *)
(*   worker   the thread of process() / processRequest(); its value is the *)
(*            point it has reached:                                        *)
(*              off        not started yet                                 *)
(*              test       holds mtx, about to evaluate the wait predicate *)
(*              parking    predicate false, mtx still held by cv.wait      *)
(*              asleep     waiting on cv, mtx released                     *)
(*              lookup .. notify   inside processRequest, in this order:   *)
(*                lookup price decide debit credit save append log notify  *)
(*              exited, joined     process() has returned / was joined     *)
(*   caller   per session or bot thread: idle, inside addRequest (pushing, *)
(*            then signalling), or inside SHOW WALLET (reading, shown)     *)
(*   stopper  the server thread in stop(): idle, signalling, joining, done *)
(* A critical section that nobody can observe half way is one step; mtx is *)
(* held across steps only while the worker is "parking".  walletMutex is   *)
(* held by the worker from "decide" to "append"; no other thread of the    *)
(* program ever locks it.                                                  *)
(***************************************************************************)
EXTENDS Orders, FiniteSets

CONSTANTS
  BotClients,   \* clients that also have a bot thread submitting orders
  Viewers,      \* clients that may send SHOW WALLET
  MaxRequests   \* bound: how many orders are pushed in a behaviour

ASSUME QueueAssumption ==
  /\ BotClients \subseteq Clients
  /\ Viewers \subseteq Clients
  /\ MaxRequests \in Nat

Callers == (Clients \X {"session"}) \cup (BotClients \X {"bot"})

VARIABLES
  running,     \* the atomic<bool> running
  worker,      \* control point of the worker thread
  queue,       \* the std::queue of requests
  sessionMap,  \* per client: none, registered or removed
  botOn,       \* per client: its session has a bot, whose thread runs
  job,         \* << >> or the request processRequest is working on
  found,       \* processRequest holds a session and a wallet
  unitPrice,   \* its local unitPrice
  outcome,     \* its local status and failureReason, PENDING at first
  wallet,      \* the balances of each client's Wallet object
  history,     \* its transactionHistory
  file,        \* what the wallet file on disk holds; whole (auxiliary) is
               \* FALSE if its last save failed after emptying it
  csv,         \* transactions passed to logTransactionToCSV (which skips
               \* those it cannot write; the program never reads the log)
  results,     \* per client: transactions passed to applyTransactionRequest
  price,       \* the market price, 0 before the first one is fetched
  caller,      \* control point of each session and bot thread
  asked,       \* the order each of them is submitting, << >> if none
  view,        \* the two figures a SHOW WALLET has read so far
  stopper,     \* control point of the thread in stop()
  accepted,    \* auxiliary: every order pushed so far, in order
  dueAtStop    \* auxiliary: how many had been pushed when stop() took mtx

requestVars == <<job, found, unitPrice, outcome>>
walletVars  == <<wallet, history, file>>
outputVars  == <<csv, results>>
callerVars  == <<caller, asked, view>>
serverVars  == <<sessionMap, botOn, price>>
stopVars    == <<running, stopper, dueAtStop>>
feedVars    == <<queue, accepted>>

vars == <<running, worker, queue, sessionMap, botOn, job, found, unitPrice,
          outcome, wallet, history, file, csv, results, price, caller, asked, view, stopper,
          accepted, dueAtStop>>

Processing == {"lookup", "price", "decide", "debit", "credit", "save",
               "append", "log", "notify"}

WorkerPoints ==
  Processing \cup {"off", "test", "parking", "asleep", "exited", "joined"}

AtMostOne(S) == {<< >>} \cup {<<x>> : x \in S}

Files == [account : {s \in Seq(Account) : Len(s) <= 1}, history : Seq(Transaction),
          whole : BOOLEAN]

FirstOf(s, n) == SubSeq(s, 1, n)

(* What saveToFile leaves when it has written everything ...               *)
Written(a, h) == [account |-> <<a>>, history |-> h, whole |-> TRUE]

(* ... and when a write or the close fails before that: the open has       *)
(* emptied the file, and it holds what was written first.  A line cut in   *)
(* the middle counts as not written, the two balances as one line.         *)
Unfinished(a, h) ==
  {[account |-> << >>, history |-> << >>, whole |-> FALSE]} \cup
  {[account |-> <<a>>, history |-> FirstOf(h, m), whole |-> FALSE] : m \in 0..Len(h)-1}

NoView == [usd |-> 0, btc |-> 0]

TypeOK ==
  /\ running \in BOOLEAN
  /\ worker \in WorkerPoints
  /\ queue \in Seq(Order)
  /\ sessionMap \in [Clients -> {"none", "registered", "removed"}]
  /\ botOn \in [Clients -> BOOLEAN]
  /\ job \in AtMostOne(Order)
  /\ found \in BOOLEAN
  /\ unitPrice \in Prices
  /\ outcome \in Outcomes \cup {"PENDING"}
  /\ wallet \in [Clients -> Account]
  /\ history \in [Clients -> Seq(Transaction)]
  /\ file \in [Clients -> Files]
  /\ csv \in Seq(Transaction)
  /\ results \in [Clients -> Seq(Transaction)]
  /\ price \in Prices
  /\ caller \in [Callers -> {"idle", "pushing", "signalling", "reading", "shown"}]
  /\ asked \in [Callers -> AtMostOne(Order)]
  /\ view \in [Clients -> Account]
  /\ stopper \in {"idle", "signalling", "joining", "done"}
  /\ accepted \in Seq(Order)
  /\ dueAtStop \in Nat

Init ==
  /\ running = FALSE
  /\ worker = "off"
  /\ queue = << >>
  /\ sessionMap = [c \in Clients |-> "none"]
  /\ botOn = [c \in Clients |-> FALSE]
  /\ job = << >>
  /\ found = FALSE
  /\ unitPrice = 0
  /\ outcome = "PENDING"
  /\ wallet = InitialAccount
  /\ history = [c \in Clients |-> << >>]
  /\ file = [c \in Clients |-> Written(InitialAccount[c], << >>)]
  /\ csv = << >>
  /\ results = [c \in Clients |-> << >>]
  /\ price = 0
  /\ caller = [k \in Callers |-> "idle"]
  /\ asked = [k \in Callers |-> << >>]
  /\ view = [c \in Clients |-> NoView]
  /\ stopper = "idle"
  /\ accepted = << >>
  /\ dueAtStop = 0

-----------------------------------------------------------------------------
(* The server thread: start(), stop(), and the registration of sessions.   *)

MtxFree == worker # "parking"

Start ==
  /\ ~ running
  /\ worker = "off"
  /\ running' = TRUE
  /\ worker' = "test"
  /\ UNCHANGED <<stopper, dueAtStop, requestVars, walletVars, outputVars,
                 callerVars, serverVars, feedVars>>

(* Mutant: running is cleared without mtx.                                 *)
StopRequestUnlocked ==
  /\ stopper = "idle"
  /\ running
  /\ running' = FALSE
  /\ stopper' = "signalling"
  /\ dueAtStop' = Len(accepted)
  /\ UNCHANGED <<worker, requestVars, walletVars, outputVars, callerVars,
                 serverVars, feedVars>>

(* stop(): running is cleared under mtx ...                                *)
StopRequest ==
  /\ stopper = "idle"
  /\ running
  /\ MtxFree
  /\ running' = FALSE
  /\ stopper' = "signalling"
  /\ dueAtStop' = Len(accepted)
  /\ UNCHANGED <<worker, requestVars, walletVars, outputVars, callerVars,
                 serverVars, feedVars>>

Awoken == IF worker = "asleep" THEN "test" ELSE worker

(* ... then notify_all, outside it ...                                     *)
StopNotify ==
  /\ stopper = "signalling"
  /\ stopper' = "joining"
  /\ worker' = Awoken
  /\ UNCHANGED <<running, dueAtStop, requestVars, walletVars, outputVars,
                 callerVars, serverVars, feedVars>>

(* ... then join.                                                          *)
StopJoin ==
  /\ stopper = "joining"
  /\ worker = "exited"
  /\ stopper' = "done"
  /\ worker' = "joined"
  /\ UNCHANGED <<running, dueAtStop, requestVars, walletVars, outputVars,
                 callerVars, serverVars, feedVars>>

(* HandleClient registers a session before it starts the session's thread; *)
(* a client gets one session per run of the server.                        *)
RegisterSession(c) ==
  /\ sessionMap[c] = "none"
  /\ worker # "off"
  /\ sessionMap' = [sessionMap EXCEPT ![c] = "registered"]
  /\ UNCHANGED <<worker, botOn, price, stopVars, requestVars, walletVars,
                 outputVars, callerVars, feedVars>>

(* ClientSession::stop, which has joined the session's thread before.      *)
UnregisterSession(c) ==
  /\ sessionMap[c] = "registered"
  /\ caller[<<c, "session">>] = "idle"
  /\ sessionMap' = [sessionMap EXCEPT ![c] = "removed"]
  /\ UNCHANGED <<worker, botOn, price, stopVars, requestVars, walletVars,
                 outputVars, callerVars, feedVars>>

(* START BOT and STOP BOT, in the session's thread; STOP BOT joins the     *)
(* bot's thread.  ClientSession::stop does neither: a bot outlives its     *)
(* session.                                                                *)
StartBot(c) ==
  /\ c \in BotClients
  /\ sessionMap[c] = "registered"
  /\ caller[<<c, "session">>] = "idle"
  /\ ~ botOn[c]
  /\ botOn' = [botOn EXCEPT ![c] = TRUE]
  /\ UNCHANGED <<worker, sessionMap, price, stopVars, requestVars, walletVars,
                 outputVars, callerVars, feedVars>>

StopBot(c) ==
  /\ botOn[c]
  /\ sessionMap[c] = "registered"
  /\ caller[<<c, "session">>] = "idle"
  /\ caller[<<c, "bot">>] = "idle"
  /\ botOn' = [botOn EXCEPT ![c] = FALSE]
  /\ UNCHANGED <<worker, sessionMap, price, stopVars, requestVars, walletVars,
                 outputVars, callerVars, feedVars>>

(* The price thread publishes a new price; it never publishes 0.           *)
PublishPrice ==
  /\ price' \in Prices \ {0}
  /\ UNCHANGED <<worker, sessionMap, botOn, stopVars, requestVars, walletVars,
                 outputVars, callerVars, feedVars>>

-----------------------------------------------------------------------------
(* The threads that submit orders.                                         *)

Live(k) == IF k[2] = "session" THEN sessionMap[k[1]] = "registered"
                               ELSE botOn[k[1]]

(* The orders a caller may compute from the balance and the price it reads *)
(* (no lock is held; the two reads are taken as one step).  While there is *)
(* no bot a session sells any share of its crypto, or buys with any share  *)
(* of its dollars before the fee.  While there is one, manual orders are   *)
(* refused and it is the bot's decisions that are submitted, by the bot's  *)
(* thread and by the poll in the session's: all of the crypto, or a tenth  *)
(* of the dollars (BOT_INVESTMENT_PERCENTAGE).                             *)
MayAsk(o) ==
  LET a    == wallet[o.client]
      cost == o.quantity * price * FeeDen
  IN  \/ /\ o.type = "BUY"
         /\ price > 0
         /\ (IF botOn[o.client] THEN 10 * cost ELSE cost) <= a.usd
      \/ /\ o.type = "SELL"
         /\ IF botOn[o.client] THEN o.quantity = a.btc ELSE o.quantity <= a.btc

Pushing == {k \in Callers : caller[k] = "pushing"}

(* addRequest reads running without taking mtx; if it is false the order   *)
(* is dropped and addRequest, a void function, returns.                    *)
AddRequest(k, o) ==
  /\ caller[k] = "idle"
  /\ o.client = k[1]
  /\ Live(k)
  /\ MayAsk(o)
  /\ Len(accepted) + Cardinality(Pushing) < MaxRequests
  /\ \/ /\ running
        /\ caller' = [caller EXCEPT ![k] = "pushing"]
        /\ asked' = [asked EXCEPT ![k] = <<o>>]
     \/ /\ ~ running
        /\ UNCHANGED <<caller, asked>>
  /\ UNCHANGED <<worker, view, stopVars, requestVars, walletVars, outputVars,
                 serverVars, feedVars>>

(* Mutant: the push is made without mtx.                                   *)
PushUnlocked(k) ==
  /\ caller[k] = "pushing"
  /\ queue' = Append(queue, asked[k][1])
  /\ accepted' = Append(accepted, asked[k][1])
  /\ caller' = [caller EXCEPT ![k] = "signalling"]
  /\ asked' = [asked EXCEPT ![k] = << >>]
  /\ UNCHANGED <<worker, view, stopVars, requestVars, walletVars, outputVars,
                 serverVars>>

(* The push, under mtx.                                                    *)
Push(k) ==
  /\ caller[k] = "pushing"
  /\ MtxFree
  /\ queue' = Append(queue, asked[k][1])
  /\ accepted' = Append(accepted, asked[k][1])
  /\ caller' = [caller EXCEPT ![k] = "signalling"]
  /\ asked' = [asked EXCEPT ![k] = << >>]
  /\ UNCHANGED <<worker, view, stopVars, requestVars, walletVars, outputVars,
                 serverVars>>

(* notify_one, outside mtx.                                                *)
NotifyOne(k) ==
  /\ caller[k] = "signalling"
  /\ worker' = Awoken
  /\ caller' = [caller EXCEPT ![k] = "idle"]
  /\ UNCHANGED <<asked, view, stopVars, requestVars, walletVars, outputVars,
                 serverVars, feedVars>>

(* SHOW WALLET: two calls of getBalance, neither under walletMutex, then   *)
(* the reply.                                                              *)
ReadUsd(c) ==
  /\ c \in Viewers
  /\ caller[<<c, "session">>] = "idle"
  /\ Live(<<c, "session">>)
  /\ view' = [view EXCEPT ![c].usd = wallet[c].usd]
  /\ caller' = [caller EXCEPT ![<<c, "session">>] = "reading"]
  /\ UNCHANGED <<worker, asked, stopVars, requestVars, walletVars, outputVars,
                 serverVars, feedVars>>

ReadBtc(c) ==
  /\ caller[<<c, "session">>] = "reading"
  /\ view' = [view EXCEPT ![c].btc = wallet[c].btc]
  /\ caller' = [caller EXCEPT ![<<c, "session">>] = "shown"]
  /\ UNCHANGED <<worker, asked, stopVars, requestVars, walletVars, outputVars,
                 serverVars, feedVars>>

Reply(c) ==
  /\ caller[<<c, "session">>] = "shown"
  /\ view' = [view EXCEPT ![c] = NoView]
  /\ caller' = [caller EXCEPT ![<<c, "session">>] = "idle"]
  /\ UNCHANGED <<worker, asked, stopVars, requestVars, walletVars, outputVars,
                 serverVars, feedVars>>

-----------------------------------------------------------------------------
(* process(): the loop of the worker thread.                               *)

(* The predicate of cv.wait is false: the worker still holds mtx ...       *)
Park ==
  /\ worker = "test"
  /\ queue = << >>
  /\ running
  /\ worker' = "parking"
  /\ UNCHANGED <<stopVars, requestVars, walletVars, outputVars, callerVars,
                 serverVars, feedVars>>

(* ... until it sleeps.                                                    *)
FallAsleep ==
  /\ worker = "parking"
  /\ worker' = "asleep"
  /\ UNCHANGED <<stopVars, requestVars, walletVars, outputVars, callerVars,
                 serverVars, feedVars>>

SpuriousWakeup ==
  /\ worker = "asleep"
  /\ worker' = "test"
  /\ UNCHANGED <<stopVars, requestVars, walletVars, outputVars, callerVars,
                 serverVars, feedVars>>

(* Mutant: front() without pop().                                          *)
TakeWithoutPop ==
  /\ worker = "test"
  /\ queue # << >>
  /\ job' = <<Head(queue)>>
  /\ worker' = "lookup"
  /\ UNCHANGED <<queue, found, unitPrice, outcome, accepted, stopVars,
                 walletVars, outputVars, callerVars, serverVars>>

Take ==
  /\ worker = "test"
  /\ queue # << >>
  /\ job' = <<Head(queue)>>
  /\ queue' = Tail(queue)
  /\ worker' = "lookup"
  /\ UNCHANGED <<found, unitPrice, outcome, accepted, stopVars, walletVars,
                 outputVars, callerVars, serverVars>>

(* Mutant: the loop is left as soon as running is false.                   *)
ExitAtOnce ==
  /\ worker = "test"
  /\ ~ running
  /\ worker' = "exited"
  /\ UNCHANGED <<stopVars, requestVars, walletVars, outputVars, callerVars,
                 serverVars, feedVars>>

Exit ==
  /\ worker = "test"
  /\ ~ running
  /\ queue = << >>
  /\ worker' = "exited"
  /\ UNCHANGED <<stopVars, requestVars, walletVars, outputVars, callerVars,
                 serverVars, feedVars>>

-----------------------------------------------------------------------------
(* processRequest(), for the order job[1].                                 *)

Ord    == job[1]
Client == Ord.client

(* Mutant: a missing session does not set the status to FAILED.            *)
LookupKeepsPending ==
  /\ worker = "lookup"
  /\ found' = (sessionMap[Client] = "registered")
  /\ worker' = IF found' THEN "price" ELSE "log"
  /\ UNCHANGED <<job, outcome, unitPrice, stopVars, walletVars, outputVars,
                 callerVars, serverVars, feedVars>>

(* The session is looked up under sessionMapMtx and kept alive from here   *)
(* to the end of the function, whatever happens to the map.                *)
Lookup ==
  /\ worker = "lookup"
  /\ \/ /\ sessionMap[Client] = "registered"
        /\ found' = TRUE
        /\ worker' = "price"
        /\ UNCHANGED outcome
     \/ /\ sessionMap[Client] # "registered"
        /\ found' = FALSE
        /\ outcome' = "NoSession"
        /\ worker' = "log"
  /\ UNCHANGED <<job, unitPrice, stopVars, walletVars, outputVars, callerVars,
                 serverVars, feedVars>>

(* Global::getPrice, before walletMutex is locked.                         *)
ReadPrice ==
  /\ worker = "price"
  /\ unitPrice' = price
  /\ worker' = "decide"
  /\ UNCHANGED <<job, found, outcome, stopVars, walletVars, outputVars,
                 callerVars, serverVars, feedVars>>

(* Mutant: a refusal is not put in the history.                            *)
DecideForgetsRefusals ==
  /\ worker = "decide"
  /\ LET failure == IF unitPrice <= 0 THEN "BadPrice" ELSE "NoFunds"
         covered == unitPrice > 0 /\ Covered(Ord, unitPrice, wallet[Client])
     IN  /\ outcome' = IF covered THEN "COMPLETED" ELSE failure
         /\ worker' = IF covered THEN "debit" ELSE "log"
  /\ UNCHANGED <<job, found, unitPrice, stopVars, walletVars, outputVars,
                 callerVars, serverVars, feedVars>>

(* Under walletMutex: the price just read is checked, then the funds.  An  *)
(* invalid price skips everything that follows under the mutex.            *)
Decide ==
  /\ worker = "decide"
  /\ \/ /\ unitPrice <= 0
        /\ outcome' = "BadPrice"
        /\ worker' = "log"
     \/ /\ unitPrice > 0
        /\ Covered(Ord, unitPrice, wallet[Client])
        /\ outcome' = "COMPLETED"
        /\ worker' = "debit"
     \/ /\ unitPrice > 0
        /\ ~ Covered(Ord, unitPrice, wallet[Client])
        /\ outcome' = "NoFunds"
        /\ worker' = "append"
  /\ UNCHANGED <<job, found, unitPrice, stopVars, walletVars, outputVars,
                 callerVars, serverVars, feedVars>>

(* Mutant: the wallet is saved by each updateBalance.                      *)
DebitThenSave ==
  /\ worker = "debit"
  /\ wallet' = [wallet EXCEPT ![Client] = Debited(Ord, unitPrice, @)]
  /\ file' = [file EXCEPT ![Client] = Written(wallet'[Client], history[Client])]
  /\ worker' = "credit"
  /\ UNCHANGED <<history, stopVars, requestVars, outputVars, callerVars,
                 serverVars, feedVars>>

(* Mutant: a BUY is debited by its value, without the fee.                 *)
DebitWithoutFee ==
  /\ worker = "debit"
  /\ wallet' = [wallet EXCEPT ![Client] =
       IF Ord.type = "BUY" THEN [@ EXCEPT !.usd = @ - Ord.quantity * unitPrice * FeeDen]
                           ELSE Debited(Ord, unitPrice, @)]
  /\ worker' = "credit"
  /\ UNCHANGED <<history, file, stopVars, requestVars, outputVars, callerVars,
                 serverVars, feedVars>>

(* The first updateBalance ...                                             *)
Debit ==
  /\ worker = "debit"
  /\ wallet' = [wallet EXCEPT ![Client] = Debited(Ord, unitPrice, @)]
  /\ worker' = "credit"
  /\ UNCHANGED <<history, file, stopVars, requestVars, outputVars, callerVars,
                 serverVars, feedVars>>

(* Mutant: the market price is read again for the second update.           *)
CreditAtNewPrice ==
  /\ worker = "credit"
  /\ wallet' = [wallet EXCEPT ![Client] = Credited(Ord, price, @)]
  /\ worker' = "save"
  /\ UNCHANGED <<history, file, stopVars, requestVars, outputVars, callerVars,
                 serverVars, feedVars>>

(* Mutant: a completed trade is not put in the history.                    *)
CreditForgetsTrade ==
  /\ worker = "credit"
  /\ wallet' = [wallet EXCEPT ![Client] = Credited(Ord, unitPrice, @)]
  /\ worker' = "log"
  /\ UNCHANGED <<history, file, stopVars, requestVars, outputVars, callerVars,
                 serverVars, feedVars>>

(* ... and the second.                                                     *)
Credit ==
  /\ worker = "credit"
  /\ wallet' = [wallet EXCEPT ![Client] = Credited(Ord, unitPrice, @)]
  /\ worker' = "save"
  /\ UNCHANGED <<history, file, stopVars, requestVars, outputVars, callerVars,
                 serverVars, feedVars>>

(* saveToFile, before the transaction is in the history.  It returns false *)
(* when the file cannot be opened, which leaves the file as it was, and    *)
(* when a write or the close fails; the worker ignores what it returns.    *)
Save ==
  /\ worker = "save"
  /\ \/ file' = [file EXCEPT ![Client] = Written(wallet[Client], history[Client])]
     \/ \E part \in Unfinished(wallet[Client], history[Client]) :
          file' = [file EXCEPT ![Client] = part]
     \/ UNCHANGED file
  /\ worker' = "append"
  /\ UNCHANGED <<wallet, history, stopVars, requestVars, outputVars,
                 callerVars, serverVars, feedVars>>

Result == [order |-> Ord, price |-> unitPrice, outcome |-> outcome]

(* The Transaction is built and addTransaction puts it in the history;     *)
(* walletMutex is released.                                                *)
AddTransaction ==
  /\ worker = "append"
  /\ history' = [history EXCEPT ![Client] = Append(@, Result)]
  /\ worker' = "log"
  /\ UNCHANGED <<wallet, file, stopVars, requestVars, outputVars, callerVars,
                 serverVars, feedVars>>

(* logTransactionToCSV, with the Transaction built under the mutex or, if  *)
(* there is none, with a FAILED one built now.                             *)
LogToCsv ==
  /\ worker = "log"
  /\ csv' = Append(csv, Result)
  /\ worker' = "notify"
  /\ UNCHANGED <<results, stopVars, requestVars, walletVars, callerVars,
                 serverVars, feedVars>>

(* Mutant: the session is looked up again before it is told.               *)
NotifyIfStillThere ==
  /\ worker = "notify"
  /\ results' = IF sessionMap[Client] = "registered"
                THEN [results EXCEPT ![Client] = Append(@, Result)] ELSE results
  /\ job' = << >>
  /\ found' = FALSE
  /\ unitPrice' = 0
  /\ outcome' = "PENDING"
  /\ worker' = "test"
  /\ UNCHANGED <<csv, stopVars, walletVars, callerVars, serverVars, feedVars>>

(* applyTransactionRequest on the session found at the start, if any; then *)
(* the locals go out of scope.                                             *)
NotifySession ==
  /\ worker = "notify"
  /\ results' = IF found THEN [results EXCEPT ![Client] = Append(@, Result)]
                         ELSE results
  /\ job' = << >>
  /\ found' = FALSE
  /\ unitPrice' = 0
  /\ outcome' = "PENDING"
  /\ worker' = "test"
  /\ UNCHANGED <<csv, stopVars, walletVars, callerVars, serverVars, feedVars>>

ProcessRequest ==
  \/ Lookup \/ ReadPrice \/ Decide \/ Debit \/ Credit \/ Save
  \/ AddTransaction \/ LogToCsv \/ NotifySession

-----------------------------------------------------------------------------
Process == Park \/ FallAsleep \/ Take \/ Exit \/ ProcessRequest

Stopping == StopRequest \/ StopNotify \/ StopJoin

Submit(k) == (\E o \in Order : AddRequest(k, o)) \/ Push(k) \/ NotifyOne(k)

Show(c) == ReadUsd(c) \/ ReadBtc(c) \/ Reply(c)

Next ==
  \/ Start
  \/ Stopping
  \/ PublishPrice
  \/ \E c \in Clients : RegisterSession(c) \/ UnregisterSession(c)
  \/ \E c \in Clients : StartBot(c) \/ StopBot(c) \/ Show(c)
  \/ \E k \in Callers : Submit(k)
  \/ SpuriousWakeup
  \/ Process

Spec == Init /\ [][Next]_vars

(* A thread that can run is eventually scheduled.  Nobody has to call      *)
(* start, stop, addRequest or SHOW WALLET, sessions need not come or go,   *)
(* the price need not move and no wake-up is spurious by obligation.       *)
FairSpec ==
  /\ Spec
  /\ WF_vars(Process)
  /\ WF_vars(StopNotify)
  /\ WF_vars(StopJoin)
  /\ \A k \in Callers : WF_vars(Push(k) \/ NotifyOne(k))

-----------------------------------------------------------------------------
(* Safety.                                                                 *)

(* No balance is ever negative, not even between the two updates of one    *)
(* transaction: the check made under walletMutex covers the fee and        *)
(* nobody else spends between the check and the debit.                     *)
NoOverdraft == \A c \in Clients : wallet[c].usd >= 0 /\ wallet[c].btc >= 0

(* The order being processed that has not reached the log yet.             *)
Unlogged == IF worker = "notify" THEN << >> ELSE job

OrdersOf(log) == [i \in 1..Len(log) |-> log[i].order]

LoggedOrders == OrdersOf(csv)

(* Every order pushed is logged exactly once, in the order of the pushes,  *)
(* whichever threads pushed them and however they end.                     *)
FifoOnce == LoggedOrders \o Unlogged \o queue = accepted

(* When process() returns, every order pushed before stop() took mtx has   *)
(* been carried through to the log: stopping drains the queue.             *)
DrainedAtExit == worker \in {"exited", "joined"} => Len(csv) >= dueAtStop

ReachedAccount(t) == t.outcome \in {"COMPLETED", "NoFunds"}

(* A client's history is the part of the global log that reached its       *)
(* account, in the same order, the transaction just appended and not yet   *)
(* logged excepted.                                                        *)
HistoryMatchesLog ==
  \A c \in Clients :
    history[c] = At(csv, {i \in 1..Len(csv) : csv[i].order.client = c
                                               /\ ReachedAccount(csv[i])})
                 \o (IF worker = "log" /\ Client = c /\ ReachedAccount(Result)
                     THEN <<Result>> ELSE << >>)

(* A session is given each of its logged results once and in order, unless *)
(* it was gone when the order was taken; never one that is not logged yet. *)
ResultsFollowLog ==
  \A c \in Clients :
    At(csv, {i \in 1..Len(csv) : csv[i].order.client = c
                                  /\ csv[i].outcome # "NoSession"})
      = results[c] \o (IF worker = "notify" /\ found /\ Client = c
                       THEN <<Result>> ELSE << >>)

(* The history of c with the COMPLETED transaction the worker is applying. *)
Book(c) ==
  IF /\ worker \in {"credit", "save", "append"}
     /\ outcome = "COMPLETED"
     /\ Client = c
  THEN Append(history[c], Result)
  ELSE history[c]

Balances(c) == Replay(c, Book(c))

(* The balances of a wallet are what its history says: replaying every     *)
(* COMPLETED transaction from the balances loaded gives exactly the        *)
(* balances held, except between the two updateBalance calls.              *)
BooksBalance ==
  \A c \in Clients :
    (worker = "credit" /\ Client = c) \/ wallet[c] = Balances(c)[Len(Book(c))]

(* What saving the n-th line of the book of c may write: the balances       *)
(* after it and, since saveToFile precedes addTransaction, the lines       *)
(* before it, all of them or the first ones.                               *)
SavesOf(c, n) ==
  LET past == FirstOf(Book(c), n - 1)
  IN  {Written(Balances(c)[n], past)} \cup Unfinished(Balances(c)[n], past)

(* Unless its last save was cut short, a wallet file holds balances the    *)
(* client really had after some trade, with all of the history before that *)
(* trade and without it; cut short, it holds the first lines of such a     *)
(* file, or nothing.  A save that fails to open the file leaves it so, one *)
(* that succeeds later repairs it.                                         *)
FileTellsThePast ==
  \A c \in Clients :
    \/ file[c] = Written(InitialAccount[c], << >>)
    \/ \E n \in 1..Len(Book(c)) :
         Book(c)[n].outcome = "COMPLETED" /\ file[c] \in SavesOf(c, n)

(* Each figure of a SHOW WALLET reply is one the client's wallet had at a  *)
(* commit point: a figure read while the worker is between its two updates *)
(* is the old one or the new one, never something else.                    *)
EachFigureIsReal ==
  \A c \in Clients :
    LET past == {Balances(c)[n] : n \in 0..Len(Book(c))}
        at   == caller[<<c, "session">>]
    IN  /\ at \in {"reading", "shown"} => \E a \in past : view[c].usd = a.usd
        /\ at = "shown" => \E a \in past : view[c].btc = a.btc

-----------------------------------------------------------------------------
(* The inductive invariant behind the theorems of TransactionQueueProofs.  *)

(* What the control point of a thread says about its locals.               *)
Control ==
  /\ worker \in Processing <=> job # << >>
  /\ worker \in Processing \ {"log", "notify"} =>
       (outcome = "PENDING" <=> worker \in {"lookup", "price", "decide"})
  /\ worker \notin Processing => outcome = "PENDING"
  /\ worker \in {"debit", "credit", "save"} => outcome = "COMPLETED"
  /\ worker = "append" => ReachedAccount([outcome |-> outcome])
  /\ worker \in {"log", "notify"} => outcome # "PENDING"
  /\ worker \in {"debit", "credit", "save", "append"} => unitPrice > 0
  /\ worker \in {"off", "exited", "joined"} => ~ running
  /\ \A k \in Callers : caller[k] = "pushing" <=> asked[k] # << >>

(* The check made under walletMutex still holds at the debit, because the  *)
(* worker is the only thread that changes a wallet.                        *)
StillCovered ==
  worker = "debit" => Covered(Ord, unitPrice, wallet[Client])

(* Stopping: what was due when stop() took mtx has been pushed before, and *)
(* a worker that has returned left nothing of it behind.                   *)
Due == dueAtStop <= Len(accepted)

IInv ==
  /\ TypeOK
  /\ Control
  /\ StillCovered
  /\ NoOverdraft
  /\ Due
  /\ FifoOnce
  /\ DrainedAtExit

-----------------------------------------------------------------------------
(* The queue implements the ledger.  The commit point of an order that     *)
(* reaches the account is addTransaction: until then its effect on the     *)
(* wallet is undone by the mapping, and the order is still pending.        *)

Uncommitted == Processing \ {"log", "notify"}

Uncredited(o, p, a) ==
  IF o.type = "BUY" THEN [a EXCEPT !.btc = @ - o.quantity]
                    ELSE [a EXCEPT !.usd = @ - SellTotal(o.quantity, p)]

Undebited(o, p, a) ==
  IF o.type = "BUY" THEN [a EXCEPT !.usd = @ + BuyTotal(o.quantity, p)]
                    ELSE [a EXCEPT !.btc = @ + o.quantity]

CommittedBalance ==
  [c \in Clients |->
     IF job = << >> \/ outcome # "COMPLETED" THEN wallet[c]
     ELSE IF Client # c THEN wallet[c]
     ELSE IF worker = "credit" THEN Undebited(Ord, unitPrice, wallet[c])
     ELSE IF worker \in {"save", "append"}
          THEN Undebited(Ord, unitPrice, Uncredited(Ord, unitPrice, wallet[c]))
     ELSE wallet[c]]

PendingOrders == IF worker \in Uncommitted THEN job \o queue ELSE queue

Abstract ==
  INSTANCE Ledger WITH balance <- CommittedBalance,
                       book    <- history,
                       pending <- PendingOrders

(* Seen through its commit points, the queue settles orders as the ledger  *)
(* does: one at a time, in order, whole, and only when covered.            *)
ImplementsLedger == Abstract!LedgerSpec

-----------------------------------------------------------------------------
(* Liveness, under FairSpec.                                               *)

(* The n-th order pushed is eventually logged, unless the queue is being   *)
(* stopped: no wake-up of the worker is lost.                              *)
Served ==
  \A n \in 1..MaxRequests :
    Len(accepted) >= n ~> Len(csv) >= n \/ stopper # "idle"

(* stop() returns: whatever the worker is doing, it sees running = false,  *)
(* drains the queue and ends.                                              *)
StopReturns == (stopper = "signalling") ~> (stopper = "done")
=============================================================================
