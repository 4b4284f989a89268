-------------------------- MODULE TradingBotProofs --------------------------
(***************************************************************************)
(* The bot, its position and its orders, for every set of prices, every    *)
(* period and coefficient, every balance and every bound on the queue.     *)
(***************************************************************************)
EXTENDS TradingBot, SequenceTheorems, TLAPS

USE BotAssumption

-----------------------------------------------------------------------------
(* What is decided and ordered.                                            *)

(* The history keeps prices that were published.                           *)
LEMMA HistoryIsPrices ==
  ASSUME history \in Seq(Prices), price \in Prices \cup {0}
  PROVE  History \in Seq(Prices)
<1>1. CASE price = 0
  BY <1>1 DEF History
<1>2. CASE price # 0
  <2> DEFINE h == Append(history, price)
  <2>1. h \in Seq(Prices) /\ Len(h) \in Nat
    BY <1>2
  <2> HIDE DEF h
  <2>2. CASE Len(h) <= Period
    BY <1>2, <2>1, <2>2 DEF History, LastOf, h
  <2>3. CASE ~ (Len(h) <= Period)
    <3>1. Len(h) - Period + 1 \in 1 .. Len(h) + 1 /\ Len(h) \in 0 .. Len(h)
      BY <2>1, <2>3
    <3>2. SubSeq(h, Len(h) - Period + 1, Len(h)) \in Seq(Prices)
      BY <2>1, <3>1
    <3> QED
      BY <1>2, <2>3, <3>2 DEF History, LastOf, Window, h
  <2> QED
    BY <2>2, <2>3
<1> QED
  BY <1>1, <1>2

LEMMA DecisionIsAction == \A h : Decision(h) \in Actions
BY DEF Decision, Actions

(* An order is for a positive quantity.                                    *)
LEMMA OrderForIsOrders ==
  ASSUME btc \in Nat
  PROVE  \A a : OrderFor(a) \in Seq(Order)
<1> SUFFICES ASSUME NEW a PROVE OrderFor(a) \in Seq(Order)
  OBVIOUS
<1>1. [type |-> "BUY", quantity |-> 1] \in Order
  BY DEF Order
<1>2. btc > 0 => [type |-> "SELL", quantity |-> btc] \in Order
  BY DEF Order
<1> QED
  BY <1>1, <1>2 DEF OrderFor

(* addRequest adds the orders at the end, or drops them.                   *)
LEMMA Added ==
  ASSUME orders \in Seq(Order), NEW s \in Seq(Order), AddRequests(s)
  PROVE  orders' \in Seq(Order) /\ queueOn' = queueOn
BY DEF AddRequests

(* The orders the client may type.                                         *)
LEMMA Typed ==
  /\ \A q \in 1 .. usd : usd \in Nat => <<[type |-> "BUY", quantity |-> q]>> \in Seq(Order)
  /\ \A q \in 1 .. btc : btc \in Nat => <<[type |-> "SELL", quantity |-> q]>> \in Seq(Order)
<1>1. ASSUME NEW n \in Nat, NEW q \in 1 .. n, NEW t \in {"BUY", "SELL"}
      PROVE  <<[type |-> t, quantity |-> q]>> \in Seq(Order)
  <2>1. [type |-> t, quantity |-> q] \in Order
    BY DEF Order
  <2> QED
    BY <2>1
<1> QED
  BY <1>1

(* The order the worker takes.                                             *)
LEMMA HeadAndTail ==
  ASSUME orders \in Seq(Order), orders # << >>
  PROVE  /\ Head(orders).type \in {"BUY", "SELL"}
         /\ Head(orders).quantity \in Nat
         /\ Head(orders).quantity >= 1
         /\ Tail(orders) \in Seq(Order)
         /\ Len(Tail(orders)) = Len(orders) - 1
<1>1. Head(orders) \in Order
  OBVIOUS
<1> QED
  BY <1>1 DEF Order

LEMMA ResultsAre ==
  \A t \in {"BUY", "SELL"}, c \in BOOLEAN, p \in Prices \cup {0} :
    /\ [type |-> t, completed |-> c, price |-> p] \in Result
    /\ [type |-> t, completed |-> c, price |-> p].type = t
    /\ [type |-> t, completed |-> c, price |-> p].completed = c
BY DEF Result

LEMMA NothingYet == << >> \in Seq(Prices) /\ << >> \in Seq(Order)
OBVIOUS

-----------------------------------------------------------------------------
(* The inductive invariant.                                                *)

(* What a BUY has bought is there until the bot is told: the worker, which *)
(* is the only one to sell, is busy with the BUY.                          *)
Bought ==
  worker \in {"executed", "checked"} /\ result.completed /\ result.type = "BUY" => btc > 0

(* When there is no bot its thread is over, its position is forgotten and  *)
(* the session has nothing of it to submit.                                *)
NothingLeft ==
  ~ bot => /\ thread = "off"
           /\ position = "NONE"
           /\ session # "submitting"

BotInv == TypeOK /\ Bought /\ LongHoldsCrypto /\ NothingLeft

(* A step that moves neither the wallet, the worker, its result nor the    *)
(* position keeps what is said of them.                                    *)
LEMMA SamePosition ==
  ASSUME BotInv, UNCHANGED <<btc, worker, result, position>>
  PROVE  Bought' /\ LongHoldsCrypto'
BY DEF BotInv, Bought, LongHoldsCrypto

(* A bot that goes takes its position along.                               *)
LEMMA PositionForgotten ==
  ASSUME BotInv, UNCHANGED <<btc, worker, result>>, position' = "NONE"
  PROVE  Bought' /\ LongHoldsCrypto'
BY DEF BotInv, Bought, LongHoldsCrypto

(* The worker dies with the process: nothing is told to the bot any more.  *)
LEMMA WorkerDies ==
  ASSUME BotInv, UNCHANGED <<btc, result, position>>, worker' = "dead"
  PROVE  Bought' /\ LongHoldsCrypto'
BY DEF BotInv, Bought, LongHoldsCrypto

(* The bot's thread.                                                       *)
LEMMA BotThreadStep == BotInv /\ BotStep => BotInv'
<1> SUFFICES ASSUME BotInv, BotStep PROVE BotInv'
  OBVIOUS
<1> USE DEF sessionVars, queueVars, workerVars, walletVars, botObject
<1>0. TypeOK /\ NothingLeft
  BY DEF BotInv
<1>1. CASE LoopTest
  <2>1. Bought' /\ LongHoldsCrypto'
    BY <1>1, SamePosition DEF LoopTest
  <2>2. TypeOK'
    BY <1>0, <1>1 DEF LoopTest, TypeOK
  <2>3. NothingLeft'
    BY <1>0, <1>1 DEF LoopTest, NothingLeft
  <2> QED
    BY <2>1, <2>2, <2>3 DEF BotInv
<1>2. CASE Decide
  <2>1. Bought' /\ LongHoldsCrypto'
    BY <1>2, SamePosition DEF Decide
  <2>2. history' \in Seq(Prices) /\ action' \in Actions
    BY <1>0, <1>2, HistoryIsPrices, DecisionIsAction DEF Decide, TypeOK
  <2>3. TypeOK'
    BY <1>0, <1>2, <2>2 DEF Decide, TypeOK
  <2>4. NothingLeft'
    BY <1>0, <1>2 DEF Decide, NothingLeft
  <2> QED
    BY <2>1, <2>3, <2>4 DEF BotInv
<1>3. CASE Lock
  <2>1. Bought' /\ LongHoldsCrypto'
    BY <1>3, SamePosition DEF Lock
  <2>2. TypeOK'
    <3>1. thread' \in {"sleeping", "submitting"}
      BY <1>3 DEF Lock
    <3>2. running' \in BOOLEAN
      <4>1. running' = FALSE \/ running' = running
        BY <1>3 DEF Lock
      <4>2. QED
        BY <1>0, <4>1 DEF TypeOK
    <3>3. UNCHANGED <<price, walletVars, sessionVars, bot, action, botObject, queueVars,
                      workerVars>>
      BY <1>3 DEF Lock
    <3>4. QED
      BY <1>0, <3>1, <3>2, <3>3, SMTT(30) DEF TypeOK
  <2>3. NothingLeft'
    BY <1>0, <1>3 DEF Lock, NothingLeft
  <2> QED
    BY <2>1, <2>2, <2>3 DEF BotInv
<1>4. CASE Submit
  <2>1. Bought' /\ LongHoldsCrypto'
    BY <1>4, SamePosition, WorkerDies DEF Submit, Dies
  <2>2. orders' \in Seq(Order) /\ queueOn' = queueOn
    BY <1>0, <1>4, OrderForIsOrders, Added DEF Submit, TypeOK
  <2>3. TypeOK'
    BY <1>0, <1>4, <2>2 DEF Submit, Dies, TypeOK, Actions
  <2>4. NothingLeft'
    BY <1>0, <1>4 DEF Submit, NothingLeft
  <2> QED
    BY <2>1, <2>3, <2>4 DEF BotInv
<1>5. CASE WakeUp
  <2>1. Bought' /\ LongHoldsCrypto'
    BY <1>5, SamePosition DEF WakeUp
  <2>2. TypeOK'
    BY <1>0, <1>5 DEF WakeUp, TypeOK
  <2>3. NothingLeft'
    BY <1>0, <1>5 DEF WakeUp, NothingLeft
  <2> QED
    BY <2>1, <2>2, <2>3 DEF BotInv
<1> QED
  BY <1>1, <1>2, <1>3, <1>4, <1>5 DEF BotStep


(* The client's commands, and the price.                                   *)
LEMMA ClientStep ==
  BotInv /\ (Publish \/ SessionStep \/ StartBot \/ Poll \/ ManualOrder \/ StopBot \/ Leave)
    => BotInv'
<1> SUFFICES ASSUME BotInv, Publish \/ SessionStep \/ StartBot \/ Poll \/ ManualOrder \/ StopBot \/ Leave
             PROVE  BotInv'
  OBVIOUS
<1> USE DEF sessionVars, queueVars, workerVars, walletVars, botObject, threadVars
<1>0. TypeOK /\ NothingLeft
  BY DEF BotInv
<1>1. CASE Publish
  <2>1. Bought' /\ LongHoldsCrypto'
    BY <1>1, SamePosition DEF Publish
  <2>2. TypeOK'
    BY <1>0, <1>1 DEF Publish, TypeOK
  <2>3. NothingLeft'
    BY <1>0, <1>1 DEF Publish, NothingLeft
  <2> QED
    BY <2>1, <2>2, <2>3 DEF BotInv
<1>2. CASE SubmitPolled
  <2>1. Bought' /\ LongHoldsCrypto'
    BY <1>2, SamePosition DEF SubmitPolled
  <2>2. orders' \in Seq(Order) /\ queueOn' = queueOn
    BY <1>0, <1>2, OrderForIsOrders, Added DEF SubmitPolled, TypeOK
  <2>3. TypeOK'
    BY <1>0, <1>2, <2>2 DEF SubmitPolled, TypeOK, Actions
  <2>4. NothingLeft'
    BY <1>0, <1>2 DEF SubmitPolled, NothingLeft
  <2> QED
    BY <2>1, <2>3, <2>4 DEF BotInv
<1>3. CASE JoinBot
  <2>1. Bought' /\ LongHoldsCrypto'
    BY <1>3, PositionForgotten DEF JoinBot, NoBot
  <2>2. TypeOK'
    BY <1>0, <1>3, NothingYet DEF JoinBot, NoBot, TypeOK, Actions
  <2>3. NothingLeft'
    BY <1>3 DEF JoinBot, NoBot, NothingLeft
  <2> QED
    BY <2>1, <2>2, <2>3 DEF BotInv
<1>4. CASE StartBot
  <2>1. Bought' /\ LongHoldsCrypto'
    BY <1>4, SamePosition DEF StartBot
  <2>2. TypeOK'
    BY <1>0, <1>4 DEF StartBot, TypeOK
  <2>3. NothingLeft'
    BY <1>4 DEF StartBot, NothingLeft
  <2> QED
    BY <2>1, <2>2, <2>3 DEF BotInv
<1>5. CASE Poll
  <2>1. Bought' /\ LongHoldsCrypto'
    BY <1>5, SamePosition DEF Poll
  <2>2. history' \in Seq(Prices) /\ decided' \in Actions
    BY <1>0, <1>5, HistoryIsPrices, DecisionIsAction DEF Poll, TypeOK
  <2>3. TypeOK'
    BY <1>0, <1>5, <2>2 DEF Poll, TypeOK
  <2>4. NothingLeft'
    BY <1>5 DEF Poll, NothingLeft
  <2> QED
    BY <2>1, <2>3, <2>4 DEF BotInv
<1>6. CASE ManualOrder
  <2>1. Bought' /\ LongHoldsCrypto'
    BY <1>6, SamePosition DEF ManualOrder
  <2>2. orders' \in Seq(Order) /\ queueOn' = queueOn
    BY <1>0, <1>6, Typed, Added DEF ManualOrder, TypeOK
  <2>3. TypeOK'
    BY <1>0, <1>6, <2>2 DEF ManualOrder, TypeOK
  <2>4. NothingLeft'
    BY <1>0, <1>6 DEF ManualOrder, NothingLeft
  <2> QED
    BY <2>1, <2>3, <2>4 DEF BotInv
<1>7. CASE StopBot
  <2>1. Bought' /\ LongHoldsCrypto'
    BY <1>7, SamePosition DEF StopBot
  <2>2. TypeOK'
    BY <1>0, <1>7 DEF StopBot, TypeOK
  <2>3. NothingLeft'
    BY <1>7 DEF StopBot, NothingLeft
  <2> QED
    BY <2>1, <2>2, <2>3 DEF BotInv
<1>8. CASE Leave
  <2>1. Bought' /\ LongHoldsCrypto'
    BY <1>8, SamePosition DEF Leave
  <2>2. TypeOK'
    BY <1>0, <1>8 DEF Leave, TypeOK
  <2>3. NothingLeft'
    BY <1>0, <1>8 DEF Leave, NothingLeft
  <2> QED
    BY <2>1, <2>2, <2>3 DEF BotInv
<1> QED
  BY <1>1, <1>2, <1>3, <1>4, <1>5, <1>6, <1>7, <1>8 DEF SessionStep

(* The server's stop.                                                      *)
LEMMA StopStep == BotInv /\ ServerStep => BotInv'
<1> SUFFICES ASSUME BotInv, ServerStep PROVE BotInv'
  OBVIOUS
<1> USE DEF sessionVars, queueVars, workerVars, walletVars, botObject, threadVars
<1>0. TypeOK /\ NothingLeft
  BY DEF BotInv
<1>1. CASE StopSession
  <2>1. Bought' /\ LongHoldsCrypto'
    BY <1>1, SamePosition DEF StopSession
  <2>2. TypeOK'
    BY <1>0, <1>1 DEF StopSession, TypeOK
  <2>3. NothingLeft'
    BY <1>0, <1>1 DEF StopSession, NothingLeft
  <2> QED
    BY <2>1, <2>2, <2>3 DEF BotInv
<1>2. CASE StopQueue
  <2>1. Bought' /\ LongHoldsCrypto'
    BY <1>2, SamePosition DEF StopQueue
  <2>2. TypeOK'
    BY <1>0, <1>2 DEF StopQueue, TypeOK
  <2>3. NothingLeft'
    BY <1>0, <1>2 DEF StopQueue, NothingLeft
  <2> QED
    BY <2>1, <2>2, <2>3 DEF BotInv
<1>3. CASE DropSession
  <2>1. Bought' /\ LongHoldsCrypto'
    BY <1>3, SamePosition, WorkerDies DEF DropSession, Dies
  <2>2. TypeOK'
    BY <1>0, <1>3 DEF DropSession, Dies, TypeOK
  <2>3. NothingLeft'
    BY <1>0, <1>3 DEF DropSession, Dies, NothingLeft
  <2> QED
    BY <2>1, <2>2, <2>3 DEF BotInv
<1>4. CASE Destroyed
  <2>1. Bought' /\ LongHoldsCrypto'
    BY <1>4, PositionForgotten DEF Destroyed, NoBot
  <2>2. TypeOK'
    BY <1>0, <1>4, NothingYet DEF Destroyed, NoBot, TypeOK, Actions
  <2>3. NothingLeft'
    BY <1>4 DEF Destroyed, NoBot, NothingLeft
  <2> QED
    BY <2>1, <2>2, <2>3 DEF BotInv
<1> QED
  BY <1>1, <1>2, <1>3, <1>4 DEF ServerStep

(* The queue's worker.                                                     *)
LEMMA QueueStep == BotInv /\ WorkerStep => BotInv'
<1> SUFFICES ASSUME BotInv, WorkerStep PROVE BotInv'
  OBVIOUS
<1> USE DEF sessionVars, queueVars, workerVars, walletVars, botObject, threadVars
<1>0. TypeOK /\ NothingLeft /\ Bought /\ LongHoldsCrypto
  BY DEF BotInv
<1>1. CASE Execute
  <2> DEFINE o == Head(orders)
  <2>1. /\ o.type \in {"BUY", "SELL"} /\ o.quantity \in Nat /\ o.quantity >= 1
        /\ orders' \in Seq(Order) /\ worker = "idle"
    BY <1>0, <1>1, HeadAndTail DEF Execute, TypeOK
  <2>2. /\ usd \in Nat /\ btc \in Nat /\ price \in Prices \cup {0}
    BY <1>0 DEF TypeOK
  <2>3. NothingLeft'
    BY <1>0, <1>1 DEF Execute, NothingLeft
  <2>4. position = "LONG" => btc > 0
    BY <1>0, <2>1 DEF LongHoldsCrypto
  <2> HIDE DEF o
  <2>5. CASE /\ Covered(o)
             /\ usd' = IF o.type = "BUY" THEN usd - o.quantity ELSE usd + o.quantity
             /\ btc' = IF o.type = "BUY" THEN btc + o.quantity ELSE btc - o.quantity
             /\ result' = [type |-> o.type, completed |-> TRUE, price |-> price]
             /\ worker' = "executed"
    <3>1. usd' \in Nat /\ btc' \in Nat
      <4>1. CASE o.type = "BUY"
        BY <2>1, <2>2, <2>5, <4>1 DEF Covered
      <4>2. CASE o.type = "SELL"
        BY <2>1, <2>2, <2>5, <4>2 DEF Covered
      <4>3. QED
        BY <2>1, <4>1, <4>2
    <3>2. result' \in Result /\ result'.type = o.type /\ result'.completed
      BY <2>1, <2>2, <2>5, ResultsAre
    <3>3. TypeOK'
      BY <1>0, <1>1, <2>1, <2>5, <3>1, <3>2 DEF Execute, TypeOK
    <3>4. o.type = "BUY" => btc' > 0
      BY <2>1, <2>2, <2>5
    <3>5. Bought'
      BY <3>2, <3>4 DEF Bought
    <3>6. LongHoldsCrypto'
      BY <2>1, <2>5, <3>2, <3>4 DEF LongHoldsCrypto
    <3> QED
      BY <2>3, <3>3, <3>5, <3>6 DEF BotInv
  <2>6. CASE /\ result' = [type |-> o.type, completed |-> FALSE, price |-> price]
             /\ worker' = "executed"
             /\ UNCHANGED <<usd, btc>>
    <3>1. result' \in Result /\ ~ result'.completed
      BY <2>1, <2>2, <2>6, ResultsAre
    <3>2. TypeOK'
      BY <1>0, <1>1, <2>1, <2>6, <3>1 DEF Execute, TypeOK
    <3>3. Bought'
      BY <3>1 DEF Bought
    <3>4. LongHoldsCrypto'
      BY <1>1, <2>4, <2>6 DEF Execute, LongHoldsCrypto
    <3> QED
      BY <2>3, <3>2, <3>3, <3>4 DEF BotInv
  <2>7. CASE UNCHANGED <<usd, btc, worker, result>>
    <3>1. position' = position
      BY <1>1 DEF Execute
    <3>2. Bought' /\ LongHoldsCrypto'
      BY <2>7, <3>1, SamePosition
    <3>3. TypeOK'
      BY <1>0, <1>1, <2>1, <2>7 DEF Execute, TypeOK
    <3> QED
      BY <2>3, <3>2, <3>3 DEF BotInv
  <2> QED
    BY <1>1, <2>5, <2>6, <2>7 DEF Execute, o
<1>2. CASE CheckBot
  <2>1. NothingLeft'
    BY <1>0, <1>2 DEF CheckBot, NothingLeft
  <2>2. NoResult \in Result /\ ~ NoResult.completed
    BY ResultsAre DEF NoResult
  <2>3. TypeOK'
    BY <1>0, <1>2, <2>2 DEF CheckBot, TypeOK
  <2>4. Bought'
    BY <1>0, <1>2, <2>2 DEF CheckBot, Bought
  <2>5. LongHoldsCrypto'
    BY <1>0, <1>2 DEF CheckBot, LongHoldsCrypto, NothingLeft
  <2> QED
    BY <2>1, <2>3, <2>4, <2>5 DEF BotInv
<1>3. CASE Notify
  <2>1. NoResult \in Result /\ ~ NoResult.completed
    BY ResultsAre DEF NoResult
  <2>2. Bought'
    BY <1>3, <2>1 DEF Notify, Bought
  <2>3. CASE bot /\ TransactionCompleted /\ worker' = "idle" /\ UNCHANGED <<session, thread>>
    <3>1. NothingLeft'
      BY <1>3, <2>3 DEF Notify, NothingLeft
    <3>2. position' \in {"NONE", "LONG"} /\ entryPrice' \in Prices \cup {0}
      BY <1>0, <2>3 DEF TransactionCompleted, TypeOK, Result
    <3>3. TypeOK'
      BY <1>0, <1>3, <2>1, <2>3, <3>2 DEF Notify, TypeOK
    <3>4. position' = "LONG" => btc > 0
      BY <1>0, <1>3, <2>3 DEF Notify, TransactionCompleted, Bought, LongHoldsCrypto
    <3>5. LongHoldsCrypto'
      BY <1>3, <3>4 DEF Notify, LongHoldsCrypto
    <3> QED
      BY <2>2, <3>1, <3>3, <3>5 DEF BotInv
  <2>4. CASE /\ ~ bot
             /\ UNCHANGED <<position, entryPrice>>
             /\ \/ worker' = "idle" /\ UNCHANGED <<session, thread>>
                \/ Dies
    <3>1. NothingLeft'
      BY <1>0, <1>3, <2>4 DEF Notify, Dies, NothingLeft
    <3>2. TypeOK'
      BY <1>0, <1>3, <2>1, <2>4 DEF Notify, Dies, TypeOK
    <3>3. LongHoldsCrypto'
      BY <1>0, <2>4 DEF LongHoldsCrypto, NothingLeft
    <3> QED
      BY <2>2, <3>1, <3>2, <3>3 DEF BotInv
  <2> QED
    BY <1>3, <2>3, <2>4 DEF Notify
<1> QED
  BY <1>1, <1>2, <1>3 DEF WorkerStep

LEMMA BotInvHolds == Spec => []BotInv
<1>1. Init => BotInv
  <2> SUFFICES ASSUME Init PROVE BotInv
    OBVIOUS
  <2>1. NoResult \in Result /\ ~ NoResult.completed
    BY ResultsAre DEF NoResult
  <2>2. TypeOK
    BY <2>1, NothingYet DEF Init, TypeOK, Actions
  <2>3. Bought /\ LongHoldsCrypto /\ NothingLeft
    BY DEF Init, Bought, LongHoldsCrypto, NothingLeft
  <2> QED
    BY <2>2, <2>3 DEF BotInv
<1>2. BotInv /\ [Next]_vars => BotInv'
  <2> SUFFICES ASSUME BotInv, [Next]_vars PROVE BotInv'
    OBVIOUS
  <2>1. CASE UNCHANGED vars
    <3>1. Bought' /\ LongHoldsCrypto'
      BY <2>1, SamePosition DEF vars
    <3>2. TypeOK' /\ NothingLeft'
      BY <2>1 DEF vars, BotInv, TypeOK, NothingLeft
    <3> QED
      BY <3>1, <3>2 DEF BotInv
  <2> QED
    BY <2>1, BotThreadStep, ClientStep, StopStep, QueueStep DEF Next
<1> QED
  BY <1>1, <1>2, PTL DEF Spec

-----------------------------------------------------------------------------
(* What is claimed of the bot.                                             *)

(* The variables have their types; no balance is ever negative and every   *)
(* order waiting is for a positive quantity.                               *)
THEOREM BotTypeCorrect == Spec => []TypeOK
<1>1. BotInv => TypeOK
  BY DEF BotInv
<1> QED
  BY <1>1, BotInvHolds, PTL

(* A bot that believes it is in position has crypto to sell, except until  *)
(* it is told of a SELL.                                                   *)
THEOREM PositionFollowsWallet == Spec => []LongHoldsCrypto
<1>1. BotInv => LongHoldsCrypto
  BY DEF BotInv
<1> QED
  BY <1>1, BotInvHolds, PTL

(* Once STOP BOT has returned no order of that bot enters the queue.       *)
THEOREM NoOrderOfAStoppedBot == Spec => StoppedBotIsSilent
<1>1. BotInv /\ [Next]_vars => [(~ bot /\ Len(orders') > Len(orders)) => ManualOrder]_vars
  <2> SUFFICES ASSUME BotInv, Next, ~ bot, Len(orders') > Len(orders) PROVE ManualOrder
    OBVIOUS
  <2>1. thread = "off" /\ session # "submitting"
    BY DEF BotInv, NothingLeft
  <2>2. Len(orders) \in Nat
    BY DEF BotInv, TypeOK
  <2>3. orders' # orders
    BY <2>2
  <2>4. ~ BotStep
    BY <2>1 DEF BotStep, LoopTest, Decide, Lock, Submit, WakeUp
  <2>5. ~ SessionStep
    BY <2>1, <2>3 DEF SessionStep, SubmitPolled, JoinBot, queueVars
  <2>6. ~ ServerStep
    BY <2>3 DEF ServerStep, StopSession, StopQueue, DropSession, Destroyed, queueVars
  <2>7. ~ WorkerStep
    <3>1. ~ Execute
      BY <2>2, HeadAndTail DEF Execute, BotInv, TypeOK
    <3> QED
      BY <2>3, <3>1 DEF WorkerStep, CheckBot, Notify, queueVars
  <2>8. ~ (Publish \/ StartBot \/ Poll \/ StopBot \/ Leave)
    BY <2>3 DEF Publish, StartBot, Poll, StopBot, Leave, queueVars
  <2> QED
    BY <2>4, <2>5, <2>6, <2>7, <2>8 DEF Next
<1> QED
  BY <1>1, BotInvHolds, PTL DEF Spec, StoppedBotIsSilent
=============================================================================
