----------------------- MODULE TransactionQueueProofs -----------------------
(***************************************************************************)
(* Theorems about TransactionQueue for every set of clients, quantities    *)
(* and prices, every fee and every number of requests.                     *)
(***************************************************************************)
EXTENDS TransactionQueue, SequenceTheorems, TLAPS

-----------------------------------------------------------------------------
(* The arithmetic of one trade.                                            *)

(* A lot is a positive number.                                             *)
LEMMA LotsArePositive == \A q \in Quantities : q \in Nat /\ q > 0
BY OrdersAssumption

(* What a trade takes and what it brings are natural numbers.              *)
LEMMA TotalsAreNat ==
  ASSUME NEW q \in Quantities, NEW p \in Prices
  PROVE  /\ BuyTotal(q, p) \in Nat
         /\ SellTotal(q, p) \in Nat
<1>1. q \in Nat /\ p \in Nat /\ FeeDen \in Nat \ {0}
  BY OrdersAssumption
<1>2. \A m, n \in Nat : m * n \in Nat
  OBVIOUS
<1>3. q * p \in Nat /\ FeeDen + 1 \in Nat /\ FeeDen - 1 \in Nat
  BY <1>1, <1>2
<1>4. QED
  BY <1>2, <1>3 DEF BuyTotal, SellTotal

(* The updates of a wallet keep it an account.                             *)
LEMMA UpdateTypes ==
  ASSUME NEW o \in Order, NEW p \in Prices, NEW a \in Account
  PROVE  /\ Debited(o, p, a) \in Account
         /\ Credited(o, p, a) \in Account
<1>1. BuyTotal(o.quantity, p) \in Int /\ SellTotal(o.quantity, p) \in Int
  BY TotalsAreNat DEF Order
<1>2. o.quantity \in Int
  BY LotsArePositive DEF Order
<1>3. QED
  BY <1>1, <1>2 DEF Debited, Credited, Account

NonNegative(a) == a.usd >= 0 /\ a.btc >= 0

(* Debiting a covered order leaves nothing negative, and a credit adds.    *)
LEMMA UpdatesStayNonNegative ==
  ASSUME NEW o \in Order, NEW p \in Prices, NEW a \in Account, NonNegative(a)
  PROVE  /\ Covered(o, p, a) => NonNegative(Debited(o, p, a))
         /\ NonNegative(Credited(o, p, a))
<1>1. BuyTotal(o.quantity, p) \in Nat /\ SellTotal(o.quantity, p) \in Nat
  BY TotalsAreNat DEF Order
<1>2. o.quantity \in Nat /\ o.type \in Sides
  BY OrdersAssumption DEF Order
<1>3. QED
  BY <1>1, <1>2 DEF Debited, Credited, Account, Covered, NonNegative, Sides

-----------------------------------------------------------------------------
(* Types.                                                                  *)

USE DEF Processing, AtMostOne

(* The locals of processRequest have the types of a Transaction when one   *)
(* is built from them.                                                     *)
LEMMA ResultType ==
  ASSUME TypeOK, worker \in Processing, outcome \in Outcomes, Control
  PROVE  Result \in Transaction
BY DEF TypeOK, Control, Result, Transaction, Ord

(* Inside processRequest there is an order, of a known client.            *)
LEMMA JobType ==
  ASSUME TypeOK, Control, worker \in Processing
  PROVE  /\ job = <<Ord>>
         /\ Ord \in Order
         /\ Client \in Clients
BY DEF TypeOK, Control, Ord, Client, Order

(* What a save leaves has the type of a file.                              *)
LEMMA SavedType ==
  ASSUME NEW a \in Account, NEW h \in Seq(Transaction)
  PROVE  /\ Written(a, h) \in Files
         /\ Unfinished(a, h) \subseteq Files
<1> DEFINE One == {s \in Seq(Account) : Len(s) <= 1}
<1>1. << >> \in Seq(Transaction) /\ << >> \in One /\ <<a>> \in One
  BY EmptySeq
<1>2. \A m \in 0 .. Len(h) - 1 : FirstOf(h, m) \in Seq(Transaction)
  <2>1. Len(h) \in Nat
    BY LenProperties
  <2> SUFFICES ASSUME NEW m \in 0 .. Len(h) - 1 PROVE FirstOf(h, m) \in Seq(Transaction)
    OBVIOUS
  <2>2. 1 \in 1 .. Len(h) + 1 /\ m \in 0 .. Len(h)
    BY <2>1
  <2>3. QED
    BY <2>2, SubSeqProperties DEF FirstOf
<1>3. Files = [account : One, history : Seq(Transaction), whole : BOOLEAN]
  BY DEF Files
<1> HIDE DEF One
<1>4. Written(a, h) \in Files
  BY <1>1, <1>3 DEF Written
<1>5. Unfinished(a, h) \subseteq Files
  <2>1. [account |-> << >>, history |-> << >>, whole |-> FALSE] \in Files
    BY <1>1, <1>3
  <2>2. \A m \in 0 .. Len(h) - 1 :
          [account |-> <<a>>, history |-> FirstOf(h, m), whole |-> FALSE] \in Files
    BY <1>1, <1>2, <1>3
  <2>3. QED
    BY <2>1, <2>2 DEF Unfinished
<1>6. QED
  BY <1>4, <1>5

(* The wallets loaded and the empty logs have their types.                *)
LEMMA InitTypeOK == Init => TypeOK
<1> SUFFICES ASSUME Init PROVE TypeOK
  OBVIOUS
<1>1. \A c \in Clients : InitialAccount[c] \in Account
  BY OrdersAssumption DEF Account
<1>2. InitialAccount \in [Clients -> Account]
  BY <1>1, OrdersAssumption
<1>3. NoView \in Account
  BY DEF NoView, Account
<1>4. << >> \in Seq(Order) /\ << >> \in Seq(Transaction)
  BY EmptySeq
<1>5. file \in [Clients -> Files]
  BY <1>1, <1>4, SavedType DEF Init
<1>6. /\ wallet \in [Clients -> Account]
      /\ view \in [Clients -> Account]
  BY <1>2, <1>3 DEF Init
<1>7. /\ history \in [Clients -> Seq(Transaction)]
      /\ results \in [Clients -> Seq(Transaction)]
      /\ queue \in Seq(Order) /\ accepted \in Seq(Order)
      /\ csv \in Seq(Transaction)
  BY <1>4 DEF Init
<1>8. unitPrice \in Prices /\ price \in Prices
  BY OrdersAssumption DEF Init
<1>9. QED
  BY <1>5, <1>6, <1>7, <1>8 DEF Init, TypeOK, WorkerPoints

(* Every action keeps the types.                                           *)
LEMMA NextTypeOK == TypeOK /\ Control /\ [Next]_vars => TypeOK'
<1> SUFFICES ASSUME TypeOK, Control, [Next]_vars PROVE TypeOK'
  OBVIOUS
<1> USE DEF requestVars, walletVars, outputVars, callerVars, serverVars,
            stopVars, feedVars
<1>1. CASE Start
  BY <1>1 DEF Start, TypeOK, WorkerPoints
<1>2. CASE StopRequest
  <2>1. Len(accepted) \in Nat
    BY LenProperties DEF TypeOK
  <2>2. QED
    BY <1>2, <2>1 DEF StopRequest, TypeOK
<1>3. CASE StopNotify
  BY <1>3 DEF StopNotify, Awoken, TypeOK, WorkerPoints
<1>4. CASE StopJoin
  BY <1>4 DEF StopJoin, TypeOK, WorkerPoints
<1>5. CASE PublishPrice
  BY <1>5 DEF PublishPrice, TypeOK
<1>6. ASSUME NEW c \in Clients, RegisterSession(c) PROVE TypeOK'
  BY <1>6 DEF RegisterSession, TypeOK
<1>7. ASSUME NEW c \in Clients, UnregisterSession(c) \/ StartBot(c) \/ StopBot(c)
      PROVE  TypeOK'
  BY <1>7 DEF UnregisterSession, StartBot, StopBot, TypeOK
<1>8. ASSUME NEW c \in Clients, ReadUsd(c) PROVE TypeOK'
  <2>1. <<c, "session">> \in Callers
    BY DEF Callers
  <2>2. view' \in [Clients -> Account]
    BY <1>8 DEF ReadUsd, TypeOK, Account
  <2>3. QED
    BY <1>8, <2>1, <2>2 DEF ReadUsd, TypeOK
<1>9. ASSUME NEW c \in Clients, ReadBtc(c) PROVE TypeOK'
  <2>2. view' \in [Clients -> Account]
    BY <1>9 DEF ReadBtc, TypeOK, Account
  <2>3. QED
    BY <1>9, <2>2 DEF ReadBtc, TypeOK
<1>10. ASSUME NEW c \in Clients, Reply(c) PROVE TypeOK'
  <2>2. view' \in [Clients -> Account]
    BY <1>10 DEF Reply, TypeOK, Account, NoView
  <2>3. QED
    BY <1>10, <2>2 DEF Reply, TypeOK
<1>11. ASSUME NEW k \in Callers, NEW o \in Order, AddRequest(k, o) PROVE TypeOK'
  <2>1. caller' \in [Callers -> {"idle", "pushing", "signalling", "reading", "shown"}]
    BY <1>11 DEF AddRequest, TypeOK
  <2>2. asked' \in [Callers -> AtMostOne(Order)]
    <3>1. <<o>> \in AtMostOne(Order)
      OBVIOUS
    <3>2. asked' = asked \/ asked' = [asked EXCEPT ![k] = <<o>>]
      BY <1>11 DEF AddRequest
    <3>3. asked \in [Callers -> AtMostOne(Order)]
      BY DEF TypeOK
    <3>4. QED
      BY <3>1, <3>2, <3>3
  <2>3. QED
    BY <1>11, <2>1, <2>2 DEF AddRequest, TypeOK
<1>12. ASSUME NEW k \in Callers, Push(k) PROVE TypeOK'
  <2>1. asked[k][1] \in Order
    BY <1>12 DEF Push, TypeOK, Control
  <2>2. queue' \in Seq(Order) /\ accepted' \in Seq(Order)
    BY <1>12, <2>1, AppendProperties DEF Push, TypeOK
  <2>3. QED
    BY <1>12, <2>2 DEF Push, TypeOK
<1>13. ASSUME NEW k \in Callers, NotifyOne(k) PROVE TypeOK'
  BY <1>13 DEF NotifyOne, Awoken, TypeOK, WorkerPoints
<1>14. CASE SpuriousWakeup
  BY <1>14 DEF SpuriousWakeup, TypeOK, WorkerPoints
<1>15. CASE Park
  BY <1>15 DEF Park, TypeOK, WorkerPoints
<1>16. CASE FallAsleep
  BY <1>16 DEF FallAsleep, TypeOK, WorkerPoints
<1>17. CASE Take
  <2>1. Head(queue) \in Order /\ Tail(queue) \in Seq(Order)
    BY <1>17, HeadTailProperties DEF Take, TypeOK
  <2>2. QED
    BY <1>17, <2>1 DEF Take, TypeOK, WorkerPoints
<1>18. CASE Exit
  BY <1>18 DEF Exit, TypeOK, WorkerPoints
<1>19. CASE Lookup
  BY <1>19 DEF Lookup, TypeOK, WorkerPoints, Outcomes
<1>20. CASE ReadPrice
  BY <1>20 DEF ReadPrice, TypeOK, WorkerPoints
<1>21. CASE Decide
  BY <1>21 DEF Decide, TypeOK, WorkerPoints, Outcomes
<1>22. CASE Debit
  <2>1. wallet' \in [Clients -> Account]
    BY <1>22, JobType, UpdateTypes DEF Debit, TypeOK
  <2>2. QED
    BY <1>22, <2>1 DEF Debit, TypeOK, WorkerPoints
<1>23. CASE Credit
  <2>1. wallet' \in [Clients -> Account]
    BY <1>23, JobType, UpdateTypes DEF Credit, TypeOK
  <2>2. QED
    BY <1>23, <2>1 DEF Credit, TypeOK, WorkerPoints
<1>24. CASE Save
  <2>1. Client \in Clients
    BY <1>24, JobType DEF Save
  <2>2. /\ Written(wallet[Client], history[Client]) \in Files
        /\ Unfinished(wallet[Client], history[Client]) \subseteq Files
    BY <2>1, SavedType DEF TypeOK
  <2>3. file' \in [Clients -> Files]
    BY <1>24, <2>2 DEF Save, TypeOK
  <2>4. QED
    BY <1>24, <2>3 DEF Save, TypeOK, WorkerPoints
<1>25. CASE AddTransaction
  <2>1. Result \in Transaction /\ Client \in Clients
    BY <1>25, ResultType, JobType DEF AddTransaction, Control, TypeOK,
                                      ReachedAccount, Outcomes
  <2>2. \A h \in Seq(Transaction) : Append(h, Result) \in Seq(Transaction)
    BY <2>1, AppendProperties
  <2>3. history' \in [Clients -> Seq(Transaction)]
    BY <1>25, <2>1, <2>2 DEF AddTransaction, TypeOK
  <2>4. QED
    BY <1>25, <2>3 DEF AddTransaction, TypeOK, WorkerPoints
<1>26. CASE LogToCsv
  <2>1. Result \in Transaction
    BY <1>26, ResultType DEF LogToCsv, Control, TypeOK
  <2>2. csv' \in Seq(Transaction)
    BY <1>26, <2>1, AppendProperties DEF LogToCsv, TypeOK
  <2>3. QED
    BY <1>26, <2>2 DEF LogToCsv, TypeOK, WorkerPoints
<1>27. CASE NotifySession
  <2>1. Result \in Transaction /\ Client \in Clients
    BY <1>27, ResultType, JobType DEF NotifySession, Control, TypeOK
  <2>2. \A h \in Seq(Transaction) : Append(h, Result) \in Seq(Transaction)
    BY <2>1, AppendProperties
  <2>3. results' \in [Clients -> Seq(Transaction)]
    BY <1>27, <2>1, <2>2 DEF NotifySession, TypeOK
  <2>4. QED
    BY <1>27, <2>3, OrdersAssumption DEF NotifySession, TypeOK, WorkerPoints
<1>28. CASE UNCHANGED vars
  BY <1>28 DEF vars, TypeOK
<1>29. QED
  BY <1>1, <1>2, <1>3, <1>4, <1>5, <1>6, <1>7, <1>8, <1>9, <1>10, <1>11,
     <1>12, <1>13, <1>14, <1>15, <1>16, <1>17, <1>18, <1>19, <1>20, <1>21,
     <1>22, <1>23, <1>24, <1>25, <1>26, <1>27, <1>28
     DEF Next, Stopping, Show, Submit, Process, ProcessRequest

(* Every action keeps the control points and the locals together.          *)
LEMMA NextControl == TypeOK /\ Control /\ [Next]_vars => Control'
<1> SUFFICES ASSUME TypeOK, Control, [Next]_vars PROVE Control'
  OBVIOUS
<1> USE DEF requestVars, walletVars, outputVars, callerVars, serverVars,
            stopVars, feedVars, Control, ReachedAccount
<1>1. CASE Start
  BY <1>1 DEF Start
<1>2. CASE StopRequest
  BY <1>2 DEF StopRequest
<1>3. CASE StopNotify
  BY <1>3 DEF StopNotify, Awoken
<1>4. CASE StopJoin
  BY <1>4 DEF StopJoin
<1>5. CASE PublishPrice
  BY <1>5 DEF PublishPrice
<1>6. ASSUME NEW c \in Clients,
             \/ RegisterSession(c) \/ UnregisterSession(c)
             \/ StartBot(c) \/ StopBot(c)
      PROVE  Control'
  BY <1>6 DEF RegisterSession, UnregisterSession, StartBot, StopBot
<1>7. ASSUME NEW c \in Clients, Show(c) PROVE Control'
  <2>1. /\ worker' = worker /\ job' = job /\ outcome' = outcome
        /\ unitPrice' = unitPrice /\ running' = running /\ asked' = asked
    BY <1>7 DEF Show, ReadUsd, ReadBtc, Reply
  <2>2. \A k \in Callers : caller'[k] = "pushing" <=> caller[k] = "pushing"
    BY <1>7 DEF Show, ReadUsd, ReadBtc, Reply, TypeOK
  <2>3. QED
    BY <2>1, <2>2
<1>8. ASSUME NEW k \in Callers, NEW o \in Order, AddRequest(k, o) PROVE Control'
  <2>1. /\ worker' = worker /\ job' = job /\ outcome' = outcome
        /\ unitPrice' = unitPrice /\ running' = running
    BY <1>8 DEF AddRequest
  <2>2. <<o>> # << >>
    OBVIOUS
  <2>3. \A x \in Callers : caller'[x] = "pushing" <=> asked'[x] # << >>
    BY <1>8, <2>2 DEF AddRequest, TypeOK
  <2>4. QED
    BY <2>1, <2>3
<1>9. ASSUME NEW k \in Callers, Push(k) PROVE Control'
  BY <1>9 DEF Push, TypeOK
<1>10. ASSUME NEW k \in Callers, NotifyOne(k) PROVE Control'
  BY <1>10 DEF NotifyOne, Awoken, TypeOK
<1>11. CASE SpuriousWakeup
  BY <1>11 DEF SpuriousWakeup
<1>12. CASE Park \/ FallAsleep \/ Exit
  BY <1>12 DEF Park, FallAsleep, Exit
<1>13. CASE Take
  BY <1>13 DEF Take
<1>14. CASE Lookup
  BY <1>14 DEF Lookup
<1>15. CASE ReadPrice
  BY <1>15 DEF ReadPrice
<1>16. CASE Decide
  BY <1>16 DEF Decide
<1>17. CASE Debit
  BY <1>17 DEF Debit
<1>18. CASE Credit
  BY <1>18 DEF Credit
<1>19. CASE Save
  BY <1>19 DEF Save
<1>20. CASE AddTransaction
  BY <1>20 DEF AddTransaction
<1>21. CASE LogToCsv
  BY <1>21 DEF LogToCsv
<1>22. CASE NotifySession
  BY <1>22 DEF NotifySession
<1>23. CASE UNCHANGED vars
  BY <1>23 DEF vars
<1>24. QED
  BY <1>1, <1>2, <1>3, <1>4, <1>5, <1>6, <1>7, <1>8, <1>9, <1>10, <1>11,
     <1>12, <1>13, <1>14, <1>15, <1>16, <1>17, <1>18, <1>19, <1>20, <1>21,
     <1>22, <1>23 DEF Next, Stopping, Submit, Process, ProcessRequest

-----------------------------------------------------------------------------
(* Only Debit and Credit change a wallet, and they change the wallet of    *)
(* the order's client.                                                     *)
LEMMA OthersKeepWallets ==
  [Next]_vars => Debit \/ Credit \/ UNCHANGED wallet
BY DEF Next, vars, requestVars, walletVars, outputVars, callerVars, serverVars,
       stopVars, feedVars, Stopping, Show, Submit, Process, ProcessRequest,
       Start, StopRequest, StopNotify, StopJoin, PublishPrice,
       RegisterSession, UnregisterSession, StartBot, StopBot, ReadUsd,
       ReadBtc, Reply,
       AddRequest, Push, NotifyOne, SpuriousWakeup, Park, FallAsleep, Take,
       Exit, Lookup, ReadPrice, Decide, Save, AddTransaction, LogToCsv,
       NotifySession

(* The worker reaches its debit through Decide, and stays there with the   *)
(* same order, price and wallets.                                          *)
LEMMA ReachingDebit ==
  [Next]_vars /\ worker' = "debit" =>
    Decide \/ UNCHANGED <<worker, job, unitPrice, wallet>>
BY DEF Next, vars, requestVars, walletVars, outputVars, callerVars, serverVars,
       stopVars, feedVars, Stopping, Show, Submit, Process, ProcessRequest,
       Start, StopRequest, StopNotify, Awoken, StopJoin, PublishPrice,
       RegisterSession, UnregisterSession, StartBot, StopBot, ReadUsd,
       ReadBtc, Reply,
       AddRequest, Push, NotifyOne, SpuriousWakeup, Park, FallAsleep, Take,
       Exit, Lookup, ReadPrice, Debit, Credit, Save, AddTransaction, LogToCsv,
       NotifySession

(* From the check of the funds to the debit nothing moves: no other thread*)
(* changes a wallet, so the check is still true when it is relied upon.   *)
LEMMA NextStillCovered ==
  TypeOK /\ Control /\ StillCovered /\ [Next]_vars => StillCovered'
<1> SUFFICES ASSUME TypeOK, Control, StillCovered, [Next]_vars,
                    worker' = "debit"
             PROVE  Covered(Ord, unitPrice, wallet[Client])'
  BY DEF StillCovered
<1>1. CASE Decide
  BY <1>1 DEF Decide, Covered, Ord, Client, stopVars, walletVars
<1>2. CASE UNCHANGED <<worker, job, unitPrice, wallet>>
  BY <1>2 DEF StillCovered, Covered, Ord, Client
<1>3. QED
  BY <1>1, <1>2, ReachingDebit

(* The two updates of a transaction keep every balance non-negative, each on*)
(* its own, so that not even a reader between the two sees a negative one.*)
LEMMA NextNoOverdraft ==
  TypeOK /\ Control /\ StillCovered /\ NoOverdraft /\ [Next]_vars => NoOverdraft'
<1> SUFFICES ASSUME TypeOK, Control, StillCovered, NoOverdraft, [Next]_vars
             PROVE  NoOverdraft'
  OBVIOUS
<1>1. CASE Debit
  <2>1. Ord \in Order /\ Client \in Clients /\ unitPrice \in Prices
    BY <1>1, JobType DEF Debit, TypeOK
  <2>2. wallet[Client] \in Account /\ NonNegative(wallet[Client])
    BY <2>1 DEF TypeOK, NoOverdraft, NonNegative
  <2>3. NonNegative(Debited(Ord, unitPrice, wallet[Client]))
    BY <1>1, <2>1, <2>2, UpdatesStayNonNegative DEF Debit, StillCovered
  <2>4. QED
    BY <1>1, <2>1, <2>3 DEF Debit, TypeOK, NoOverdraft, NonNegative
<1>2. CASE Credit
  <2>1. Ord \in Order /\ Client \in Clients /\ unitPrice \in Prices
    BY <1>2, JobType DEF Credit, TypeOK
  <2>2. wallet[Client] \in Account /\ NonNegative(wallet[Client])
    BY <2>1 DEF TypeOK, NoOverdraft, NonNegative
  <2>3. NonNegative(Credited(Ord, unitPrice, wallet[Client]))
    BY <2>1, <2>2, UpdatesStayNonNegative
  <2>4. QED
    BY <1>2, <2>1, <2>3 DEF Credit, TypeOK, NoOverdraft, NonNegative
<1>3. CASE UNCHANGED wallet
  BY <1>3 DEF NoOverdraft
<1>4. QED
  BY <1>1, <1>2, <1>3, OthersKeepWallets

-----------------------------------------------------------------------------
(* The order of the log.                                                   *)

(* Appending to the last of two concatenated sequences appends to the whole.*)
LEMMA ConcatAppend ==
  ASSUME NEW S, NEW s \in Seq(S), NEW t \in Seq(S), NEW e \in S
  PROVE  s \o Append(t, e) = Append(s \o t, e)
<1>1. <<e>> \in Seq(S) /\ s \o t \in Seq(S)
  BY ConcatProperties
<1>2. (s \o t) \o <<e>> = s \o (t \o <<e>>)
  BY <1>1, ConcatAssociative
<1>3. QED
  BY <1>1, <1>2, AppendIsConcat

(* A sequence is its head followed by its tail.                           *)
LEMMA HeadTailConcat ==
  ASSUME NEW S, NEW s \in Seq(S), s # << >>
  PROVE  <<Head(s)>> \o Tail(s) = s
<1>1. Len(s) \in Nat /\ Len(s) >= 1
  BY EmptySeq, LenProperties
<1>2. SubSeq(s, 1, Len(s)) = <<s[1]>> \o SubSeq(s, 2, Len(s))
  BY <1>1, SubSeqRecursiveFirst
<1>3. SubSeq(s, 1, Len(s)) = s /\ Tail(s) = SubSeq(s, 2, Len(s))
  BY SubSeqFull, TailIsSubSeq
<1>4. QED
  BY <1>2, <1>3

(* The orders of a log: one per entry.                                    *)
LEMMA OrdersOfType ==
  ASSUME NEW s \in Seq(Transaction)
  PROVE  OrdersOf(s) \in Seq(Order) /\ Len(OrdersOf(s)) = Len(s)
<1>1. Len(s) \in Nat
  BY LenProperties
<1>2. \A i \in 1..Len(s) : s[i].order \in Order
  <2>1. \A i \in 1..Len(s) : s[i] \in Transaction
    BY ElementOfSeq
  <2>2. QED
    BY <2>1 DEF Transaction
<1>3. OrdersOf(s) \in Seq(Order)
  BY <1>1, <1>2, IsASeq DEF OrdersOf
<1>4. QED
  BY <1>1, <1>3, LenProperties DEF OrdersOf

(* Logging a transaction adds its order at the end.                       *)
LEMMA OrdersOfAppend ==
  ASSUME NEW s \in Seq(Transaction), NEW t \in Transaction
  PROVE  OrdersOf(Append(s, t)) = Append(OrdersOf(s), t.order)
<1> DEFINE lhs == OrdersOf(Append(s, t))
           rhs == Append(OrdersOf(s), t.order)
<1>1. Len(s) \in Nat
  BY LenProperties
<1>2. /\ Append(s, t) \in Seq(Transaction)
      /\ Len(Append(s, t)) = Len(s) + 1
      /\ \A i \in 1..Len(s) : Append(s, t)[i] = s[i]
      /\ Append(s, t)[Len(s) + 1] = t
  BY AppendProperties
<1>3. lhs \in Seq(Order) /\ Len(lhs) = Len(s) + 1
  BY <1>2, OrdersOfType
<1>4. t.order \in Order
  BY DEF Transaction
<1>5. /\ rhs \in Seq(Order)
      /\ Len(rhs) = Len(s) + 1
      /\ \A i \in 1..Len(s) : rhs[i] = OrdersOf(s)[i]
      /\ rhs[Len(s) + 1] = t.order
  BY <1>4, OrdersOfType, AppendProperties
<1>6. \A i \in 1..Len(lhs) : lhs[i] = rhs[i]
  BY <1>1, <1>2, <1>3, <1>5 DEF OrdersOf
<1>7. QED
  BY <1>3, <1>5, <1>6, SeqEqual

(* The steps that move an order along the line from the pushes to the log. *)
LEMMA OthersKeepTheLine ==
  [Next]_vars =>
    \/ \E k \in Callers : Push(k)
    \/ Take \/ LogToCsv \/ NotifySession
    \/ /\ UNCHANGED <<csv, queue, accepted, job>>
       /\ worker' = "notify" <=> worker = "notify"
BY DEF Next, vars, requestVars, walletVars, outputVars, callerVars, serverVars,
       stopVars, feedVars, Stopping, Show, Submit, Process, ProcessRequest,
       Start, StopRequest, StopNotify, Awoken, StopJoin, PublishPrice,
       RegisterSession, UnregisterSession, StartBot, StopBot, ReadUsd,
       ReadBtc, Reply,
       AddRequest, NotifyOne, SpuriousWakeup, Park, FallAsleep, Exit, Lookup,
       ReadPrice, Decide, Debit, Credit, Save, AddTransaction

(* The stretches of the line from the log to the queue are sequences.     *)
LEMMA LineTypes ==
  ASSUME TypeOK
  PROVE  /\ LoggedOrders \in Seq(Order)
         /\ Unlogged \in Seq(Order)
         /\ LoggedOrders \o Unlogged \in Seq(Order)
         /\ queue \in Seq(Order)
<1>1. LoggedOrders \in Seq(Order)
  BY OrdersOfType DEF TypeOK, LoggedOrders
<1>2. job \in Seq(Order)
  <2>1. \A o \in Order : <<o>> \in Seq(Order)
    OBVIOUS
  <2>2. job = << >> \/ \E o \in Order : job = <<o>>
    BY DEF TypeOK
  <2>3. QED
    BY <2>1, <2>2, EmptySeq
<1>3. Unlogged \in Seq(Order)
  BY <1>2, EmptySeq DEF Unlogged
<1>4. QED
  BY <1>1, <1>3, ConcatProperties DEF TypeOK

(* No step of any thread loses, duplicates or reorders an order on its way*)
(* from the push to the log.                                              *)
LEMMA NextFifoOnce ==
  TypeOK /\ Control /\ FifoOnce /\ [Next]_vars => FifoOnce'
<1> SUFFICES ASSUME TypeOK, Control, FifoOnce, [Next]_vars PROVE FifoOnce'
  OBVIOUS
<1> DEFINE line == LoggedOrders \o Unlogged
<1>0. /\ LoggedOrders \in Seq(Order) /\ Unlogged \in Seq(Order)
      /\ line \in Seq(Order) /\ queue \in Seq(Order)
      /\ accepted = line \o queue
  BY LineTypes DEF FifoOnce
<1>1. ASSUME NEW k \in Callers, Push(k) PROVE FifoOnce'
  <2> DEFINE o == asked[k][1]
  <2>1. o \in Order
    BY <1>1 DEF Push, TypeOK, Control
  <2>2. queue' = Append(queue, o) /\ accepted' = Append(line \o queue, o)
    BY <1>0, <1>1 DEF Push
  <2>3. LoggedOrders' = LoggedOrders /\ Unlogged' = Unlogged
    BY <1>1 DEF Push, LoggedOrders, Unlogged, requestVars, outputVars
  <2>4. line \o Append(queue, o) = Append(line \o queue, o)
    BY <1>0, <2>1, ConcatAppend
  <2>5. QED
    BY <2>2, <2>3, <2>4 DEF FifoOnce
<1>2. CASE Take
  <2>1. /\ Unlogged = << >> /\ Unlogged' = <<Head(queue)>>
        /\ queue # << >> /\ queue' = Tail(queue)
    BY <1>2 DEF Take, Unlogged, Control
  <2>2. LoggedOrders' = LoggedOrders /\ accepted' = accepted
    BY <1>2 DEF Take, LoggedOrders, outputVars
  <2>3. Head(queue) \in Order /\ Tail(queue) \in Seq(Order)
    BY <1>0, <2>1, HeadTailProperties
  <2>4. (LoggedOrders \o <<Head(queue)>>) \o Tail(queue)
          = LoggedOrders \o (<<Head(queue)>> \o Tail(queue))
    BY <1>0, <2>3, ConcatAssociative
  <2>5. <<Head(queue)>> \o Tail(queue) = queue
    BY <1>0, <2>1, HeadTailConcat
  <2>6. line = LoggedOrders
    BY <1>0, <2>1, ConcatEmptySeq
  <2>7. QED
    BY <1>0, <2>1, <2>2, <2>4, <2>5, <2>6 DEF FifoOnce
<1>3. CASE LogToCsv
  <2>1. Ord \in Order /\ job = <<Ord>> /\ Result \in Transaction
    BY <1>3, JobType, ResultType DEF LogToCsv, Control, TypeOK
  <2>2. LoggedOrders' = Append(LoggedOrders, Ord)
    BY <1>3, <2>1, OrdersOfAppend DEF LogToCsv, LoggedOrders, Result, TypeOK
  <2>3. /\ Unlogged = <<Ord>> /\ Unlogged' = << >>
        /\ queue' = queue /\ accepted' = accepted
    BY <1>3, <2>1 DEF LogToCsv, Unlogged, feedVars
  <2>4. LoggedOrders' = line
    BY <1>0, <2>1, <2>2, <2>3, AppendIsConcat
  <2>5. LoggedOrders' \o Unlogged' = line
    BY <1>0, <2>3, <2>4, ConcatEmptySeq
  <2>6. QED
    BY <1>0, <2>3, <2>5 DEF FifoOnce
<1>4. CASE NotifySession
  BY <1>4 DEF NotifySession, FifoOnce, LoggedOrders, Unlogged, feedVars
<1>5. CASE /\ UNCHANGED <<csv, queue, accepted, job>>
           /\ worker' = "notify" <=> worker = "notify"
  BY <1>5 DEF FifoOnce, LoggedOrders, Unlogged
<1>6. QED
  BY <1>1, <1>2, <1>3, <1>4, <1>5, OthersKeepTheLine

-----------------------------------------------------------------------------
(* Stopping.                                                               *)

(* Only stop() sets what is due, and only Exit ends the worker.           *)
LEMMA OthersKeepTheStop ==
  [Next]_vars =>
    \/ StopRequest
    \/ Exit
    \/ /\ dueAtStop' = dueAtStop
       /\ worker' \in {"exited", "joined"} => worker \in {"exited", "joined"}
BY DEF Next, vars, requestVars, walletVars, outputVars, callerVars, serverVars,
       stopVars, feedVars, Stopping, Show, Submit, Process, ProcessRequest,
       Start, StopNotify, Awoken, StopJoin, PublishPrice,
       RegisterSession, UnregisterSession, StartBot, StopBot, ReadUsd,
       ReadBtc, Reply,
       AddRequest, Push, NotifyOne, SpuriousWakeup, Park, FallAsleep, Take,
       Lookup, ReadPrice, Decide, Debit, Credit, Save, AddTransaction,
       LogToCsv, NotifySession

(* The log and the list of accepted orders never shrink.                   *)
LEMMA LogsGrow ==
  TypeOK /\ Control /\ [Next]_vars =>
    /\ Len(csv) \in Nat /\ Len(accepted) \in Nat
    /\ Len(csv') >= Len(csv)
    /\ Len(accepted') >= Len(accepted)
<1> SUFFICES ASSUME TypeOK, Control, [Next]_vars
             PROVE  /\ Len(csv) \in Nat /\ Len(accepted) \in Nat
                    /\ Len(csv') >= Len(csv)
                    /\ Len(accepted') >= Len(accepted)
  OBVIOUS
<1>1. Len(csv) \in Nat /\ Len(accepted) \in Nat
  BY LenProperties DEF TypeOK
<1>2. ASSUME NEW k \in Callers, Push(k)
      PROVE  csv' = csv /\ Len(accepted') = Len(accepted) + 1
  <2>1. asked[k][1] \in Order
    BY <1>2 DEF Push, TypeOK, Control
  <2>2. QED
    BY <1>2, <2>1, AppendProperties DEF Push, TypeOK, outputVars
<1>3. CASE LogToCsv
  <2>1. Result \in Transaction
    BY <1>3, ResultType DEF LogToCsv, Control, TypeOK
  <2>2. Len(csv') = Len(csv) + 1 /\ accepted' = accepted
    BY <1>3, <2>1, AppendProperties DEF LogToCsv, TypeOK, feedVars
  <2>3. QED
    BY <1>1, <2>2
<1>4. CASE Take
  BY <1>1, <1>4 DEF Take, outputVars
<1>5. CASE NotifySession
  BY <1>1, <1>5 DEF NotifySession, feedVars
<1>6. CASE UNCHANGED <<csv, queue, accepted, job>>
  BY <1>1, <1>6
<1>7. QED
  BY <1>1, <1>2, <1>3, <1>4, <1>5, <1>6, OthersKeepTheLine

(* The worker can only leave when the queue is empty and nothing is being *)
(* processed, so that by FifoOnce all that was pushed is logged.          *)
LEMMA NextDrained ==
  TypeOK /\ Control /\ FifoOnce /\ Due /\ DrainedAtExit /\ [Next]_vars
    => Due' /\ DrainedAtExit'
<1> SUFFICES ASSUME TypeOK, Control, FifoOnce, Due, DrainedAtExit, [Next]_vars
             PROVE  Due' /\ DrainedAtExit'
  OBVIOUS
<1>0. dueAtStop \in Nat /\ Len(csv) \in Nat /\ Len(accepted) \in Nat
      /\ Len(csv') >= Len(csv) /\ Len(accepted') >= Len(accepted)
      /\ Len(csv') \in Nat /\ Len(accepted') \in Nat
  BY LogsGrow, NextTypeOK, LenProperties DEF TypeOK
<1>1. CASE StopRequest
  BY <1>0, <1>1 DEF StopRequest, Due, DrainedAtExit, Control, feedVars
<1>2. CASE Exit
  <2>1. Unlogged = << >> /\ queue = << >>
    BY <1>2 DEF Exit, Unlogged, Control
  <2>2. accepted = LoggedOrders
    BY <2>1, LineTypes, ConcatEmptySeq DEF FifoOnce
  <2>3. Len(csv) = Len(accepted)
    BY <2>2, OrdersOfType DEF LoggedOrders, TypeOK
  <2>4. QED
    BY <1>0, <1>2, <2>3 DEF Exit, Due, DrainedAtExit, stopVars, outputVars, feedVars
<1>3. CASE /\ dueAtStop' = dueAtStop
           /\ worker' \in {"exited", "joined"} => worker \in {"exited", "joined"}
  BY <1>0, <1>3 DEF Due, DrainedAtExit
<1>4. QED
  BY <1>1, <1>2, <1>3, OthersKeepTheStop

-----------------------------------------------------------------------------
(* The theorems.                                                           *)

(* The invariant holds when the server starts.                             *)
LEMMA InitIInv == Init => IInv
<1> SUFFICES ASSUME Init PROVE IInv
  OBVIOUS
<1>1. TypeOK
  BY InitTypeOK
<1>2. Control
  BY DEF Init, Control
<1>3. StillCovered
  BY DEF Init, StillCovered
<1>4. NoOverdraft
  <2>1. \A c \in Clients : InitialAccount[c] \in [usd : Nat, btc : Nat]
    BY OrdersAssumption
  <2>2. \A a \in [usd : Nat, btc : Nat] : a.usd >= 0 /\ a.btc >= 0
    OBVIOUS
  <2>3. \A c \in Clients : InitialAccount[c].usd >= 0 /\ InitialAccount[c].btc >= 0
    BY <2>1, <2>2
  <2>4. QED
    BY <2>3 DEF Init, NoOverdraft
<1>5. Len(csv) = 0 /\ Len(accepted) = 0
  BY EmptySeq DEF Init
<1>6. Due /\ DrainedAtExit
  BY <1>5 DEF Init, Due, DrainedAtExit
<1>7. FifoOnce
  <2>1. LoggedOrders \in Seq(Order) /\ Len(LoggedOrders) = 0
    BY <1>1, <1>5, OrdersOfType DEF LoggedOrders, TypeOK
  <2>2. LoggedOrders = << >>
    BY <2>1, EmptySeq
  <2>3. Unlogged = << >> /\ queue = << >> /\ accepted = << >>
    BY DEF Init, Unlogged
  <2>4. LoggedOrders \o Unlogged = << >>
    BY <2>1, <2>2, <2>3, ConcatEmptySeq
  <2>5. << >> \o << >> = << >>
    BY <2>1, <2>2, ConcatEmptySeq
  <2>6. QED
    BY <2>3, <2>4, <2>5 DEF FifoOnce
<1>8. QED
  BY <1>1, <1>2, <1>3, <1>4, <1>6, <1>7 DEF IInv

(* Every step of every thread keeps the invariant.                         *)
LEMMA NextIInv == IInv /\ [Next]_vars => IInv'
BY NextTypeOK, NextControl, NextStillCovered, NextNoOverdraft, NextFifoOnce,
   NextDrained DEF IInv

(* The invariant holds for every set of clients, sizes, prices and fee and *)
(* any number of submitting threads and orders.                            *)
THEOREM Invariance == Spec => []IInv
BY InitIInv, NextIInv, PTL DEF Spec

(* Type correctness of the queue, its worker and its callers.              *)
THEOREM TypeCorrect == Spec => []TypeOK
<1>1. IInv => TypeOK
  BY DEF IInv
<1>2. QED
  BY <1>1, Invariance, PTL

(* processRequest never overdraws a wallet, not even between the two       *)
(* updates of a transaction, though session and bot threads submit against *)
(* balances that have moved by the time their order is executed.           *)
THEOREM NeverOverdrawn == Spec => []NoOverdraft
<1>1. IInv => NoOverdraft
  BY DEF IInv
<1>2. QED
  BY <1>1, Invariance, PTL

(* addRequest, process and logTransactionToCSV together lose, duplicate    *)
(* and reorder nothing: the log, the order in progress and the queue are,  *)
(* end to end, the orders pushed.                                          *)
THEOREM LoggedOnceInOrder == Spec => []FifoOnce
<1>1. IInv => FifoOnce
  BY DEF IInv
<1>2. QED
  BY <1>1, Invariance, PTL

(* stop() drains: when process() has returned, every order pushed before   *)
(* running was cleared has been executed and logged.                       *)
THEOREM StopDrains == Spec => []DrainedAtExit
<1>1. IInv => DrainedAtExit
  BY DEF IInv
<1>2. QED
  BY <1>1, Invariance, PTL
=============================================================================
