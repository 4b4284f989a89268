---------------------------- MODULE LedgerProofs ----------------------------
(***************************************************************************)
(* The transaction queue, its worker and the wallets implement Ledger, for *)
(* every set of clients, quantities and prices, every fee and every number *)
(* of requests.                                                            *)
(***************************************************************************)
EXTENDS TransactionQueueProofs, WellFoundedInduction

USE DEF Processing, AtMostOne

-----------------------------------------------------------------------------
(* Undoing a trade.                                                        *)

(* What replacing one figure of an account gives.                          *)
LEMMA ReplaceFigure ==
  ASSUME NEW a \in Account, NEW x \in Int
  PROVE  /\ [a EXCEPT !.usd = x] = [usd |-> x, btc |-> a.btc]
         /\ [a EXCEPT !.btc = x] = [usd |-> a.usd, btc |-> x]
         /\ a = [usd |-> a.usd, btc |-> a.btc]
         /\ a.usd \in Int /\ a.btc \in Int
BY DEF Account

(* The updates of a wallet and their inverses, figure by figure.           *)
LEMMA UpdatesByFigure ==
  ASSUME NEW o \in Order, NEW p \in Prices, NEW u \in Int, NEW b \in Int
  PROVE  LET a == [usd |-> u, btc |-> b]
             q == o.quantity
             B == BuyTotal(q, p)
             S == SellTotal(q, p)
         IN  /\ o.type = "BUY" =>
                  /\ Debited(o, p, a) = [usd |-> u - B, btc |-> b]
                  /\ Credited(o, p, a) = [usd |-> u, btc |-> b + q]
                  /\ Undebited(o, p, a) = [usd |-> u + B, btc |-> b]
                  /\ Uncredited(o, p, a) = [usd |-> u, btc |-> b - q]
             /\ o.type # "BUY" =>
                  /\ Debited(o, p, a) = [usd |-> u, btc |-> b - q]
                  /\ Credited(o, p, a) = [usd |-> u + S, btc |-> b]
                  /\ Undebited(o, p, a) = [usd |-> u, btc |-> b + q]
                  /\ Uncredited(o, p, a) = [usd |-> u - S, btc |-> b]
<1> DEFINE a == [usd |-> u, btc |-> b]
           q == o.quantity
           B == BuyTotal(q, p)
           S == SellTotal(q, p)
<1>1. a \in Account /\ a.usd = u /\ a.btc = b
  BY DEF Account
<1>2. B \in Int /\ S \in Int /\ q \in Int
  BY TotalsAreNat, LotsArePositive DEF Order
<1> HIDE DEF a, q, B, S
<1>3. /\ u - B \in Int /\ u + B \in Int /\ u - S \in Int /\ u + S \in Int
      /\ b - q \in Int /\ b + q \in Int
  BY <1>2
<1>4. /\ \A x \in Int : [a EXCEPT !.usd = x] = [usd |-> x, btc |-> b]
      /\ \A x \in Int : [a EXCEPT !.btc = x] = [usd |-> u, btc |-> x]
  BY <1>1, ReplaceFigure
<1>5. /\ [a EXCEPT !.usd = @ - B] = [usd |-> u - B, btc |-> b]
      /\ [a EXCEPT !.usd = @ + B] = [usd |-> u + B, btc |-> b]
      /\ [a EXCEPT !.usd = @ - S] = [usd |-> u - S, btc |-> b]
      /\ [a EXCEPT !.usd = @ + S] = [usd |-> u + S, btc |-> b]
      /\ [a EXCEPT !.btc = @ - q] = [usd |-> u, btc |-> b - q]
      /\ [a EXCEPT !.btc = @ + q] = [usd |-> u, btc |-> b + q]
  BY <1>1, <1>3, <1>4
<1>6. QED
  BY <1>5 DEF Debited, Credited, Undebited, Uncredited, a, q, B, S

(* Undoing an update of a wallet gives back the account it was made on.    *)
LEMMA UndoingAnUpdate ==
  ASSUME NEW o \in Order, NEW p \in Prices, NEW a \in Account
  PROVE  /\ Undebited(o, p, Debited(o, p, a)) = a
         /\ Uncredited(o, p, Credited(o, p, a)) = a
         /\ Traded(o, p, Undebited(o, p, Uncredited(o, p, a))) = a
         /\ Undebited(o, p, a) \in Account
         /\ Uncredited(o, p, a) \in Account
<1> DEFINE q == o.quantity
           B == BuyTotal(q, p)
           S == SellTotal(q, p)
           R(x, y) == [usd |-> x, btc |-> y]
<1>1. PICK u \in Int, b \in Int : a = R(u, b)
  BY DEF Account
<1>2. B \in Int /\ S \in Int /\ q \in Int
  BY TotalsAreNat, LotsArePositive DEF Order
<1>3. \A x, y \in Int : R(x, y) \in Account
  BY DEF Account
<1>4. CASE o.type = "BUY"
  <2>1. ASSUME NEW x \in Int, NEW y \in Int
        PROVE  /\ Debited(o, p, R(x, y)) = R(x - B, y)
               /\ Credited(o, p, R(x, y)) = R(x, y + q)
               /\ Undebited(o, p, R(x, y)) = R(x + B, y)
               /\ Uncredited(o, p, R(x, y)) = R(x, y - q)
    BY <1>4, UpdatesByFigure, ZenonT(30)
  <2> HIDE DEF q, B, S, R
  <2>2. /\ Undebited(o, p, Debited(o, p, a)) = R((u - B) + B, b)
        /\ Uncredited(o, p, Credited(o, p, a)) = R(u, (b + q) - q)
        /\ Traded(o, p, Undebited(o, p, Uncredited(o, p, a)))
              = R((u + B) - B, (b - q) + q)
        /\ Undebited(o, p, a) = R(u + B, b)
        /\ Uncredited(o, p, a) = R(u, b - q)
    BY <1>1, <1>2, <2>1 DEF Traded
  <2>3. /\ (u - B) + B = u /\ (b + q) - q = b /\ (u + B) - B = u
        /\ (b - q) + q = b /\ u + B \in Int /\ b - q \in Int
    BY <1>2
  <2>4. QED
    BY <1>1, <1>3, <2>2, <2>3
<1>5. CASE o.type # "BUY"
  <2>1. ASSUME NEW x \in Int, NEW y \in Int
        PROVE  /\ Debited(o, p, R(x, y)) = R(x, y - q)
               /\ Credited(o, p, R(x, y)) = R(x + S, y)
               /\ Undebited(o, p, R(x, y)) = R(x, y + q)
               /\ Uncredited(o, p, R(x, y)) = R(x - S, y)
    BY <1>5, UpdatesByFigure, ZenonT(30)
  <2> HIDE DEF q, B, S, R
  <2>2. /\ Undebited(o, p, Debited(o, p, a)) = R(u, (b - q) + q)
        /\ Uncredited(o, p, Credited(o, p, a)) = R((u + S) - S, b)
        /\ Traded(o, p, Undebited(o, p, Uncredited(o, p, a)))
              = R((u - S) + S, (b + q) - q)
        /\ Undebited(o, p, a) = R(u, b + q)
        /\ Uncredited(o, p, a) = R(u - S, b)
    BY <1>1, <1>2, <2>1 DEF Traded
  <2>3. /\ (u - S) + S = u /\ (b + q) - q = b /\ (u + S) - S = u
        /\ (b - q) + q = b /\ u - S \in Int /\ b + q \in Int
    BY <1>2
  <2>4. QED
    BY <1>1, <1>3, <2>2, <2>3
<1>6. QED
  BY <1>4, <1>5

(* After the debit alone, one figure is that of the account before the     *)
(* trade and the other that of the account after it.                       *)
LEMMA BetweenTheUpdates ==
  ASSUME NEW o \in Order, NEW p \in Prices, NEW a \in Account
  PROVE  LET old == Undebited(o, p, a)
             new == Traded(o, p, old)
         IN  \/ a.usd = new.usd /\ a.btc = old.btc
             \/ a.usd = old.usd /\ a.btc = new.btc
<1> DEFINE q == o.quantity
           B == BuyTotal(q, p)
           S == SellTotal(q, p)
           R(x, y) == [usd |-> x, btc |-> y]
           old == Undebited(o, p, a)
           new == Traded(o, p, old)
<1>1. PICK u \in Int, b \in Int : a = R(u, b)
  BY DEF Account
<1>2. B \in Int /\ S \in Int /\ q \in Int
  BY TotalsAreNat, LotsArePositive DEF Order
<1>3. \A x, y : R(x, y).usd = x /\ R(x, y).btc = y
  OBVIOUS
<1>4. CASE o.type = "BUY"
  <2>1. ASSUME NEW x \in Int, NEW y \in Int
        PROVE  /\ Debited(o, p, R(x, y)) = R(x - B, y)
               /\ Credited(o, p, R(x, y)) = R(x, y + q)
               /\ Undebited(o, p, R(x, y)) = R(x + B, y)
               /\ Uncredited(o, p, R(x, y)) = R(x, y - q)
    BY <1>4, UpdatesByFigure, ZenonT(30)
  <2> HIDE DEF q, B, S, R
  <2>2. old = R(u + B, b) /\ new = R((u + B) - B, b + q)
    <3>1. u + B \in Int /\ (u + B) - B \in Int
      BY <1>2
    <3>2. old = R(u + B, b)
      BY <1>1, <2>1
    <3> HIDE DEF old
    <3>3. Debited(o, p, old) = R((u + B) - B, b)
      BY <2>1, <3>1, <3>2
    <3>4. QED
      BY <2>1, <3>1, <3>2, <3>3 DEF Traded
  <2>3. (u + B) - B = u
    BY <1>2
  <2>4. QED
    BY <1>1, <1>3, <2>2, <2>3
<1>5. CASE o.type # "BUY"
  <2>1. ASSUME NEW x \in Int, NEW y \in Int
        PROVE  /\ Debited(o, p, R(x, y)) = R(x, y - q)
               /\ Credited(o, p, R(x, y)) = R(x + S, y)
               /\ Undebited(o, p, R(x, y)) = R(x, y + q)
               /\ Uncredited(o, p, R(x, y)) = R(x - S, y)
    BY <1>5, UpdatesByFigure, ZenonT(30)
  <2> HIDE DEF q, B, S, R
  <2>2. old = R(u, b + q) /\ new = R(u + S, (b + q) - q)
    <3>1. b + q \in Int /\ (b + q) - q \in Int
      BY <1>2
    <3>2. old = R(u, b + q)
      BY <1>1, <2>1
    <3> HIDE DEF old
    <3>3. Debited(o, p, old) = R(u, (b + q) - q)
      BY <2>1, <3>1, <3>2
    <3>4. QED
      BY <2>1, <3>1, <3>2, <3>3 DEF Traded
  <2>3. (b + q) - q = b
    BY <1>2
  <2>4. QED
    BY <1>1, <1>3, <2>2, <2>3
<1>6. QED
  BY <1>4, <1>5

(* What is pending while an order is being processed: that order first.    *)
LEMMA HeadOfLine ==
  ASSUME NEW S, NEW e \in S, NEW s \in Seq(S)
  PROVE  /\ <<e>> \o s # << >>
         /\ Head(<<e>> \o s) = e
         /\ Tail(<<e>> \o s) = s
<1>1. <<e>> \in Seq(S) /\ Len(<<e>>) = 1
  OBVIOUS
<1>2. /\ <<e>> \o s \in Seq(S)
      /\ Len(<<e>> \o s) = 1 + Len(s)
      /\ \A i \in 1 .. 1 + Len(s) :
           (<<e>> \o s)[i] = IF i <= 1 THEN <<e>>[i] ELSE s[i - 1]
  BY <1>1, ConcatProperties
<1>3. Len(s) \in Nat
  BY LenProperties
<1>4. <<e>> \o s # << >>
  BY <1>2, <1>3, EmptySeq
<1>5. Head(<<e>> \o s) = e
  <2>1. (<<e>> \o s)[1] = e
    BY <1>2, <1>3
  <2>2. QED
    BY <1>2, <1>3, <2>1
<1>6. Tail(<<e>> \o s) = s
  <2>1. /\ Tail(<<e>> \o s) \in Seq(S)
        /\ Len(Tail(<<e>> \o s)) = Len(s)
        /\ \A i \in 1 .. Len(s) : Tail(<<e>> \o s)[i] = (<<e>> \o s)[i + 1]
    BY <1>2, <1>3, <1>4, HeadTailProperties
  <2>2. \A i \in 1 .. Len(s) : Tail(<<e>> \o s)[i] = s[i]
    BY <1>2, <1>3, <2>1
  <2>3. QED
    BY <2>1, <2>2, SeqEqual
<1>7. QED
  BY <1>4, <1>5, <1>6

-----------------------------------------------------------------------------
(* The check of the funds.                                                 *)

(* From the check under walletMutex to addTransaction, its outcome is what *)
(* it would be on the account as it was before the worker touched it.      *)
CheckStands ==
  worker \in {"debit", "credit", "save", "append"} =>
    (outcome = "COMPLETED" <=> Covered(Ord, unitPrice, CommittedBalance[Client]))

(* The committed balances before the first update of the wallet, after it, *)
(* and after both.                                                         *)
CommittedByPoint ==
  /\ worker \notin {"credit", "save", "append"} \/ outcome # "COMPLETED"
       => CommittedBalance = wallet
  /\ worker = "credit" =>
       CommittedBalance = [wallet EXCEPT ![Client] = Undebited(Ord, unitPrice, @)]
  /\ worker \in {"save", "append"} /\ outcome = "COMPLETED" =>
       CommittedBalance =
         [wallet EXCEPT ![Client] =
            Undebited(Ord, unitPrice, Uncredited(Ord, unitPrice, @))]

(* They are these, at every point of processRequest.                       *)
LEMMA CommittedIs == TypeOK /\ Control => CommittedByPoint
<1> SUFFICES ASSUME TypeOK, Control PROVE CommittedByPoint
  OBVIOUS
<1>1. wallet = [c \in Clients |-> wallet[c]]
  BY DEF TypeOK
<1>2. ASSUME worker \notin {"credit", "save", "append"} \/ outcome # "COMPLETED"
      PROVE  CommittedBalance = wallet
  BY <1>1, <1>2 DEF CommittedBalance
<1>3. ASSUME worker = "credit"
      PROVE  CommittedBalance = [wallet EXCEPT ![Client] = Undebited(Ord, unitPrice, @)]
  BY <1>1, <1>3 DEF CommittedBalance, Control
<1>4. ASSUME worker \in {"save", "append"}, outcome = "COMPLETED"
      PROVE  CommittedBalance =
               [wallet EXCEPT ![Client] =
                  Undebited(Ord, unitPrice, Uncredited(Ord, unitPrice, @))]
  BY <1>1, <1>4 DEF CommittedBalance, Control
<1>5. QED
  BY <1>2, <1>3, <1>4 DEF CommittedByPoint

(* What the abstract state is made of, and the steps that touch it.        *)
LEMMA OthersKeepTheAccount ==
  [Next]_vars =>
    \/ \E k \in Callers : Push(k)
    \/ Take \/ Lookup \/ ReadPrice \/ Decide \/ Debit \/ Credit \/ Save
    \/ AddTransaction \/ LogToCsv \/ NotifySession
    \/ /\ UNCHANGED <<job, outcome, unitPrice, wallet, history, queue>>
       /\ worker' = worker \/ {worker, worker'} \cap Processing = {}
BY DEF Next, vars, requestVars, walletVars, outputVars, callerVars, serverVars,
       stopVars, feedVars, Stopping, Show, Submit, Process, ProcessRequest,
       Start, StopRequest, StopNotify, Awoken, StopJoin, PublishPrice,
       RegisterSession, UnregisterSession, StartBot, StopBot, ReadUsd,
       ReadBtc, Reply,
       AddRequest, NotifyOne, SpuriousWakeup, Park, FallAsleep, Exit

(* So they are after a step.                                               *)
LEMMA CommittedIsNext == TypeOK' /\ Control' => CommittedByPoint'
BY CommittedIs, PTL

-----------------------------------------------------------------------------
(* The steps of the worker, as the ledger sees them.                       *)

(* No step but addTransaction changes a committed balance: the two updates *)
(* of a wallet and its save are one step later on, at the commit point.    *)
LEMMA OthersKeepTheBalance ==
  ASSUME TypeOK, Control, TypeOK', Control', [Next]_vars, ~ AddTransaction
  PROVE  UNCHANGED CommittedBalance
<1> USE DEF requestVars, walletVars, outputVars, callerVars, serverVars,
            stopVars, feedVars
<1>0. CommittedByPoint /\ CommittedByPoint'
  BY CommittedIs, CommittedIsNext
<1>1. ASSUME NEW k \in Callers, Push(k) PROVE UNCHANGED CommittedBalance
  BY <1>1 DEF Push, CommittedBalance, Ord, Client
<1>2. CASE Take \/ Lookup \/ ReadPrice \/ Decide \/ LogToCsv \/ NotifySession
  BY <1>0, <1>2 DEF CommittedByPoint, Control, Take, Lookup, ReadPrice, Decide,
                    LogToCsv, NotifySession
<1>3. CASE Debit
  <2>1. Ord \in Order /\ Client \in Clients /\ unitPrice \in Prices
    BY <1>3, JobType DEF Debit, TypeOK
  <2>2. Ord' = Ord /\ Client' = Client /\ unitPrice' = unitPrice
    BY <1>3 DEF Debit, Ord, Client
  <2>3. Undebited(Ord, unitPrice, wallet'[Client]) = wallet[Client]
    BY <1>3, <2>1, UndoingAnUpdate DEF Debit, TypeOK
  <2>4. CommittedBalance = wallet
    BY <1>0, <1>3 DEF Debit, CommittedByPoint
  <2>5. CommittedBalance' =
          [wallet' EXCEPT ![Client] = Undebited(Ord, unitPrice, @)]
    BY <1>0, <1>3, <2>2 DEF Debit, CommittedByPoint
  <2>6. QED
    BY <1>3, <2>1, <2>3, <2>4, <2>5 DEF Debit, TypeOK
<1>4. CASE Credit
  <2>1. Ord \in Order /\ Client \in Clients /\ unitPrice \in Prices
    BY <1>4, JobType DEF Credit, TypeOK
  <2>2. Ord' = Ord /\ Client' = Client /\ unitPrice' = unitPrice /\ outcome' = "COMPLETED"
    BY <1>4 DEF Credit, Ord, Client, Control
  <2>3. Uncredited(Ord, unitPrice, wallet'[Client]) = wallet[Client]
    BY <1>4, <2>1, UndoingAnUpdate DEF Credit, TypeOK
  <2>4. CommittedBalance = [wallet EXCEPT ![Client] = Undebited(Ord, unitPrice, @)]
    BY <1>0, <1>4 DEF Credit, CommittedByPoint
  <2>5. CommittedBalance' =
          [wallet' EXCEPT ![Client] =
             Undebited(Ord, unitPrice, Uncredited(Ord, unitPrice, @))]
    BY <1>0, <1>4, <2>2 DEF Credit, CommittedByPoint
  <2>6. QED
    BY <1>4, <2>1, <2>3, <2>4, <2>5 DEF Credit, TypeOK
<1>5. CASE Save
  BY <1>5 DEF Save, CommittedBalance, Ord, Client, Control
<1>6. CASE /\ UNCHANGED <<job, outcome, unitPrice, wallet, history, queue>>
           /\ worker' = worker \/ {worker, worker'} \cap Processing = {}
  BY <1>6 DEF CommittedBalance, Ord, Client
<1>7. QED
  BY <1>1, <1>2, <1>3, <1>4, <1>5, <1>6, OthersKeepTheAccount

(* The worker is between the check and addTransaction because it has just  *)
(* made the check, or because it was there before with the same order.     *)
LEMMA ReachingTheCommit ==
  [Next]_vars /\ worker' \in {"debit", "credit", "save", "append"} =>
    \/ Decide
    \/ /\ worker \in {"debit", "credit", "save", "append"}
       /\ ~ AddTransaction
       /\ UNCHANGED <<job, outcome, unitPrice>>
BY DEF Next, vars, requestVars, walletVars, outputVars, callerVars, serverVars,
       stopVars, feedVars, Stopping, Show, Submit, Process, ProcessRequest,
       Start, StopRequest, StopNotify, Awoken, StopJoin, PublishPrice,
       RegisterSession, UnregisterSession, StartBot, StopBot, ReadUsd,
       ReadBtc, Reply,
       AddRequest, Push, NotifyOne, SpuriousWakeup, Park, FallAsleep, Take,
       Exit, Lookup, ReadPrice, Debit, Credit, Save, AddTransaction, LogToCsv,
       NotifySession

(* The outcome of the check stands until addTransaction.                   *)
LEMMA NextCheckStands ==
  ASSUME TypeOK, Control, TypeOK', Control', CheckStands, [Next]_vars
  PROVE  CheckStands'
<1> SUFFICES ASSUME worker' \in {"debit", "credit", "save", "append"}
             PROVE  (outcome = "COMPLETED" <=> Covered(Ord, unitPrice, CommittedBalance[Client]))'
  BY DEF CheckStands
<1>1. CASE Decide
  <2>1. ~ AddTransaction
    BY <1>1 DEF Decide, AddTransaction
  <2>2. CommittedBalance' = wallet
    BY <1>1, <2>1, CommittedIs, OthersKeepTheBalance DEF Decide, CommittedByPoint
  <2>3. Ord' = Ord /\ Client' = Client /\ unitPrice' = unitPrice
    BY <1>1 DEF Decide, Ord, Client
  <2>4. outcome' = "COMPLETED" <=> Covered(Ord, unitPrice, wallet[Client])
    BY <1>1 DEF Decide
  <2>5. QED
    BY <2>2, <2>3, <2>4 DEF Covered
<1>2. CASE /\ worker \in {"debit", "credit", "save", "append"}
           /\ ~ AddTransaction
           /\ UNCHANGED <<job, outcome, unitPrice>>
  <2>1. CommittedBalance' = CommittedBalance
    BY <1>2, OthersKeepTheBalance
  <2>2. QED
    BY <1>2, <2>1 DEF CheckStands, Covered, Ord, Client
<1>3. QED
  BY <1>1, <1>2, ReachingTheCommit

(* While an order is being processed and not committed it is the oldest    *)
(* pending one.                                                            *)
LEMMA PendingHead ==
  ASSUME TypeOK, Control, worker \in Uncommitted
  PROVE  /\ PendingOrders # << >>
         /\ Head(PendingOrders) = Ord
         /\ Tail(PendingOrders) = queue
<1>1. job = <<Ord>> /\ Ord \in Order
  BY JobType DEF Uncommitted
<1>2. PendingOrders = <<Ord>> \o queue
  BY <1>1 DEF PendingOrders
<1>3. QED
  BY <1>1, <1>2, HeadOfLine DEF TypeOK

(* The ledger has the queue's orders and arithmetic.                       *)
LEMMA SameOrders ==
  /\ Abstract!Order = Order
  /\ \A o, p, a : Abstract!Covered(o, p, a) <=> Covered(o, p, a)
  /\ \A o, p, a : Abstract!Traded(o, p, a) = Traded(o, p, a)
<1>1. \A q, p : /\ Abstract!BuyTotal(q, p) = BuyTotal(q, p)
               /\ Abstract!SellTotal(q, p) = SellTotal(q, p)
  BY DEF Abstract!BuyTotal, BuyTotal, Abstract!SellTotal, SellTotal
<1>2. Abstract!Order = Order
  BY DEF Abstract!Order, Order, Abstract!Sides, Sides
<1>3. \A o, p, a : Abstract!Covered(o, p, a) <=> Covered(o, p, a)
  BY <1>1 DEF Abstract!Covered, Covered
<1>4. \A o, p, a : /\ Abstract!Debited(o, p, a) = Debited(o, p, a)
                  /\ Abstract!Credited(o, p, a) = Credited(o, p, a)
  BY <1>1, Zenon DEF Abstract!Debited, Debited, Abstract!Credited, Credited
<1>5. \A o, p, a : Abstract!Traded(o, p, a) = Traded(o, p, a)
  BY <1>4, Zenon DEF Abstract!Traded, Traded
<1>6. QED
  BY <1>2, <1>3, <1>5

(* addTransaction is the commit point: it fills or rejects the oldest      *)
(* order at the price read, on the committed balance.                      *)
LEMMA CommitStep ==
  ASSUME TypeOK, Control, TypeOK', Control', CheckStands, AddTransaction
  PROVE  Abstract!Fill(unitPrice) \/ Abstract!Reject(unitPrice)
<1> USE DEF requestVars, walletVars, feedVars
<1>1. /\ PendingOrders # << >> /\ Head(PendingOrders) = Ord
      /\ PendingOrders' = Tail(PendingOrders)
  BY PendingHead DEF AddTransaction, Uncommitted, PendingOrders
<1>2. /\ Ord \in Order /\ Client \in Clients /\ unitPrice \in Prices
      /\ unitPrice > 0
      /\ outcome \in {"COMPLETED", "NoFunds"}
  BY JobType DEF AddTransaction, TypeOK, Control, ReachedAccount
<1>3. Covered(Ord, unitPrice, CommittedBalance[Client]) <=> outcome = "COMPLETED"
  BY DEF AddTransaction, CheckStands
<1>4. history' = [history EXCEPT ![Client] = Append(@, Result)]
  BY DEF AddTransaction
<1>5. CommittedBalance' = wallet
  BY CommittedIsNext DEF AddTransaction, CommittedByPoint
<1>6. CASE outcome = "COMPLETED"
  <2>1. CommittedBalance =
          [wallet EXCEPT ![Client] =
             Undebited(Ord, unitPrice, Uncredited(Ord, unitPrice, @))]
    BY <1>6, CommittedIs DEF AddTransaction, CommittedByPoint
  <2>2. Traded(Ord, unitPrice, CommittedBalance[Client]) = wallet[Client]
    BY <1>2, <2>1, UndoingAnUpdate DEF TypeOK
  <2>3. CommittedBalance' =
          [CommittedBalance EXCEPT ![Client] = Traded(Ord, unitPrice, @)]
    BY <1>2, <1>5, <2>1, <2>2 DEF TypeOK
  <2>4. Result = [order |-> Ord, price |-> unitPrice, outcome |-> "COMPLETED"]
    BY <1>6 DEF Result
  <2>5. Abstract!Fill(unitPrice)
    BY <1>1, <1>2, <1>3, <1>4, <1>6, <2>3, <2>4, SameOrders
       DEF Abstract!Fill, Client
  <2>6. QED
    BY <2>5
<1>7. CASE outcome = "NoFunds"
  <2>1. CommittedBalance' = CommittedBalance
    BY <1>5, <1>7, CommittedIs DEF AddTransaction, CommittedByPoint
  <2>2. Result = [order |-> Ord, price |-> unitPrice, outcome |-> "NoFunds"]
    BY <1>7 DEF Result
  <2>3. Abstract!Reject(unitPrice)
    BY <1>1, <1>2, <1>3, <1>4, <1>7, <2>1, <2>2, SameOrders
       DEF Abstract!Reject, Client
  <2>4. QED
    BY <2>3
<1>8. QED
  BY <1>2, <1>6, <1>7

(* Every other step accepts an order, discards the oldest, or stutters.    *)
LEMMA OtherSteps ==
  ASSUME TypeOK, Control, TypeOK', Control', [Next]_vars, ~ AddTransaction
  PROVE  \/ \E o \in Abstract!Order : Abstract!Accept(o)
         \/ Abstract!Discard
         \/ UNCHANGED <<CommittedBalance, history, PendingOrders>>
<1> USE DEF requestVars, walletVars, outputVars, callerVars, serverVars,
            stopVars, feedVars
<1>0. UNCHANGED CommittedBalance
  BY OthersKeepTheBalance
<1>1. ASSUME NEW k \in Callers, Push(k)
      PROVE  \E o \in Abstract!Order : Abstract!Accept(o)
  <2> DEFINE o == asked[k][1]
  <2>1. o \in Order /\ queue' = Append(queue, o) /\ history' = history
    BY <1>1 DEF Push, TypeOK, Control
  <2>2. job \in Seq(Order) /\ queue \in Seq(Order)
    <3>1. \A x \in Order : <<x>> \in Seq(Order)
      OBVIOUS
    <3>2. job = << >> \/ \E x \in Order : job = <<x>>
      BY DEF TypeOK
    <3>3. QED
      BY <3>1, <3>2, EmptySeq DEF TypeOK
  <2>3. job \o Append(queue, o) = Append(job \o queue, o)
    BY <2>1, <2>2, ConcatAppend
  <2>4. PendingOrders' = Append(PendingOrders, o)
    BY <1>1, <2>1, <2>3 DEF Push, PendingOrders
  <2>5. Abstract!Accept(o)
    BY <1>0, <2>1, <2>4 DEF Abstract!Accept
  <2>6. QED
    BY <2>1, <2>5, SameOrders
<1>2. CASE Take
  <2>1. Head(queue) \in Order /\ <<Head(queue)>> \o Tail(queue) = queue
    BY <1>2, HeadTailProperties, HeadTailConcat DEF Take, TypeOK
  <2>2. PendingOrders' = PendingOrders
    BY <1>2, <2>1 DEF Take, PendingOrders, Uncommitted
  <2>3. QED
    BY <1>0, <1>2, <2>2 DEF Take
<1>3. CASE Lookup \/ Decide
  <2>1. worker \in Uncommitted /\ history' = history /\ queue' = queue /\ job' = job
    BY <1>3 DEF Lookup, Decide, Uncommitted
  <2>2. CASE worker' = "log"
    <3>1. PendingOrders # << >> /\ PendingOrders' = Tail(PendingOrders)
      BY <2>1, <2>2, PendingHead DEF PendingOrders, Uncommitted
    <3>2. QED
      BY <1>0, <2>1, <3>1 DEF Abstract!Discard
  <2>3. CASE worker' # "log"
    <3>1. worker' \in Uncommitted
      BY <1>3, <2>3 DEF Lookup, Decide, Uncommitted
    <3>2. QED
      BY <1>0, <2>1, <3>1 DEF PendingOrders
  <2>4. QED
    BY <2>2, <2>3
<1>4. CASE ReadPrice \/ Debit \/ Credit \/ Save
  BY <1>0, <1>4 DEF ReadPrice, Debit, Credit, Save, PendingOrders, Uncommitted
<1>5. CASE LogToCsv \/ NotifySession
  BY <1>0, <1>5 DEF LogToCsv, NotifySession, PendingOrders, Uncommitted
<1>6. CASE /\ UNCHANGED <<job, outcome, unitPrice, wallet, history, queue>>
           /\ worker' = worker \/ {worker, worker'} \cap Processing = {}
  BY <1>0, <1>6 DEF PendingOrders, Uncommitted
<1>7. QED
  BY <1>1, <1>2, <1>3, <1>4, <1>5, <1>6, OthersKeepTheAccount

-----------------------------------------------------------------------------
(* The theorems.                                                           *)

(* The check made under walletMutex is the check of the ledger: until the  *)
(* commit it says whether the committed balance covers the order.          *)
THEOREM CheckStandsToCommit == Spec => []CheckStands
<1>1. Init => CheckStands
  BY DEF Init, CheckStands
<1>2. IInv /\ IInv' /\ CheckStands /\ [Next]_vars => CheckStands'
  BY NextCheckStands DEF IInv
<1>3. QED
  BY <1>1, <1>2, Invariance, PTL DEF Spec

(* Seen through addTransaction, the queue, its worker and the wallets are  *)
(* the ledger: orders are settled one at a time, in the order of the       *)
(* pushes, whole, and exactly when the account covers them, whatever other *)
(* threads push, read, register, publish or stop between the two updates.  *)
THEOREM LedgerImplemented == Spec => ImplementsLedger
<1>1. Init => Abstract!LedgerInit
  <2> SUFFICES ASSUME Init PROVE Abstract!LedgerInit
    OBVIOUS
  <2>1. TypeOK /\ Control
    BY InitIInv DEF IInv
  <2>2. CommittedBalance = InitialAccount
    BY <2>1, CommittedIs DEF Init, CommittedByPoint
  <2>3. QED
    BY <2>2 DEF Init, PendingOrders, Uncommitted, Abstract!LedgerInit
<1>2. ASSUME IInv, IInv', CheckStands, [Next]_vars
      PROVE  [Abstract!LedgerNext]_<<CommittedBalance, history, PendingOrders>>
  <2>1. TypeOK /\ Control /\ TypeOK' /\ Control' /\ unitPrice \in Prices
    BY <1>2 DEF IInv, TypeOK
  <2>2. CASE AddTransaction
    BY <1>2, <2>1, <2>2, CommitStep DEF Abstract!LedgerNext
  <2>3. CASE ~ AddTransaction
    BY <1>2, <2>1, <2>3, OtherSteps DEF Abstract!LedgerNext
  <2>4. QED
    BY <2>2, <2>3
<1>3. QED
  BY <1>1, <1>2, Invariance, CheckStandsToCommit, PTL
     DEF Spec, ImplementsLedger, Abstract!LedgerSpec, Abstract!ledgerVars

-----------------------------------------------------------------------------
(* Induction.  The library's induction theorems take an operator, which    *)
(* the provers cannot instantiate; these take a set instead.               *)

(* A set of natural numbers has a least element.                           *)
LEMMA LeastElement ==
  ASSUME NEW T, T \subseteq Nat, T # {}
  PROVE  \E x \in T : \A y \in T : x <= y
<1> DEFINE R == {p \in Nat \X Nat : p[1] < p[2]}
<1>1. IsWellFoundedOn(R, Nat)
  BY NatLessThanWellFounded DEF OpToRel
<1>2. \A x, y \in T : y < x => <<y, x>> \in R
  OBVIOUS
<1> HIDE DEF R
<1>3. PICK x \in T : \A y \in T : ~ (<<y, x>> \in R)
  BY <1>1, WFMin
<1>4. \A y \in T : ~ (y < x)
  BY <1>2, <1>3
<1>5. \A y \in T : y \in Nat
  OBVIOUS
<1>6. \A y \in T : x <= y
  BY <1>4, <1>5
<1>7. QED
  BY <1>6

(* Induction up to a bound.                                                *)
LEMMA InductionTo ==
  ASSUME NEW m \in Nat, NEW T, 0 \in T,
         \A n \in 1 .. m : n - 1 \in T => n \in T
  PROVE  \A n \in 0 .. m : n \in T
<1> DEFINE Bad == {n \in 0 .. m : n \notin T}
<1> SUFFICES ASSUME Bad # {} PROVE FALSE
  OBVIOUS
<1>1. PICK x \in Bad : \A y \in Bad : x <= y
  <2>1. Bad \subseteq Nat
    OBVIOUS
  <2>2. QED
    BY <2>1, LeastElement
<1>2. x \in 1 .. m
  BY <1>1
<1>3. x - 1 \in T
  BY <1>1, <1>2
<1>4. QED
  BY <1>1, <1>2, <1>3

-----------------------------------------------------------------------------
(* What a history says of the balances.                                    *)

(* One line of a history, after the balances a.                            *)
Line(t, a) ==
  IF t.outcome = "COMPLETED" THEN Traded(t.order, t.price, a) ELSE a

ReplayStep(c, book, f, n) ==
  IF n = 0 THEN InitialAccount[c]
  ELSE IF book[n].outcome = "COMPLETED"
       THEN Traded(book[n].order, book[n].price, f[n - 1])
       ELSE f[n - 1]

ReplayUpTo(c, book, m, f) == f = [n \in 0 .. m |-> ReplayStep(c, book, f, n)]

(* The recursion that defines Replay has a solution.                       *)
LEMMA ReplayExists ==
  ASSUME NEW c, NEW book, NEW m \in Nat
  PROVE  \E f : ReplayUpTo(c, book, m, f)
<1> DEFINE T == {k \in Nat : \E f : ReplayUpTo(c, book, k, f)}
<1>1. 0 \in T
  <2>1. ReplayUpTo(c, book, 0, [n \in 0 .. 0 |-> InitialAccount[c]])
    BY DEF ReplayUpTo, ReplayStep
  <2>2. QED
    BY <2>1
<1>2. ASSUME NEW k \in 1 .. m, k - 1 \in T PROVE k \in T
  <2>1. PICK f : ReplayUpTo(c, book, k - 1, f)
    BY <1>2
  <2> DEFINE g == [n \in 0 .. k |-> IF n = k THEN ReplayStep(c, book, f, n) ELSE f[n]]
  <2>2. f = [n \in 0 .. k - 1 |-> ReplayStep(c, book, f, n)]
    BY <2>1 DEF ReplayUpTo
  <2>3. \A n \in 0 .. k - 1 : f[n] = ReplayStep(c, book, f, n)
    BY <2>2, Zenon
  <2>4. \A n \in 0 .. k : n # 0 => g[n - 1] = f[n - 1]
    OBVIOUS
  <2>5. \A n \in 0 .. k : g[n] = ReplayStep(c, book, f, n)
    BY <2>3
  <2>6. g = [n \in 0 .. k |-> g[n]]
    OBVIOUS
  <2> HIDE DEF g
  <2>7. \A n \in 0 .. k : ReplayStep(c, book, g, n) = ReplayStep(c, book, f, n)
    BY <2>4 DEF ReplayStep
  <2>8. g = [n \in 0 .. k |-> ReplayStep(c, book, g, n)]
    BY <2>5, <2>6, <2>7
  <2>9. QED
    BY <2>8 DEF ReplayUpTo
<1> HIDE DEF T
<1>3. m \in T
  BY <1>1, <1>2, InductionTo
<1>4. QED
  BY <1>3 DEF T

(* Replay, line by line.                                                   *)
LEMMA ReplayUnfolds ==
  ASSUME NEW c, NEW book \in Seq(Transaction)
  PROVE  /\ Replay(c, book)[0] = InitialAccount[c]
         /\ \A n \in 1 .. Len(book) :
              Replay(c, book)[n] = Line(book[n], Replay(c, book)[n - 1])
<1> DEFINE R == Replay(c, book)
<1>1. Len(book) \in Nat
  BY LenProperties
<1>2. R = CHOOSE f : ReplayUpTo(c, book, Len(book), f)
  BY DEF Replay, ReplayUpTo, ReplayStep
<1>3. ReplayUpTo(c, book, Len(book), R)
  BY <1>1, <1>2, ReplayExists
<1> HIDE DEF R
<1>4. R = [n \in 0 .. Len(book) |-> ReplayStep(c, book, R, n)]
  BY <1>3 DEF ReplayUpTo
<1>5. \A n \in 0 .. Len(book) : R[n] = ReplayStep(c, book, R, n)
  BY <1>4, Zenon
<1>6. QED
  BY <1>1, <1>5 DEF R, ReplayStep, Line

(* A completed line trades, and any other leaves the balances alone.       *)
LEMMA LineType ==
  ASSUME NEW t \in Transaction, NEW a \in Account
  PROVE  Line(t, a) \in Account
<1>1. t.order \in Order /\ t.price \in Prices
  BY DEF Transaction
<1>2. Traded(t.order, t.price, a) \in Account
  BY <1>1, UpdateTypes DEF Traded
<1>3. QED
  BY <1>2 DEF Line

(* A history always says something: balances after each of its lines.      *)
LEMMA ReplayType ==
  ASSUME NEW c \in Clients, NEW book \in Seq(Transaction)
  PROVE  \A n \in 0 .. Len(book) : Replay(c, book)[n] \in Account
<1> DEFINE T == {n \in Nat : n <= Len(book) => Replay(c, book)[n] \in Account}
<1>1. Len(book) \in Nat
  BY LenProperties
<1>2. 0 \in T
  BY ReplayUnfolds, OrdersAssumption DEF Account
<1>3. ASSUME NEW n \in 1 .. Len(book), n - 1 \in T PROVE n \in T
  <2>1. Replay(c, book)[n - 1] \in Account
    BY <1>1, <1>3
  <2>2. book[n] \in Transaction
    BY <1>1, ElementOfSeq
  <2>3. QED
    BY <2>1, <2>2, LineType, ReplayUnfolds
<1> HIDE DEF T
<1>4. \A n \in 0 .. Len(book) : n \in T
  BY <1>1, <1>2, <1>3, InductionTo
<1>5. QED
  BY <1>1, <1>4 DEF T

(* One more line leaves what the earlier ones said.                        *)
LEMMA ReplayAppend ==
  ASSUME NEW c \in Clients, NEW book \in Seq(Transaction), NEW t \in Transaction
  PROVE  /\ \A n \in 0 .. Len(book) :
              Replay(c, Append(book, t))[n] = Replay(c, book)[n]
         /\ Replay(c, Append(book, t))[Len(book) + 1]
              = Line(t, Replay(c, book)[Len(book)])
<1> DEFINE book1 == Append(book, t)
           T == {n \in Nat : n <= Len(book) => Replay(c, book1)[n] = Replay(c, book)[n]}
<1>1. /\ Len(book) \in Nat
      /\ book1 \in Seq(Transaction)
      /\ Len(book1) = Len(book) + 1
      /\ \A i \in 1 .. Len(book) : book1[i] = book[i]
      /\ book1[Len(book) + 1] = t
  BY LenProperties, AppendProperties
<1> HIDE DEF book1
<1>2. /\ Replay(c, book)[0] = InitialAccount[c]
      /\ \A n \in 1 .. Len(book) :
           Replay(c, book)[n] = Line(book[n], Replay(c, book)[n - 1])
  BY ReplayUnfolds
<1>3. /\ Replay(c, book1)[0] = InitialAccount[c]
      /\ \A n \in 1 .. Len(book) + 1 :
           Replay(c, book1)[n] = Line(book1[n], Replay(c, book1)[n - 1])
  BY <1>1, ReplayUnfolds
<1>4. 0 \in T
  BY <1>2, <1>3
<1>5. ASSUME NEW n \in 1 .. Len(book), n - 1 \in T PROVE n \in T
  <2>1. Replay(c, book1)[n - 1] = Replay(c, book)[n - 1]
    BY <1>1, <1>5
  <2>2. n \in 1 .. Len(book) + 1 /\ book1[n] = book[n]
    BY <1>1
  <2>3. Replay(c, book1)[n] = Replay(c, book)[n]
    BY <1>2, <1>3, <2>1, <2>2
  <2>4. QED
    BY <1>1, <2>3
<1> HIDE DEF T
<1>6. \A n \in 0 .. Len(book) : n \in T
  BY <1>1, <1>4, <1>5, InductionTo
<1>7. \A n \in 0 .. Len(book) : Replay(c, book1)[n] = Replay(c, book)[n]
  BY <1>1, <1>6 DEF T
<1>8. Replay(c, book1)[Len(book) + 1] = Line(t, Replay(c, book)[Len(book)])
  <2>1. Len(book) + 1 \in 1 .. Len(book) + 1 /\ (Len(book) + 1) - 1 = Len(book)
    BY <1>1
  <2>2. Replay(c, book1)[Len(book) + 1] = Line(t, Replay(c, book1)[Len(book)])
    BY <1>1, <1>3, <2>1
  <2>3. QED
    BY <1>1, <1>7, <2>2
<1>9. QED
  BY <1>7, <1>8 DEF book1

-----------------------------------------------------------------------------
(* The elements of a log at some places.                                   *)

AtStep(s, places, f, n) ==
  IF n = 0 THEN << >>
  ELSE IF n \in places THEN Append(f[n - 1], s[n]) ELSE f[n - 1]

AtUpTo(s, places, m, f) == f = [n \in 0 .. m |-> AtStep(s, places, f, n)]

(* The recursion that defines At has a solution.                           *)
LEMMA AtExists ==
  ASSUME NEW s, NEW places, NEW m \in Nat
  PROVE  \E f : AtUpTo(s, places, m, f)
<1> DEFINE T == {k \in Nat : \E f : AtUpTo(s, places, k, f)}
<1>1. 0 \in T
  <2>1. AtUpTo(s, places, 0, [n \in 0 .. 0 |-> << >>])
    BY DEF AtUpTo, AtStep
  <2>2. QED
    BY <2>1
<1>2. ASSUME NEW k \in 1 .. m, k - 1 \in T PROVE k \in T
  <2>1. PICK f : AtUpTo(s, places, k - 1, f)
    BY <1>2
  <2> DEFINE g == [n \in 0 .. k |-> IF n = k THEN AtStep(s, places, f, n) ELSE f[n]]
  <2>2. f = [n \in 0 .. k - 1 |-> AtStep(s, places, f, n)]
    BY <2>1 DEF AtUpTo
  <2>3. \A n \in 0 .. k - 1 : f[n] = AtStep(s, places, f, n)
    BY <2>2, Zenon
  <2>4. \A n \in 0 .. k : n # 0 => g[n - 1] = f[n - 1]
    OBVIOUS
  <2>5. \A n \in 0 .. k : g[n] = AtStep(s, places, f, n)
    BY <2>3
  <2>6. g = [n \in 0 .. k |-> g[n]]
    OBVIOUS
  <2> HIDE DEF g
  <2>7. \A n \in 0 .. k : AtStep(s, places, g, n) = AtStep(s, places, f, n)
    BY <2>4 DEF AtStep
  <2>8. g = [n \in 0 .. k |-> AtStep(s, places, g, n)]
    BY <2>5, <2>6, <2>7
  <2>9. QED
    BY <2>8 DEF AtUpTo
<1> HIDE DEF T
<1>3. m \in T
  BY <1>1, <1>2, InductionTo
<1>4. QED
  BY <1>3 DEF T

(* A solution is built place by place.                                     *)
LEMMA AtUnfolds ==
  ASSUME NEW s, NEW places, NEW m \in Nat, NEW f, AtUpTo(s, places, m, f)
  PROVE  \A n \in 0 .. m : f[n] = AtStep(s, places, f, n)
BY Zenon DEF AtUpTo

(* At picks the last element of such a solution.                           *)
LEMMA AtIsLast ==
  ASSUME NEW S, NEW s \in Seq(S), NEW places
  PROVE  \E f : AtUpTo(s, places, Len(s), f) /\ At(s, places) = f[Len(s)]
<1> DEFINE F == CHOOSE f : AtUpTo(s, places, Len(s), f)
<1>1. AtUpTo(s, places, Len(s), F)
  BY AtExists, LenProperties
<1>2. At(s, places) = F[Len(s)]
  BY DEF At, AtUpTo, AtStep
<1>3. QED
  BY <1>1, <1>2

(* One more entry in a log: it is picked or not, and the others as before. *)
LEMMA AtAppend ==
  ASSUME NEW S, NEW s \in Seq(S), NEW e \in S, NEW I, NEW J,
         I \cap (1 .. Len(s)) = J \cap (1 .. Len(s))
  PROVE  At(Append(s, e), J) =
           IF Len(s) + 1 \in J THEN Append(At(s, I), e) ELSE At(s, I)
<1> DEFINE s1 == Append(s, e)
<1>1. /\ Len(s) \in Nat
      /\ s1 \in Seq(S)
      /\ Len(s1) = Len(s) + 1
      /\ \A i \in 1 .. Len(s) : s1[i] = s[i]
      /\ s1[Len(s) + 1] = e
  BY LenProperties, AppendProperties
<1> HIDE DEF s1
<1>2. PICK f : AtUpTo(s, I, Len(s), f) /\ At(s, I) = f[Len(s)]
  BY AtIsLast
<1>3. PICK g : AtUpTo(s1, J, Len(s) + 1, g) /\ At(s1, J) = g[Len(s) + 1]
  BY <1>1, AtIsLast
<1>4. \A n \in 0 .. Len(s) : f[n] = AtStep(s, I, f, n)
  BY <1>1, <1>2, AtUnfolds
<1>5. \A n \in 0 .. Len(s) + 1 : g[n] = AtStep(s1, J, g, n)
  BY <1>1, <1>3, AtUnfolds
<1> DEFINE T == {n \in Nat : n <= Len(s) => g[n] = f[n]}
<1>6. 0 \in T
  BY <1>1, <1>4, <1>5 DEF AtStep
<1>7. ASSUME NEW n \in 1 .. Len(s), n - 1 \in T PROVE n \in T
  <2>1. g[n - 1] = f[n - 1]
    BY <1>1, <1>7
  <2>2. n \in I <=> n \in J
    OBVIOUS
  <2>3. f[n] = AtStep(s, I, f, n) /\ g[n] = AtStep(s1, J, g, n) /\ s1[n] = s[n] /\ n # 0
    BY <1>1, <1>4, <1>5
  <2>4. g[n] = f[n]
    BY <2>1, <2>2, <2>3 DEF AtStep
  <2>5. QED
    BY <1>1, <2>4
<1> HIDE DEF T
<1>8. \A n \in 0 .. Len(s) : n \in T
  BY <1>1, <1>6, <1>7, InductionTo
<1>9. g[Len(s)] = f[Len(s)]
  BY <1>1, <1>8 DEF T
<1>10. g[Len(s) + 1] = AtStep(s1, J, g, Len(s) + 1) /\ (Len(s) + 1) - 1 = Len(s)
       /\ Len(s) + 1 # 0
  BY <1>1, <1>5
<1>11. At(s1, J) = IF Len(s) + 1 \in J THEN Append(f[Len(s)], s1[Len(s) + 1])
                                      ELSE f[Len(s)]
  BY <1>3, <1>9, <1>10 DEF AtStep
<1>12. At(s1, J) = IF Len(s) + 1 \in J THEN Append(At(s, I), e) ELSE At(s, I)
  BY <1>1, <1>2, <1>11
<1>13. QED
  BY <1>12 DEF s1

(* The elements at some places of a sequence are a sequence.               *)
LEMMA AtType ==
  ASSUME NEW S, NEW s \in Seq(S), NEW places
  PROVE  At(s, places) \in Seq(S)
<1>1. Len(s) \in Nat
  BY LenProperties
<1>2. PICK f : AtUpTo(s, places, Len(s), f) /\ At(s, places) = f[Len(s)]
  BY AtIsLast
<1>3. \A n \in 0 .. Len(s) : f[n] = AtStep(s, places, f, n)
  BY <1>1, <1>2, AtUnfolds
<1> DEFINE T == {n \in Nat : n <= Len(s) => f[n] \in Seq(S)}
<1>4. 0 \in T
  <2>1. 0 \in 0 .. Len(s)
    BY <1>1
  <2>2. f[0] = << >>
    BY <1>3, <2>1 DEF AtStep
  <2>3. << >> \in Seq(S)
    BY EmptySeq
  <2>4. QED
    BY <2>2, <2>3
<1>5. ASSUME NEW n \in 1 .. Len(s), n - 1 \in T PROVE n \in T
  <2>1. f[n - 1] \in Seq(S) /\ s[n] \in S
    BY <1>1, <1>5, ElementOfSeq
  <2>2. f[n] = AtStep(s, places, f, n) /\ n # 0
    BY <1>1, <1>3
  <2>3. f[n] \in Seq(S)
    BY <2>1, <2>2, AppendProperties DEF AtStep
  <2>4. QED
    BY <1>1, <2>3
<1> HIDE DEF T
<1>6. \A n \in 0 .. Len(s) : n \in T
  BY <1>1, <1>4, <1>5, InductionTo
<1>7. f[Len(s)] \in Seq(S)
  BY <1>1, <1>6 DEF T
<1>8. QED
  BY <1>2, <1>7

(* A log with nothing in it has nothing at any place.                      *)
LEMMA AtEmpty == \A places : At(<< >>, places) = << >>
<1> SUFFICES ASSUME NEW places PROVE At(<< >>, places) = << >>
  OBVIOUS
<1>1. << >> \in Seq({}) /\ Len(<< >>) = 0
  BY EmptySeq
<1>2. PICK f : AtUpTo(<< >>, places, 0, f) /\ At(<< >>, places) = f[0]
  BY <1>1, AtIsLast
<1>3. f[0] = AtStep(<< >>, places, f, 0)
  BY <1>2, AtUnfolds
<1>4. QED
  BY <1>2, <1>3 DEF AtStep

-----------------------------------------------------------------------------
(* The books.                                                              *)

(* The committed balances are what the histories say.                      *)
CommittedBooks ==
  \A c \in Clients :
    CommittedBalance[c] = Replay(c, history[c])[Len(history[c])]

(* Only addTransaction writes in a history.                                *)
LEMMA OthersKeepTheHistory == [Next]_vars /\ ~ AddTransaction => UNCHANGED history
BY DEF Next, vars, requestVars, walletVars, outputVars, callerVars, serverVars,
       stopVars, feedVars, Stopping, Show, Submit, Process, ProcessRequest,
       Start, StopRequest, StopNotify, StopJoin, PublishPrice,
       RegisterSession, UnregisterSession, StartBot, StopBot, ReadUsd,
       ReadBtc, Reply,
       AddRequest, Push, NotifyOne, SpuriousWakeup, Park, FallAsleep, Take,
       Exit, Lookup, ReadPrice, Decide, Debit, Credit, Save, LogToCsv,
       NotifySession

(* A line is written when the balances it speaks of are committed.         *)
LEMMA NextCommittedBooks ==
  ASSUME TypeOK, Control, TypeOK', Control', CheckStands, CommittedBooks,
         [Next]_vars
  PROVE  CommittedBooks'
<1>1. CASE ~ AddTransaction
  BY <1>1, OthersKeepTheBalance, OthersKeepTheHistory DEF CommittedBooks
<1>2. CASE AddTransaction
  <2>1. /\ Ord \in Order /\ Client \in Clients /\ unitPrice \in Prices
        /\ Result \in Transaction
        /\ outcome \in {"COMPLETED", "NoFunds"}
    BY <1>2, JobType, ResultType
       DEF AddTransaction, TypeOK, Control, ReachedAccount, Outcomes
  <2>2. Head(PendingOrders) = Ord
    BY <1>2, PendingHead DEF AddTransaction, Uncommitted
  <2>3. history' = [history EXCEPT ![Client] = Append(@, Result)]
    BY <1>2 DEF AddTransaction
  <2>4. CommittedBalance' =
          [CommittedBalance EXCEPT ![Client] = Line(Result, @)]
    <3>1. CommittedBalance = [c \in Clients |-> CommittedBalance[c]]
      BY DEF CommittedBalance
    <3>2. CASE outcome = "COMPLETED"
      <4>1. CommittedBalance = [wallet EXCEPT ![Client] =
               Undebited(Ord, unitPrice, Uncredited(Ord, unitPrice, @))]
        BY <1>2, <3>2, CommittedIs DEF AddTransaction, CommittedByPoint
      <4>2. CommittedBalance' = wallet
        BY <1>2, CommittedIsNext DEF AddTransaction, CommittedByPoint, walletVars
      <4>3. Line(Result, CommittedBalance[Client]) = wallet[Client]
        BY <2>1, <3>2, <4>1, UndoingAnUpdate DEF Line, Result, TypeOK
      <4>4. QED
        BY <2>1, <4>1, <4>2, <4>3 DEF TypeOK
    <3>3. CASE outcome # "COMPLETED"
      <4>1. CommittedBalance' = CommittedBalance
        BY <1>2, <3>3, CommittedIs, CommittedIsNext
           DEF AddTransaction, CommittedByPoint
      <4>2. Line(Result, CommittedBalance[Client]) = CommittedBalance[Client]
        BY <3>3 DEF Line, Result
      <4>3. QED
        BY <3>1, <4>1, <4>2
    <3>4. QED
      BY <3>2, <3>3
  <2>5. SUFFICES ASSUME NEW c \in Clients
                 PROVE  CommittedBalance'[c] = Replay(c, history'[c])[Len(history'[c])]
    BY DEF CommittedBooks
  <2>6. /\ history[c] \in Seq(Transaction)
        /\ CommittedBalance[c] = Replay(c, history[c])[Len(history[c])]
    BY DEF TypeOK, CommittedBooks
  <2>7. CASE c = Client
    <3>1. /\ history'[c] = Append(history[c], Result)
          /\ CommittedBalance'[c] = Line(Result, CommittedBalance[c])
      BY <2>1, <2>3, <2>4, <2>7 DEF TypeOK, CommittedBalance
    <3>2. Len(history'[c]) = Len(history[c]) + 1
      BY <2>1, <2>6, <3>1, AppendProperties
    <3>3. QED
      BY <2>1, <2>6, <3>1, <3>2, ReplayAppend
  <2>8. CASE c # Client
    <3>1. history'[c] = history[c] /\ CommittedBalance'[c] = CommittedBalance[c]
      BY <2>1, <2>3, <2>4, <2>8 DEF TypeOK, CommittedBalance
    <3>2. QED
      BY <2>6, <3>1
  <2>9. QED
    BY <2>7, <2>8
<1>3. QED
  BY <1>1, <1>2

(* The history with the transaction being applied is a history.            *)
LEMMA BookType ==
  ASSUME TypeOK, Control, NEW c \in Clients
  PROVE  Book(c) \in Seq(Transaction)
<1>1. history[c] \in Seq(Transaction)
  BY DEF TypeOK
<1>2. worker \in {"credit", "save", "append"} /\ outcome = "COMPLETED"
        => Result \in Transaction
  BY ResultType DEF Outcomes
<1>3. QED
  BY <1>1, <1>2, AppendProperties DEF Book

(* A transaction being applied is the last line of its client's book, and  *)
(* the committed balances are those before it.                             *)
LEMMA LastLine ==
  ASSUME TypeOK, Control, CommittedBooks,
         worker \in {"credit", "save", "append"}, outcome = "COMPLETED"
  PROVE  LET n == Len(history[Client])
         IN  /\ n \in Nat
             /\ Book(Client) = Append(history[Client], Result)
             /\ Len(Book(Client)) = n + 1
             /\ Book(Client)[n + 1] = Result
             /\ Balances(Client)[n] = CommittedBalance[Client]
             /\ Balances(Client)[n + 1] = Traded(Ord, unitPrice, CommittedBalance[Client])
             /\ FirstOf(Book(Client), n) = history[Client]
<1> DEFINE n == Len(history[Client])
<1>1. Client \in Clients /\ Result \in Transaction
  BY JobType, ResultType DEF Outcomes
<1>2. history[Client] \in Seq(Transaction)
  BY <1>1 DEF TypeOK
<1>3. n \in Nat
  BY <1>2, LenProperties
<1>4. Book(Client) = Append(history[Client], Result)
  BY DEF Book
<1>5. /\ Len(Book(Client)) = n + 1 /\ Book(Client)[n + 1] = Result
      /\ Book(Client) \in Seq(Transaction)
      /\ \A i \in 1 .. n : Book(Client)[i] = history[Client][i]
  BY <1>1, <1>2, <1>4, AppendProperties
<1>6. Balances(Client)[n] = CommittedBalance[Client]
  BY <1>1, <1>2, <1>3, <1>4, ReplayAppend DEF Balances, CommittedBooks
<1>7. Balances(Client)[n + 1] = Traded(Ord, unitPrice, CommittedBalance[Client])
  <2>1. Balances(Client)[n + 1] = Line(Result, CommittedBalance[Client])
    BY <1>1, <1>2, <1>3, <1>4, ReplayAppend DEF Balances, CommittedBooks
  <2>2. QED
    BY <2>1 DEF Line, Result
<1>8. FirstOf(Book(Client), n) = history[Client]
  <2>1. /\ SubSeq(Book(Client), 1, n) \in Seq(Transaction)
        /\ Len(SubSeq(Book(Client), 1, n)) = n
        /\ \A i \in 1 .. n : SubSeq(Book(Client), 1, n)[i] = Book(Client)[i]
    BY <1>3, <1>5
  <2>2. QED
    BY <1>2, <1>3, <1>5, <2>1, SeqEqual DEF FirstOf
<1>9. QED
  BY <1>3, <1>4, <1>5, <1>6, <1>7, <1>8

(* With the transaction being applied, the books balance.                  *)
LEMMA BooksFollow ==
  ASSUME TypeOK, Control, CommittedBooks
  PROVE  BooksBalance
<1> SUFFICES ASSUME NEW c \in Clients, ~ (worker = "credit" /\ Client = c)
             PROVE  wallet[c] = Balances(c)[Len(Book(c))]
  BY DEF BooksBalance
<1>1. CASE worker \in {"save", "append"} /\ outcome = "COMPLETED" /\ Client = c
  <2>1. Ord \in Order /\ unitPrice \in Prices /\ wallet[c] \in Account
    BY <1>1, JobType DEF TypeOK
  <2>2. CommittedBalance[c] = Undebited(Ord, unitPrice, Uncredited(Ord, unitPrice, wallet[c]))
    BY <1>1, CommittedIs DEF CommittedByPoint, TypeOK
  <2>3. Traded(Ord, unitPrice, CommittedBalance[c]) = wallet[c]
    BY <2>1, <2>2, UndoingAnUpdate
  <2>4. QED
    BY <1>1, <2>3, LastLine
<1>2. CASE ~ (worker \in {"save", "append"} /\ outcome = "COMPLETED" /\ Client = c)
  <2>1. Book(c) = history[c]
    BY <1>2 DEF Book
  <2>2. CommittedBalance[c] = wallet[c]
    BY <1>2 DEF CommittedBalance
  <2>3. QED
    BY <2>1, <2>2 DEF Balances, CommittedBooks
<1>3. QED
  BY <1>1, <1>2

(* A book only grows, by the line of the order whose debit or refusal is   *)
(* being made; addTransaction changes nothing in it when it is completed.  *)
LEMMA BooksGrow ==
  ASSUME TypeOK, Control, [Next]_vars, NEW c \in Clients
  PROVE  \/ Book(c)' = Book(c)
         \/ \E t \in Transaction : Book(c)' = Append(Book(c), t)
<1> USE DEF requestVars, walletVars, outputVars, callerVars, serverVars,
            stopVars, feedVars
<1>1. ASSUME NEW k \in Callers, Push(k) PROVE Book(c)' = Book(c)
  BY <1>1 DEF Push, Book, Result, Ord, Client
<1>2. CASE Take \/ Lookup \/ ReadPrice \/ Decide \/ LogToCsv \/ NotifySession
  BY <1>2 DEF Take, Lookup, ReadPrice, Decide, LogToCsv, NotifySession, Book, Control
<1>3. CASE Debit
  <2>1. Result \in Transaction /\ outcome = "COMPLETED" /\ outcome' = "COMPLETED"
    BY <1>3, ResultType DEF Debit, Control, Outcomes
  <2>2. Result' = Result /\ Client' = Client /\ history' = history
    BY <1>3 DEF Debit, Result, Ord, Client
  <2>3. Book(c) = history[c]
    BY <1>3 DEF Debit, Book
  <2>4. Book(c)' = IF Client = c THEN Append(history[c], Result) ELSE history[c]
    BY <1>3, <2>1, <2>2 DEF Debit, Book
  <2>5. QED
    BY <2>1, <2>3, <2>4
<1>4. CASE Credit \/ Save
  BY <1>4 DEF Credit, Save, Book, Result, Ord, Client, Control
<1>5. CASE AddTransaction
  <2>1. Result \in Transaction /\ Client \in Clients
    BY <1>5, ResultType, JobType
       DEF AddTransaction, Control, TypeOK, ReachedAccount, Outcomes
  <2>2. Book(c)' = IF Client = c THEN Append(history[c], Result) ELSE history[c]
    BY <1>5, <2>1 DEF AddTransaction, Book, TypeOK
  <2>3. Book(c) = IF Client = c /\ outcome = "COMPLETED"
                  THEN Append(history[c], Result) ELSE history[c]
    BY <1>5 DEF AddTransaction, Book
  <2>4. QED
    BY <2>1, <2>2, <2>3
<1>6. CASE /\ UNCHANGED <<job, outcome, unitPrice, wallet, history, queue>>
           /\ worker' = worker \/ {worker, worker'} \cap Processing = {}
  BY <1>6 DEF Book, Result, Ord, Client
<1>7. QED
  BY <1>1, <1>2, <1>3, <1>4, <1>5, <1>6, OthersKeepTheAccount

(* What a book said it still says when it has grown.                       *)
LEMMA BooksRemember ==
  ASSUME TypeOK, Control, [Next]_vars, NEW c \in Clients
  PROVE  /\ Len(Book(c)) \in Nat /\ Len(Book(c)') \in Nat
         /\ Len(Book(c)) <= Len(Book(c)')
         /\ \A n \in 0 .. Len(Book(c)) : Balances(c)'[n] = Balances(c)[n]
         /\ \A n \in 1 .. Len(Book(c)) :
              /\ Book(c)'[n] = Book(c)[n]
              /\ FirstOf(Book(c)', n - 1) = FirstOf(Book(c), n - 1)
<1>1. Book(c) \in Seq(Transaction) /\ Len(Book(c)) \in Nat
  BY BookType, LenProperties
<1>2. CASE Book(c)' = Book(c)
  BY <1>1, <1>2 DEF Balances
<1>3. ASSUME NEW t \in Transaction, Book(c)' = Append(Book(c), t)
      PROVE  /\ Len(Book(c)') = Len(Book(c)) + 1
             /\ \A n \in 0 .. Len(Book(c)) : Balances(c)'[n] = Balances(c)[n]
             /\ \A n \in 1 .. Len(Book(c)) :
                  /\ Book(c)'[n] = Book(c)[n]
                  /\ FirstOf(Book(c)', n - 1) = FirstOf(Book(c), n - 1)
  <2> DEFINE b == Book(c)
             b1 == Append(b, t)
  <2>1. /\ b1 \in Seq(Transaction) /\ Len(b1) = Len(b) + 1
        /\ \A n \in 1 .. Len(b) : b1[n] = b[n]
    BY <1>1, AppendProperties
  <2>2. \A n \in 0 .. Len(b) : Replay(c, b1)[n] = Replay(c, b)[n]
    BY <1>1, ReplayAppend
  <2>3. ASSUME NEW n \in 1 .. Len(b)
        PROVE  FirstOf(b1, n - 1) = FirstOf(b, n - 1)
    <3> HIDE DEF b, b1
    <3>1. /\ SubSeq(b1, 1, n - 1) \in Seq(Transaction)
          /\ Len(SubSeq(b1, 1, n - 1)) = n - 1
          /\ \A i \in 1 .. n - 1 : SubSeq(b1, 1, n - 1)[i] = b1[i]
      BY <1>1, <2>1 DEF b
    <3>2. /\ SubSeq(b, 1, n - 1) \in Seq(Transaction)
          /\ Len(SubSeq(b, 1, n - 1)) = n - 1
          /\ \A i \in 1 .. n - 1 : SubSeq(b, 1, n - 1)[i] = b[i]
      BY <1>1 DEF b
    <3>3. \A i \in 1 .. n - 1 : b1[i] = b[i]
      BY <2>1, <1>1 DEF b
    <3>4. QED
      BY <3>1, <3>2, <3>3, SeqEqual DEF FirstOf
  <2>4. Balances(c)' = Replay(c, b1) /\ Balances(c) = Replay(c, b)
    BY <1>3 DEF Balances
  <2>5. QED
    BY <1>3, <2>1, <2>2, <2>3, <2>4
<1>4. QED
  BY <1>1, <1>2, <1>3, BooksGrow

-----------------------------------------------------------------------------
(* What a file and a reader show.                                          *)

(* Only saveToFile writes a wallet file.                                   *)
LEMMA OthersKeepTheFile == [Next]_vars /\ ~ Save => UNCHANGED file
BY DEF Next, vars, requestVars, walletVars, outputVars, callerVars, serverVars,
       stopVars, feedVars, Stopping, Show, Submit, Process, ProcessRequest,
       Start, StopRequest, StopNotify, StopJoin, PublishPrice,
       RegisterSession, UnregisterSession, StartBot, StopBot, ReadUsd,
       ReadBtc, Reply,
       AddRequest, Push, NotifyOne, SpuriousWakeup, Park, FallAsleep, Take,
       Exit, Lookup, ReadPrice, Decide, Debit, Credit, AddTransaction,
       LogToCsv, NotifySession

(* What saving a line of a book wrote, it still would: no later step       *)
(* rewrites the past.                                                      *)
LEMMA SavesRemain ==
  ASSUME TypeOK, Control, CommittedBooks, BooksBalance, [Next]_vars,
         NEW c \in Clients, NEW n \in 1 .. Len(Book(c))
  PROVE  /\ n \in 1 .. Len(Book(c)')
         /\ Book(c)'[n] = Book(c)[n]
         /\ SavesOf(c, n)' = SavesOf(c, n)
<1>1. /\ Len(Book(c)) \in Nat /\ Len(Book(c)') \in Nat
      /\ Len(Book(c)) <= Len(Book(c)')
      /\ \A k \in 0 .. Len(Book(c)) : Balances(c)'[k] = Balances(c)[k]
      /\ \A k \in 1 .. Len(Book(c)) :
           /\ Book(c)'[k] = Book(c)[k]
           /\ FirstOf(Book(c)', k - 1) = FirstOf(Book(c), k - 1)
  BY BooksRemember
<1>2. n \in 0 .. Len(Book(c)) /\ n \in 1 .. Len(Book(c)')
  BY <1>1
<1>3. /\ Balances(c)'[n] = Balances(c)[n]
      /\ Book(c)'[n] = Book(c)[n]
      /\ FirstOf(Book(c)', n - 1) = FirstOf(Book(c), n - 1)
  BY <1>1, <1>2
<1>4. SavesOf(c, n)' = SavesOf(c, n)
  BY <1>3 DEF SavesOf, Written, Unfinished
<1>5. QED
  BY <1>2, <1>3, <1>4

(* A file that tells the past goes on telling it; one just written, whole  *)
(* or cut short, tells the last state, short of the transaction saved.     *)
LEMMA NextFileTellsThePast ==
  ASSUME TypeOK, Control, CommittedBooks, BooksBalance, FileTellsThePast,
         [Next]_vars
  PROVE  FileTellsThePast'
<1> SUFFICES ASSUME NEW c \in Clients
             PROVE  \/ file'[c] = Written(InitialAccount[c], << >>)
                    \/ \E n \in 1 .. Len(Book(c)') :
                         /\ Book(c)'[n].outcome = "COMPLETED"
                         /\ file'[c] \in SavesOf(c, n)'
  BY DEF FileTellsThePast, Written
<1>1. CASE file'[c] = file[c]
  <2>1. CASE file[c] = Written(InitialAccount[c], << >>)
    BY <1>1, <2>1
  <2>2. ASSUME NEW n \in 1 .. Len(Book(c)),
               Book(c)[n].outcome = "COMPLETED", file[c] \in SavesOf(c, n)
        PROVE  /\ n \in 1 .. Len(Book(c)')
               /\ Book(c)'[n].outcome = "COMPLETED"
               /\ file'[c] \in SavesOf(c, n)'
    BY <1>1, <2>2, SavesRemain
  <2>3. QED
    BY <2>1, <2>2 DEF FileTellsThePast
<1>2. CASE file'[c] # file[c]
  <2>1. Save /\ Client = c /\ outcome = "COMPLETED"
    BY <1>2, OthersKeepTheFile DEF Save, TypeOK, Control
  <2>2. file'[c] \in {Written(wallet[c], history[c])} \cup Unfinished(wallet[c], history[c])
    BY <1>2, <2>1 DEF Save, TypeOK
  <2> DEFINE n == Len(history[c])
  <2>3. /\ n \in Nat /\ Len(Book(c)) = n + 1 /\ Book(c)[n + 1] = Result
        /\ FirstOf(Book(c), n) = history[c]
    BY <2>1, LastLine DEF Save
  <2>4. wallet[c] = Balances(c)[n + 1]
    BY <2>1, <2>3 DEF BooksBalance, Save
  <2> HIDE DEF n
  <2>5. n + 1 \in 1 .. Len(Book(c)) /\ (n + 1) - 1 = n
    BY <2>3
  <2>6. Book(c)[n + 1].outcome = "COMPLETED"
    BY <2>1, <2>3 DEF Result
  <2>7. file'[c] \in SavesOf(c, n + 1)
    <3>1. FirstOf(Book(c), (n + 1) - 1) = history[c]
      BY <2>3, <2>5
    <3>2. SavesOf(c, n + 1)
            = {Written(wallet[c], history[c])} \cup Unfinished(wallet[c], history[c])
      BY <2>4, <3>1 DEF SavesOf
    <3>3. QED
      BY <2>2, <3>2
  <2>8. PICK l : l = n + 1
    OBVIOUS
  <2>9. /\ l \in 1 .. Len(Book(c))
        /\ Book(c)[l].outcome = "COMPLETED"
        /\ file'[c] \in SavesOf(c, l)
    BY <2>5, <2>6, <2>7, <2>8
  <2>10. /\ l \in 1 .. Len(Book(c)')
         /\ Book(c)'[l].outcome = "COMPLETED"
         /\ file'[c] \in SavesOf(c, l)'
    BY <2>9, SavesRemain
  <2>11. QED
    BY <2>10
<1>3. QED
  BY <1>1, <1>2

(* Whatever the worker is doing, each figure of a wallet is one its book   *)
(* knows: between the two updates, of the old balances or of the new.      *)
LEMMA FiguresAreKnown ==
  ASSUME TypeOK, Control, CommittedBooks, BooksBalance, NEW c \in Clients
  PROVE  /\ \E n \in 0 .. Len(Book(c)) : wallet[c].usd = Balances(c)[n].usd
         /\ \E n \in 0 .. Len(Book(c)) : wallet[c].btc = Balances(c)[n].btc
<1>1. Len(Book(c)) \in Nat
  BY BookType, LenProperties
<1>2. CASE ~ (worker = "credit" /\ Client = c)
  BY <1>1, <1>2 DEF BooksBalance
<1>3. CASE worker = "credit" /\ Client = c
  <2> DEFINE n == Len(history[c])
             old == CommittedBalance[c]
  <2>1. outcome = "COMPLETED"
    BY <1>3 DEF Control
  <2>2. /\ n \in 0 .. Len(Book(c)) /\ n + 1 \in 0 .. Len(Book(c))
        /\ Balances(c)[n] = old
        /\ Balances(c)[n + 1] = Traded(Ord, unitPrice, old)
    BY <1>3, <2>1, LastLine
  <2>3. /\ Ord \in Order /\ unitPrice \in Prices /\ wallet[c] \in Account
        /\ Client \in Clients
    BY <1>3, JobType DEF TypeOK
  <2>4. old = Undebited(Ord, unitPrice, wallet[c])
    BY <1>3, <2>3, CommittedIs DEF CommittedByPoint, TypeOK
  <2> HIDE DEF n, old
  <2>5. \/ /\ wallet[c].usd = Balances(c)[n + 1].usd
           /\ wallet[c].btc = Balances(c)[n].btc
        \/ /\ wallet[c].usd = Balances(c)[n].usd
           /\ wallet[c].btc = Balances(c)[n + 1].btc
    BY <2>2, <2>3, <2>4, BetweenTheUpdates
  <2>6. QED
    BY <2>2, <2>5
<1>4. QED
  BY <1>2, <1>3

(* A SHOW WALLET shows figures the book knows, one by one.                 *)
FiguresShown ==
  \A c \in Clients :
    /\ caller[<<c, "session">>] \in {"reading", "shown"} =>
         \E n \in 0 .. Len(Book(c)) : view[c].usd = Balances(c)[n].usd
    /\ caller[<<c, "session">>] = "shown" =>
         \E n \in 0 .. Len(Book(c)) : view[c].btc = Balances(c)[n].btc

(* Only the reads of a client change what it is being shown.               *)
LEMMA OthersKeepTheView ==
  ASSUME TypeOK, [Next]_vars, NEW c \in Clients
  PROVE  \/ ReadUsd(c) \/ ReadBtc(c)
         \/ caller'[<<c, "session">>] \notin {"reading", "shown"}
         \/ UNCHANGED <<view[c], caller[<<c, "session">>]>>
<1> DEFINE k == <<c, "session">>
<1>1. k \in Callers
  BY DEF Callers
<1>2. ASSUME NEW d \in Clients, Show(d), d # c PROVE UNCHANGED <<view[c], caller[k]>>
  <2>1. <<d, "session">> \in Callers /\ <<d, "session">> # k
    BY <1>2 DEF Callers
  <2>2. QED
    BY <1>1, <1>2, <2>1 DEF Show, ReadUsd, ReadBtc, Reply, TypeOK
<1>3. ASSUME Reply(c) PROVE caller'[k] \notin {"reading", "shown"}
  BY <1>1, <1>3 DEF Reply, TypeOK
<1>4. ASSUME NEW d \in Callers, Submit(d)
      PROVE  \/ caller'[k] \notin {"reading", "shown"}
             \/ UNCHANGED <<view[c], caller[k]>>
  BY <1>1, <1>4 DEF Submit, AddRequest, Push, NotifyOne, TypeOK
<1>5. CASE ~ (\E d \in Clients : Show(d)) /\ ~ (\E d \in Callers : Submit(d))
  <2>1. UNCHANGED <<view, caller>>
    BY <1>5 DEF Next, vars, requestVars, walletVars, outputVars, callerVars,
       serverVars, stopVars, feedVars, Stopping, Process, ProcessRequest,
       Start, StopRequest, StopNotify, StopJoin, PublishPrice,
       RegisterSession, UnregisterSession, StartBot, StopBot, SpuriousWakeup,
       Park, FallAsleep, Take, Exit, Lookup, ReadPrice, Decide, Debit, Credit,
       Save, AddTransaction, LogToCsv, NotifySession
  <2>2. QED
    BY <2>1
<1>6. QED
  BY <1>2, <1>3, <1>4, <1>5 DEF Show

(* What a reply shows stays known while the worker goes on.                *)
LEMMA NextFiguresShown ==
  ASSUME TypeOK, Control, CommittedBooks, BooksBalance, FiguresShown,
         [Next]_vars
  PROVE  FiguresShown'
<1> SUFFICES ASSUME NEW c \in Clients
             PROVE  /\ caller'[<<c, "session">>] \in {"reading", "shown"} =>
                         \E n \in 0 .. Len(Book(c)') : view'[c].usd = Balances(c)'[n].usd
                    /\ caller'[<<c, "session">>] = "shown" =>
                         \E n \in 0 .. Len(Book(c)') : view'[c].btc = Balances(c)'[n].btc
  BY DEF FiguresShown
<1> DEFINE k == <<c, "session">>
<1>0. /\ \A n \in 0 .. Len(Book(c)) : n \in 0 .. Len(Book(c)')
      /\ \A n \in 0 .. Len(Book(c)) : Balances(c)'[n] = Balances(c)[n]
  BY BooksRemember
<1>1. k \in Callers
  BY DEF Callers
<1>2. CASE ReadUsd(c)
  <2>1. view'[c].usd = wallet[c].usd /\ caller'[k] = "reading"
    BY <1>1, <1>2 DEF ReadUsd, TypeOK, Account
  <2>2. PICK n \in 0 .. Len(Book(c)) : wallet[c].usd = Balances(c)[n].usd
    BY FiguresAreKnown
  <2>3. QED
    BY <1>0, <2>1, <2>2
<1>3. CASE ReadBtc(c)
  <2>1. /\ view'[c].usd = view[c].usd /\ view'[c].btc = wallet[c].btc
        /\ caller[k] = "reading"
    BY <1>1, <1>3 DEF ReadBtc, TypeOK, Account
  <2>2. PICK n \in 0 .. Len(Book(c)) : wallet[c].btc = Balances(c)[n].btc
    BY FiguresAreKnown
  <2>3. PICK m \in 0 .. Len(Book(c)) : view[c].usd = Balances(c)[m].usd
    BY <2>1 DEF FiguresShown
  <2>4. QED
    BY <1>0, <2>1, <2>2, <2>3
<1>4. CASE caller'[k] \notin {"reading", "shown"}
  BY <1>4
<1>5. CASE UNCHANGED <<view[c], caller[k]>>
  BY <1>0, <1>5 DEF FiguresShown
<1>6. QED
  BY <1>2, <1>3, <1>4, <1>5, OthersKeepTheView

-----------------------------------------------------------------------------
(* The log, the histories and what the sessions are told.                  *)

(* Where the lines of c's history are in a log, and those it is told of.   *)
Lines(log, c) ==
  {i \in 1..Len(log) : log[i].order.client = c /\ ReachedAccount(log[i])}

Told(log, c) ==
  {i \in 1..Len(log) : log[i].order.client = c /\ log[i].outcome # "NoSession"}

(* The client's extracts of the log when one more transaction is logged.   *)
LEMMA ExtractsAppend ==
  ASSUME NEW log \in Seq(Transaction), NEW t \in Transaction, NEW c
  PROVE  LET log1 == Append(log, t)
             mine == t.order.client = c
         IN  /\ At(log1, Lines(log1, c)) =
                  IF mine /\ ReachedAccount(t)
                  THEN Append(At(log, Lines(log, c)), t) ELSE At(log, Lines(log, c))
             /\ At(log1, Told(log1, c)) =
                  IF mine /\ t.outcome # "NoSession"
                  THEN Append(At(log, Told(log, c)), t) ELSE At(log, Told(log, c))
<1> DEFINE log1 == Append(log, t)
           L == Lines(log, c)
           L1 == Lines(log1, c)
           N == Told(log, c)
           N1 == Told(log1, c)
<1>1. /\ Len(log) \in Nat /\ Len(log1) = Len(log) + 1
      /\ \A i \in 1 .. Len(log) : log1[i] = log[i]
      /\ log1[Len(log) + 1] = t
  BY LenProperties, AppendProperties
<1>2. /\ L \cap (1 .. Len(log)) = L1 \cap (1 .. Len(log))
      /\ N \cap (1 .. Len(log)) = N1 \cap (1 .. Len(log))
  BY <1>1 DEF Lines, Told
<1>3. /\ Len(log) + 1 \in L1 <=> t.order.client = c /\ ReachedAccount(t)
      /\ Len(log) + 1 \in N1 <=> t.order.client = c /\ t.outcome # "NoSession"
  BY <1>1 DEF Lines, Told
<1> HIDE DEF L, L1, N, N1
<1>4. /\ At(log1, L1) = IF Len(log) + 1 \in L1 THEN Append(At(log, L), t) ELSE At(log, L)
      /\ At(log1, N1) = IF Len(log) + 1 \in N1 THEN Append(At(log, N), t) ELSE At(log, N)
  BY <1>2, AtAppend
<1>5. QED
  BY <1>3, <1>4 DEF L, L1, N, N1

(* A session was found for every order that goes further than the lookup.  *)
FoundKnown ==
  /\ worker \in {"price", "decide", "debit", "credit", "save", "append"} => found
  /\ worker \in {"log", "notify"} => (found <=> outcome # "NoSession")

(* The session found is kept to the end of processRequest.                 *)
LEMMA NextFoundKnown ==
  ASSUME TypeOK, Control, FoundKnown, [Next]_vars
  PROVE  FoundKnown'
<1> USE DEF FoundKnown, requestVars
<1>1. CASE Lookup \/ ReadPrice \/ Decide
  BY <1>1 DEF Lookup, ReadPrice, Decide
<1>2. CASE Debit \/ Credit \/ Save \/ AddTransaction \/ LogToCsv \/ NotifySession
  BY <1>2 DEF Debit, Credit, Save, AddTransaction, LogToCsv, NotifySession,
              Control, ReachedAccount
<1>3. CASE ~ ProcessRequest
  <2>1. UNCHANGED <<found, outcome>> \/ Take
    BY <1>3 DEF Next, vars, stopVars, walletVars, outputVars, callerVars,
       serverVars, feedVars, Stopping, Show, Submit, Process, ProcessRequest,
       Start, StopRequest, StopNotify, StopJoin, PublishPrice,
       RegisterSession, UnregisterSession, StartBot, StopBot, ReadUsd,
       ReadBtc, Reply, AddRequest, Push, NotifyOne, SpuriousWakeup, Park,
       FallAsleep, Exit
  <2>2. worker' = worker \/ {worker, worker'} \cap Processing = {} \/ Take
    BY <1>3, OthersKeepTheAccount DEF ProcessRequest, Push, callerVars
  <2>3. CASE Take
    BY <2>3 DEF Take
  <2>4. CASE worker' = worker /\ UNCHANGED <<found, outcome>>
    BY <2>4
  <2>5. CASE {worker, worker'} \cap Processing = {}
    <3>1. worker' \notin Processing
      BY <2>5
    <3>2. QED
      BY <3>1
  <2>6. QED
    BY <2>1, <2>2, <2>3, <2>4, <2>5
<1>4. QED
  BY <1>1, <1>2, <1>3 DEF ProcessRequest

(* Only addTransaction and logTransactionToCSV write the history and the   *)
(* log; what reaches the log another way never reached the account.        *)
LEMMA OthersKeepTheLog ==
  [Next]_vars /\ ~ AddTransaction /\ ~ LogToCsv =>
    /\ UNCHANGED <<csv, history>>
    /\ worker = "log" => worker' = "log"
    /\ worker' = "log" =>
         \/ outcome' \in {"NoSession", "BadPrice"}
         \/ UNCHANGED <<worker, job, outcome, unitPrice>>
BY DEF Next, vars, requestVars, walletVars, outputVars, callerVars, serverVars,
       stopVars, feedVars, Stopping, Show, Submit, Process, ProcessRequest,
       Start, StopRequest, StopNotify, Awoken, StopJoin, PublishPrice,
       RegisterSession, UnregisterSession, StartBot, StopBot, ReadUsd,
       ReadBtc, Reply,
       AddRequest, Push, NotifyOne, SpuriousWakeup, Park, FallAsleep, Take,
       Exit, Lookup, ReadPrice, Decide, Debit, Credit, Save, NotifySession

(* A transaction that reached the account goes to the history and the log  *)
(* in turn, before the next one goes to either.                            *)
LEMMA NextHistoryMatchesLog ==
  ASSUME TypeOK, Control, HistoryMatchesLog, [Next]_vars
  PROVE  HistoryMatchesLog'
<1> SUFFICES ASSUME NEW c \in Clients
             PROVE  history'[c] = At(csv', Lines(csv', c))
                      \o (IF worker' = "log" /\ Client' = c /\ ReachedAccount(Result')
                          THEN <<Result'>> ELSE << >>)
  BY DEF HistoryMatchesLog, Lines
<1> DEFINE past == At(csv, Lines(csv, c))
<1>0. /\ csv \in Seq(Transaction) /\ past \in Seq(Transaction)
      /\ past \o << >> = past
      /\ history[c] = past
           \o (IF worker = "log" /\ Client = c /\ ReachedAccount(Result)
               THEN <<Result>> ELSE << >>)
  <2>1. csv \in Seq(Transaction)
    BY DEF TypeOK
  <2>2. past \in Seq(Transaction)
    BY <2>1, AtType
  <2>3. past \o << >> = past
    BY <2>2, ConcatEmptySeq
  <2>4. QED
    BY <2>1, <2>2, <2>3 DEF HistoryMatchesLog, Lines
<1> HIDE DEF past
<1>1. CASE AddTransaction
  <2>1. /\ Result' = Result /\ Client' = Client /\ csv' = csv
        /\ worker = "append" /\ worker' = "log"
        /\ ReachedAccount(Result)
    <3>1. ReachedAccount(Result)
      BY <1>1 DEF AddTransaction, Control, Result, ReachedAccount
    <3>2. QED
      BY <1>1, <3>1 DEF AddTransaction, Result, Ord, Client, outputVars, requestVars
  <2>2. Result \in Transaction /\ Client \in Clients
    BY <1>1, <2>1, ResultType, JobType
       DEF Result, ReachedAccount, Outcomes
  <2>3. history'[c] = IF Client = c THEN Append(history[c], Result) ELSE history[c]
    BY <1>1, <2>2 DEF AddTransaction, TypeOK
  <2>4. history[c] = past
    BY <1>0, <2>1
  <2>5. Append(past, Result) = past \o <<Result>>
    BY <1>0, <2>2, AppendIsConcat
  <2>6. QED
    BY <1>0, <2>1, <2>3, <2>4, <2>5 DEF past
<1>2. CASE LogToCsv
  <2>1. Result \in Transaction /\ Result.order.client = Client
    BY <1>2, ResultType DEF LogToCsv, Control, TypeOK, Result, Client
  <2>2. csv' = Append(csv, Result) /\ history' = history /\ worker = "log" /\ worker' = "notify"
    BY <1>2 DEF LogToCsv, walletVars
  <2>3. At(csv', Lines(csv', c)) =
          IF Client = c /\ ReachedAccount(Result) THEN Append(past, Result) ELSE past
    BY <1>0, <2>1, <2>2, ExtractsAppend DEF past
  <2>4. Append(past, Result) = past \o <<Result>> /\ Append(past, Result) \in Seq(Transaction)
    BY <1>0, <2>1, AppendIsConcat, AppendProperties
  <2>5. Append(past, Result) \o << >> = Append(past, Result)
    BY <2>4, ConcatEmptySeq
  <2>6. QED
    BY <1>0, <2>2, <2>3, <2>4, <2>5
<1>3. CASE ~ AddTransaction /\ ~ LogToCsv
  <2>1. /\ UNCHANGED <<csv, history>>
        /\ worker = "log" => worker' = "log"
        /\ worker' = "log" =>
             \/ outcome' \in {"NoSession", "BadPrice"}
             \/ UNCHANGED <<worker, job, outcome, unitPrice>>
    BY <1>3, OthersKeepTheLog
  <2>2. CASE worker' = "log" /\ UNCHANGED <<worker, job, outcome, unitPrice>>
    BY <1>0, <2>1, <2>2 DEF Result, Ord, Client, past
  <2>3. CASE worker' = "log" /\ outcome' \in {"NoSession", "BadPrice"}
             /\ ~ UNCHANGED <<worker, job, outcome, unitPrice>>
    <3>1. ~ ReachedAccount(Result')
      BY <2>3 DEF ReachedAccount, Result
    <3>2. worker # "log"
      <4>1. ASSUME worker = "log" PROVE UNCHANGED <<job, outcome, unitPrice>>
        BY <1>3, <4>1, OthersKeepTheAccount
           DEF Push, requestVars, Take, Lookup, ReadPrice, Decide, Debit,
               Credit, Save, NotifySession
      <4>2. QED
        BY <2>3, <4>1
    <3>3. QED
      BY <1>0, <2>1, <3>1, <3>2 DEF past
  <2>4. CASE worker' # "log"
    BY <1>0, <2>1, <2>4 DEF past
  <2>5. QED
    BY <2>1, <2>2, <2>3, <2>4
<1>4. QED
  BY <1>1, <1>2, <1>3

(* Only logTransactionToCSV and the notification move what a session is    *)
(* told.                                                                   *)
LEMMA OthersTellNothing ==
  [Next]_vars /\ ~ LogToCsv /\ ~ NotifySession =>
    /\ UNCHANGED <<csv, results>>
    /\ worker' = "notify" <=> worker = "notify"
    /\ worker = "notify" => UNCHANGED <<job, found, outcome, unitPrice>>
BY DEF Next, vars, requestVars, walletVars, outputVars, callerVars, serverVars,
       stopVars, feedVars, Stopping, Show, Submit, Process, ProcessRequest,
       Start, StopRequest, StopNotify, Awoken, StopJoin, PublishPrice,
       RegisterSession, UnregisterSession, StartBot, StopBot, ReadUsd,
       ReadBtc, Reply,
       AddRequest, Push, NotifyOne, SpuriousWakeup, Park, FallAsleep, Take,
       Exit, Lookup, ReadPrice, Decide, Debit, Credit, Save, AddTransaction

(* A session is told of a transaction right after it is logged.            *)
LEMMA NextResultsFollowLog ==
  ASSUME TypeOK, Control, FoundKnown, ResultsFollowLog, [Next]_vars
  PROVE  ResultsFollowLog'
<1> SUFFICES ASSUME NEW c \in Clients
             PROVE  At(csv', Told(csv', c)) = results'[c]
                      \o (IF worker' = "notify" /\ found' /\ Client' = c
                          THEN <<Result'>> ELSE << >>)
  BY DEF ResultsFollowLog, Told
<1> DEFINE past == At(csv, Told(csv, c))
<1>0. /\ csv \in Seq(Transaction) /\ results[c] \in Seq(Transaction)
      /\ results[c] \o << >> = results[c]
      /\ past = results[c]
           \o (IF worker = "notify" /\ found /\ Client = c
               THEN <<Result>> ELSE << >>)
  <2>1. csv \in Seq(Transaction) /\ results[c] \in Seq(Transaction)
    BY DEF TypeOK
  <2>2. results[c] \o << >> = results[c]
    BY <2>1, ConcatEmptySeq
  <2>3. QED
    BY <2>1, <2>2 DEF ResultsFollowLog, Told
<1> HIDE DEF past
<1>1. CASE LogToCsv
  <2>1. /\ Result \in Transaction /\ Result.order.client = Client
        /\ Result.outcome = outcome
    BY <1>1, ResultType DEF LogToCsv, Control, TypeOK, Result, Client
  <2>2. /\ csv' = Append(csv, Result) /\ results' = results
        /\ worker = "log" /\ worker' = "notify"
        /\ Client' = Client /\ Result' = Result /\ found' = found
    BY <1>1 DEF LogToCsv, requestVars, Client, Ord, Result
  <2>3. found <=> outcome # "NoSession"
    BY <2>2 DEF FoundKnown
  <2>4. At(csv', Told(csv', c)) =
          IF Client = c /\ found THEN Append(past, Result) ELSE past
    BY <1>0, <2>1, <2>2, <2>3, ExtractsAppend DEF past
  <2>5. past = results[c]
    BY <1>0, <2>2
  <2>6. Append(results[c], Result) = results[c] \o <<Result>>
    BY <1>0, <2>1, AppendIsConcat
  <2>7. QED
    BY <1>0, <2>2, <2>4, <2>5, <2>6
<1>2. CASE NotifySession
  <2>1. Result \in Transaction /\ Client \in Clients
    BY <1>2, ResultType, JobType DEF NotifySession, Control, TypeOK
  <2>2. /\ csv' = csv /\ worker = "notify" /\ worker' = "test"
    BY <1>2 DEF NotifySession
  <2>3. results'[c] = IF found /\ Client = c THEN Append(results[c], Result) ELSE results[c]
    BY <1>2, <2>1 DEF NotifySession, TypeOK
  <2>4. /\ Append(results[c], Result) = results[c] \o <<Result>>
        /\ Append(results[c], Result) \in Seq(Transaction)
    BY <1>0, <2>1, AppendIsConcat, AppendProperties
  <2>5. Append(results[c], Result) \o << >> = Append(results[c], Result)
    BY <2>4, ConcatEmptySeq
  <2>6. QED
    BY <1>0, <2>2, <2>3, <2>4, <2>5 DEF past
<1>3. CASE ~ LogToCsv /\ ~ NotifySession
  <2>1. /\ UNCHANGED <<csv, results>>
        /\ worker' = "notify" <=> worker = "notify"
        /\ worker = "notify" => UNCHANGED <<job, found, outcome, unitPrice>>
    BY <1>3, OthersTellNothing
  <2>2. CASE worker = "notify"
    <3>1. Result' = Result /\ Client' = Client
      BY <2>1, <2>2 DEF Result, Ord, Client
    <3>2. /\ At(csv', Told(csv', c)) = past
          /\ results'[c] = results[c] /\ found' = found /\ worker' = "notify"
      BY <2>1, <2>2 DEF past
    <3>3. QED
      BY <1>0, <2>2, <3>1, <3>2
  <2>3. CASE worker # "notify"
    BY <1>0, <2>1, <2>3 DEF past
  <2>4. QED
    BY <2>2, <2>3
<1>4. QED
  BY <1>1, <1>2, <1>3

-----------------------------------------------------------------------------
(* The theorems about the books.                                           *)

(* What the books and the readers' figures rest on.                        *)
BooksInv ==
  /\ CheckStands
  /\ CommittedBooks
  /\ FoundKnown
  /\ FileTellsThePast
  /\ FiguresShown
  /\ HistoryMatchesLog
  /\ ResultsFollowLog

(* With empty logs and the balances loaded, the books balance.             *)
LEMMA InitBooks == Init => BooksInv
<1> SUFFICES ASSUME Init PROVE BooksInv
  OBVIOUS
<1>1. TypeOK /\ Control
  BY InitIInv DEF IInv
<1>2. << >> \in Seq(Transaction) /\ Len(<< >>) = 0
  BY EmptySeq
<1>3. CheckStands /\ FoundKnown
  BY DEF Init, CheckStands, FoundKnown
<1>4. CommittedBooks
  <2>1. CommittedBalance = InitialAccount
    BY <1>1, CommittedIs DEF Init, CommittedByPoint
  <2>2. \A c \in Clients : Replay(c, << >>)[0] = InitialAccount[c]
    BY <1>2, ReplayUnfolds
  <2>3. \A c \in Clients : history[c] = << >>
    BY DEF Init
  <2>4. QED
    BY <1>2, <2>1, <2>2, <2>3 DEF CommittedBooks
<1>5. FileTellsThePast
  BY DEF Init, FileTellsThePast
<1>6. FiguresShown
  <2>1. \A c \in Clients : <<c, "session">> \in Callers
    BY DEF Callers
  <2>2. QED
    BY <2>1 DEF Init, FiguresShown
<1>7. << >> \o << >> = << >>
  BY <1>2, ConcatEmptySeq
<1>8. HistoryMatchesLog
  BY <1>7, AtEmpty DEF Init, HistoryMatchesLog
<1>9. ResultsFollowLog
  BY <1>7, AtEmpty DEF Init, ResultsFollowLog
<1>10. QED
  BY <1>3, <1>4, <1>5, <1>6, <1>8, <1>9 DEF BooksInv

(* The books stay so, whatever the other threads do.                       *)
LEMMA BooksInvariance == Spec => []BooksInv
<1>1. IInv /\ IInv' /\ BooksInv /\ [Next]_vars => BooksInv'
  <2> SUFFICES ASSUME IInv, IInv', BooksInv, [Next]_vars PROVE BooksInv'
    OBVIOUS
  <2>1. /\ TypeOK /\ Control /\ TypeOK' /\ Control'
        /\ CheckStands /\ CommittedBooks /\ FoundKnown /\ FileTellsThePast
        /\ FiguresShown /\ HistoryMatchesLog /\ ResultsFollowLog
    BY DEF IInv, BooksInv
  <2>2. BooksBalance
    BY <2>1, BooksFollow
  <2>3. CheckStands' /\ CommittedBooks' /\ FoundKnown'
    BY <2>1, NextCheckStands, NextCommittedBooks, NextFoundKnown
  <2>4. FileTellsThePast' /\ FiguresShown'
    BY <2>1, <2>2, NextFileTellsThePast, NextFiguresShown
  <2>5. HistoryMatchesLog' /\ ResultsFollowLog'
    BY <2>1, NextHistoryMatchesLog, NextResultsFollowLog
  <2>6. QED
    BY <2>3, <2>4, <2>5 DEF BooksInv
<1>2. QED
  BY <1>1, InitBooks, Invariance, PTL DEF Spec

(* Whatever the orders, the prices and the interleavings, a wallet holds   *)
(* what replaying its completed transactions from the balances loaded      *)
(* gives, except between the two updateBalance calls of processRequest.    *)
THEOREM BooksAlwaysBalance == Spec => []BooksBalance
<1>1. IInv /\ BooksInv => BooksBalance
  BY BooksFollow DEF IInv, BooksInv
<1>2. QED
  BY <1>1, Invariance, BooksInvariance, PTL

(* Whatever saves succeed, fail to open the file or are cut short, what is *)
(* on disk is what the client had after some trade, less that trade's line *)
(* in the history, or, after a save cut short, the first lines of that.    *)
THEOREM FileOfThePast == Spec => []FileTellsThePast
<1>1. BooksInv => FileTellsThePast
  BY DEF BooksInv
<1>2. QED
  BY <1>1, BooksInvariance, PTL

(* Though SHOW WALLET locks nothing, each figure it shows is one that the  *)
(* wallet had at a commit point.                                           *)
THEOREM FiguresAreReal == Spec => []EachFigureIsReal
<1>1. FiguresShown => EachFigureIsReal
  BY DEF FiguresShown, EachFigureIsReal
<1>2. BooksInv => EachFigureIsReal
  BY <1>1 DEF BooksInv
<1>3. QED
  BY <1>2, BooksInvariance, PTL

(* A client's history is what the log has of its account, in order.        *)
THEOREM HistoryInLog == Spec => []HistoryMatchesLog
<1>1. BooksInv => HistoryMatchesLog
  BY DEF BooksInv
<1>2. QED
  BY <1>1, BooksInvariance, PTL

(* applyTransactionRequest is called once for each logged transaction of a *)
(* session that was there when the order was taken, in order, and for no   *)
(* other.                                                                  *)
THEOREM ResultsInLog == Spec => []ResultsFollowLog
<1>1. BooksInv => ResultsFollowLog
  BY DEF BooksInv
<1>2. QED
  BY <1>1, BooksInvariance, PTL
=============================================================================
