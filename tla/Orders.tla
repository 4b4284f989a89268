------------------------------- MODULE Orders -------------------------------
(***************************************************************************)
(* Orders, accounts and the arithmetic of one trade, shared by every       *)
(* module that moves money: the data of TransactionRequest, Wallet and the *)
(* formulas of TransactionQueue::processRequest.                           *)
(*                                                                         *)
(* Amounts.  The code computes with doubles and a fee of 0.0001 of the     *)
(* traded value.  Here every amount is an integer: a quantity counts the   *)
(* smallest traded lots, a price counts dollars per lot and a dollar       *)
(* balance counts 1/FeeDen of a dollar, so that the fee on q lots at price *)
(* p, which is q * p dollars times 1/FeeDen, is exactly q * p units.       *)
(* Rounding of doubles is abstracted away; the order of the operations,    *)
(* the comparisons and the signs are the code's.                           *)
(***************************************************************************)
EXTENDS Integers, Sequences

CONSTANTS
  Clients,     \* client identifiers (the keys of sessionMap)
  Quantities,  \* quantities of crypto an order may ask for
  Prices,      \* market prices; 0 stands for "no valid price yet"
  FeeDen,      \* the fee is one FeeDen-th of the traded value
  InitialAccount  \* the balances each client's wallet is loaded with

ASSUME OrdersAssumption ==
  /\ Quantities \subseteq Nat \ {0}
  /\ Prices \subseteq Nat
  /\ 0 \in Prices
  /\ FeeDen \in Nat \ {0}
  /\ InitialAccount \in [Clients -> [usd : Nat, btc : Nat]]

Sides == {"BUY", "SELL"}

Order == [client : Clients, type : Sides, quantity : Quantities]

Account == [usd : Int, btc : Int]

(* Dollars taken by a BUY: the traded value plus the fee.                  *)
BuyTotal(q, p) == q * p * (FeeDen + 1)

(* Dollars brought by a SELL: the traded value minus the fee.              *)
SellTotal(q, p) == q * p * (FeeDen - 1)

(* Mutant: the fee is left out of the check.                               *)
CoveredWithoutFee(o, p, a) ==
  \/ o.type = "BUY"  /\ a.usd >= o.quantity * p * FeeDen
  \/ o.type = "SELL" /\ a.btc >= o.quantity

(* The check of the funds made under the wallet's mutex.                   *)
Covered(o, p, a) ==
  \/ o.type = "BUY"  /\ a.usd >= BuyTotal(o.quantity, p)
  \/ o.type = "SELL" /\ a.btc >= o.quantity

(* The two updateBalance calls of a COMPLETED transaction: the currency    *)
(* given is debited first, then the currency bought is credited.           *)
Debited(o, p, a) ==
  IF o.type = "BUY" THEN [a EXCEPT !.usd = @ - BuyTotal(o.quantity, p)]
                    ELSE [a EXCEPT !.btc = @ - o.quantity]

Credited(o, p, a) ==
  IF o.type = "BUY" THEN [a EXCEPT !.btc = @ + o.quantity]
                    ELSE [a EXCEPT !.usd = @ + SellTotal(o.quantity, p)]

Traded(o, p, a) == Credited(o, p, Debited(o, p, a))

(* How a request ends.  "NoFunds" stands for the two "Insufficient ..."    *)
(* reasons, "BadPrice" for "Invalid market price at execution." and        *)
(* "NoSession" for "Client session or wallet not available."; all but      *)
(* "COMPLETED" have status FAILED.                                         *)
Outcomes == {"COMPLETED", "NoFunds", "BadPrice", "NoSession"}

(* The Transaction object built from a request: who, what, at which price  *)
(* and with which result.  Id, timestamp, total and fee are functions of   *)
(* these or are never compared.                                            *)
Transaction == [order : Order, price : Prices, outcome : Outcomes]

(* What a history says of a client's balances: replaying its COMPLETED     *)
(* transactions from the balances loaded, those after the first n of them. *)
Replay(c, book) ==
  LET after[n \in 0 .. Len(book)] ==
        IF n = 0 THEN InitialAccount[c]
        ELSE IF book[n].outcome = "COMPLETED"
             THEN Traded(book[n].order, book[n].price, after[n - 1])
             ELSE after[n - 1]
  IN  after

(* The elements of a sequence at the places of a set, in their order.      *)
At(s, places) ==
  LET upto[n \in 0 .. Len(s)] ==
        IF n = 0 THEN << >>
        ELSE IF n \in places THEN Append(upto[n - 1], s[n])
             ELSE upto[n - 1]
  IN  upto[Len(s)]
=============================================================================
