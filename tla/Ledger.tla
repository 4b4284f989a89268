------------------------------- MODULE Ledger -------------------------------
(***************************************************************************)
(* What the transaction queue promises its clients, without threads, locks *)
(* or intermediate states: orders are settled one at a time in the order   *)
(* in which they were accepted; an order is settled in one step, which     *)
(* either trades the whole quantity at a market price the account can pay  *)
(* for, or leaves the account alone; every settlement that reached the     *)
(* account is in the client's history.                                     *)
(***************************************************************************)
EXTENDS Orders

VARIABLES
  balance,   \* [Clients -> Account]
  book,      \* the history of each client's settled transactions
  pending    \* accepted orders not settled yet, oldest first

ledgerVars == <<balance, book, pending>>

LedgerTypeOK ==
  /\ balance \in [Clients -> Account]
  /\ book \in [Clients -> Seq(Transaction)]
  /\ pending \in Seq(Order)

LedgerInit ==
  /\ balance = InitialAccount
  /\ book = [c \in Clients |-> << >>]
  /\ pending = << >>

Accept(o) ==
  /\ pending' = Append(pending, o)
  /\ UNCHANGED <<balance, book>>

(* The oldest order is executed at price p, whole and at once.             *)
Fill(p) ==
  /\ pending # << >>
  /\ p > 0
  /\ LET o == Head(pending)
     IN  /\ Covered(o, p, balance[o.client])
         /\ balance' = [balance EXCEPT ![o.client] = Traded(o, p, @)]
         /\ book' = [book EXCEPT ![o.client] =
               Append(@, [order |-> o, price |-> p, outcome |-> "COMPLETED"])]
  /\ pending' = Tail(pending)

(* The oldest order is refused for lack of funds, and the refusal is kept. *)
Reject(p) ==
  /\ pending # << >>
  /\ p > 0
  /\ LET o == Head(pending)
     IN  /\ ~ Covered(o, p, balance[o.client])
         /\ book' = [book EXCEPT ![o.client] =
               Append(@, [order |-> o, price |-> p, outcome |-> "NoFunds"])]
  /\ pending' = Tail(pending)
  /\ UNCHANGED balance

(* The oldest order fails before it reaches the account (no session, no    *)
(* wallet or no valid price): it leaves no trace in the client's history.  *)
Discard ==
  /\ pending # << >>
  /\ pending' = Tail(pending)
  /\ UNCHANGED <<balance, book>>

LedgerNext ==
  \/ \E o \in Order : Accept(o)
  \/ \E p \in Prices : Fill(p) \/ Reject(p)
  \/ Discard

LedgerSpec == LedgerInit /\ [][LedgerNext]_ledgerVars
=============================================================================
