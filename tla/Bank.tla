-------------------------------- MODULE Bank --------------------------------
(***************************************************************************)
(* What the wallet files promise over any number of restarts of the        *)
(* server: a client's money is the initial grant, made once, and the       *)
(* trades made since.  An account is named by where its money comes from:  *)
(* whether the grant was received, and the identifiers of its trades.      *)
(***************************************************************************)
EXTENDS Naturals

CONSTANT Clients

VARIABLES
  held,   \* the account of each client
  ids     \* how many transaction identifiers have been used

Account == [granted : BOOLEAN, trades : SUBSET Nat]

NoMoney == [granted |-> FALSE, trades |-> {}]

BankInit ==
  /\ held = [c \in Clients |-> NoMoney]
  /\ ids = 0

Grant(c) ==
  /\ held[c] = NoMoney
  /\ held' = [held EXCEPT ![c].granted = TRUE]
  /\ UNCHANGED ids

Trade(c) ==
  /\ held[c].granted
  /\ ids' = ids + 1
  /\ held' = [held EXCEPT ![c].trades = @ \cup {ids + 1}]

Refuse ==
  /\ ids' = ids + 1
  /\ UNCHANGED held

BankNext ==
  \/ \E c \in Clients : Grant(c) \/ Trade(c)
  \/ Refuse

BankSpec == BankInit /\ [][BankNext]_<<held, ids>>
=============================================================================
