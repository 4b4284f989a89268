------------------------- MODULE MCTransactionQueue -------------------------
(***************************************************************************)
(* Small instances of TransactionQueue.                                    *)
(*                                                                         *)
(* FeeDen = 10000 is the code's fee.  A new wallet holds 10000 dollars,    *)
(* here 10000 * FeeDen units.  At 999 dollars a lot it pays for ten lots   *)
(* and their fee; at 1000 it pays for ten lots but not for the fee, which  *)
(* then decides the comparison, and a tenth of it is exactly one lot.      *)
(***************************************************************************)
EXTENDS TransactionQueue, TLC

CONSTANTS c1, c2

NewWallet == [usd |-> 10000 * FeeDen, btc |-> 0]
Holding   == [usd |-> 0, btc |-> 10]

OneSeller  == (c1 :> Holding)
OneClient  == (c1 :> NewWallet)
TwoClients == (c1 :> NewWallet) @@ (c2 :> Holding)

TwoPrices == {0, 999, 1000}
OnePrice  == {0, 999}
TenLots   == {10}
SomeLots  == {1, 10}

=============================================================================
