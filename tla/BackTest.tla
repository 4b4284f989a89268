------------------------------ MODULE BackTest ------------------------------
(***************************************************************************)
(* FineTrading: the back-test of two strategies on past prices.  main      *)
(* fetches a series of prices and makes two noisy copies of it; then, run  *)
(* after run, it picks a part of the series and simulates on each copy the *)
(* momentum strategy and the Bollinger strategy, each with a new           *)
(* Portfolio.                                                              *)
(*                                                                         *)
(* A simulation reads the Steps prices from startIndex on and the Period   *)
(* prices before them: window[Period + 1] is the price at startIndex.  The *)
(* prices the rest of the series holds are never read and not represented. *)
(*                                                                         *)
(* Amounts are integers: a price is in dollars per unit of crypto, and     *)
(* Balance is divisible by every fraction and price the trades of a        *)
(* simulation can bring, so that no division has a remainder.              *)
(***************************************************************************)
EXTENDS Integers, Sequences, Bollinger

CONSTANTS
  Prices,        \* the prices of the series that was fetched
  NoisyPrices,   \* those of its noisy copies: noise is clipped at 0
  Period,        \* bollingerPeriod (20)
  SquareK,       \* the square of bollingerK (4)
  Steps,         \* simulationSteps (100)
  Runs,          \* numRuns (100)
  Balance,       \* initialBalance (10000)
  FractionDen,   \* the momentum strategy trades one FractionDen-th (10)
  ThresholdDen,  \* on a change of more than one ThresholdDen-th (100)
  MaxData        \* bound: how many prices the series may hold

ASSUME BackTestAssumption ==
  /\ Prices \subseteq Nat \ {0} /\ NoisyPrices \subseteq Nat
  /\ Period \in Nat \ {0, 1} /\ SquareK \in Nat \ {0}
  /\ Steps \in Nat \ {0} /\ Runs \in Nat \ {0}
  /\ Balance \in Nat /\ FractionDen \in Nat \ {0} /\ ThresholdDen \in Nat \ {0}
  /\ MaxData \in Nat

VARIABLES
  pc,          \* what main is doing
  size,        \* the length of the three series
  run,         \* the number of the run
  startIndex,
  data,        \* 1 the series, 2 and 3 its noisy copies
  window,      \* the prices the simulation reads
  step,        \* how many prices the strategy or the warm-up has processed
  balance, btcAmount,    \* the Portfolio
  position, entryPrice,  \* the BollingerBot (its history is in window)
  warm         \* auxiliary: the position was opened during the warm-up

dataVars  == <<size, run, startIndex, data, window>>
portfolio == <<balance, btcAmount>>
bollinger == <<position, entryPrice, warm>>
vars == <<pc, size, run, startIndex, data, window, step, balance, btcAmount, position,
          entryPrice, warm>>

Simulating == {"momentum", "warmup", "bollinger"}

TypeOK ==
  /\ pc \in Simulating \cup {"fetch", "choose", "data", "failed", "done"}
  /\ size \in 0 .. MaxData
  /\ run \in 0 .. Runs
  /\ startIndex \in Nat
  /\ data \in 1 .. 3
  /\ window \in Seq(Prices \cup NoisyPrices)
  /\ step \in 0 .. Steps + Period
  /\ balance \in Nat
  /\ btcAmount \in Nat
  /\ position \in {"NONE", "LONG", "SHORT"}
  /\ entryPrice \in Prices \cup NoisyPrices \cup {0}
  /\ warm \in BOOLEAN

NewPortfolio == balance' = Balance /\ btcAmount' = 0

NewBot == position' = "NONE" /\ entryPrice' = 0 /\ warm' = FALSE

Init ==
  /\ pc = "fetch"
  /\ size = 0 /\ run = 0 /\ startIndex = 0 /\ data = 1
  /\ window = << >>
  /\ step = 0
  /\ balance = Balance /\ btcAmount = 0
  /\ position = "NONE" /\ entryPrice = 0 /\ warm = FALSE

-----------------------------------------------------------------------------
(* generateBTCValues: the request fails or the answer has no usable price, *)
(* which ends the program; else the usable prices, malformed entries       *)
(* skipped, are appended to the three series alike.                        *)
FetchFails ==
  /\ pc = "fetch"
  /\ pc' = "failed"
  /\ UNCHANGED <<dataVars, step, portfolio, bollinger>>

Fetch ==
  /\ pc = "fetch"
  /\ size' \in 1 .. MaxData
  /\ pc' = IF size' < Period + Steps THEN "failed" ELSE "choose"
  /\ UNCHANGED <<run, startIndex, data, window, step, portfolio, bollinger>>

(* Mutant: a start without a whole period before it.                       *)
StartsAtZero == 0 .. size - Steps

Starts == Period .. size - Steps

ChooseStart ==
  /\ pc = "choose"
  /\ run' = run + 1
  /\ startIndex' \in Starts
  /\ data' = 1
  /\ pc' = "data"
  /\ UNCHANGED <<size, window, step, portfolio, bollinger>>

(* One copy of the series: the first simulation throws if the indices are  *)
(* not in the series.                                                      *)
OpenData ==
  /\ pc = "data"
  /\ NewPortfolio
  /\ step' = 0
  /\ IF startIndex + Steps > size
     THEN pc' = "failed" /\ UNCHANGED window
     ELSE /\ window' \in [1 .. Period + Steps -> IF data = 1 THEN Prices ELSE NoisyPrices]
          /\ pc' = "momentum"
  /\ UNCHANGED <<size, run, startIndex, data, bollinger>>

-----------------------------------------------------------------------------
(* Portfolio::buyBTC and sellBTC, for 1/den of what is held; an invalid    *)
(* price or nothing to trade changes nothing.                              *)

buyBTC(p, den) ==
  LET spent == balance \div den
  IN  IF p <= 0 \/ spent <= 0 THEN UNCHANGED portfolio
      ELSE /\ balance' = balance - spent
           /\ btcAmount' = btcAmount + spent \div p

(* Mutant: one unit more than is held is sold.                             *)
SellTooMuch(p, den) ==
  LET sold == (btcAmount \div den) + 1
  IN  IF p <= 0 THEN UNCHANGED portfolio
      ELSE btcAmount' = btcAmount - sold /\ balance' = balance + sold * p

sellBTC(p, den) ==
  LET sold == btcAmount \div den
  IN  IF p <= 0 \/ sold <= 0 THEN UNCHANGED portfolio
      ELSE /\ btcAmount' = btcAmount - sold
           /\ balance' = balance + sold * p

-----------------------------------------------------------------------------
(* The price of step s of the simulation, s from 0 on.                     *)
PriceAt(s) == window[Period + s + 1]

(* One step of the momentum strategy: against a rise, with a fall; the     *)
(* first step and a step after a price of zero do nothing.                 *)
MomentumStep ==
  LET price == PriceAt(step)
      prev  == PriceAt(step - 1)
      rise  == ThresholdDen * (price - prev)
  IN  /\ pc = "momentum"
      /\ step < Steps
      /\ step' = step + 1
      /\ \/ step > 0 /\ prev > 0 /\ rise > prev /\ sellBTC(price, FractionDen)
         \/ step > 0 /\ prev > 0 /\ rise < - prev /\ buyBTC(price, FractionDen)
         \/ /\ step = 0 \/ prev = 0 \/ (rise <= prev /\ rise >= - prev)
            /\ UNCHANGED portfolio
      /\ UNCHANGED <<pc, dataVars, bollinger>>

(* The result is reported; the Bollinger simulation has its own portfolio  *)
(* and a new bot.                                                          *)
EndMomentum ==
  /\ pc = "momentum"
  /\ step = Steps
  /\ pc' = "warmup"
  /\ step' = 0
  /\ NewPortfolio
  /\ NewBot
  /\ UNCHANGED dataVars

-----------------------------------------------------------------------------
(* BollingerBot::processNewPrice: the bot moves its own position when it   *)
(* gives the signal, before anything is traded.  price is the n-th price   *)
(* the bot is given.                                                       *)
Signal(n) ==
  LET price == window[n]
      w     == Window(SubSeq(window, 1, n), Period)
  IN  IF n < Period THEN "HOLD"
      ELSE IF position = "NONE" /\ UnderLowerBand(price, w, SquareK) THEN "BUY"
      ELSE IF position = "NONE" /\ OverUpperBand(price, w, SquareK) THEN "SELL"
      ELSE IF position = "LONG" /\ AboveMiddle(price, w) THEN "CLOSE_LONG"
      ELSE IF position = "SHORT" /\ BelowMiddle(price, w) THEN "CLOSE_SHORT"
      ELSE "HOLD"

Move(a, price) ==
  /\ position' = CASE a = "BUY" -> "LONG" [] a = "SELL" -> "SHORT"
                   [] a \in {"CLOSE_LONG", "CLOSE_SHORT"} -> "NONE" [] OTHER -> position
  /\ entryPrice' = CASE a \in {"BUY", "SELL"} -> price
                     [] a \in {"CLOSE_LONG", "CLOSE_SHORT"} -> 0 [] OTHER -> entryPrice

(* The prices before startIndex are fed to the bot, whose signals are not  *)
(* looked at.                                                              *)
WarmUp ==
  /\ pc = "warmup"
  /\ step < Period
  /\ Move(Signal(step + 1), window[step + 1])
  /\ step' = step + 1
  /\ warm' = (position' # "NONE")
  /\ UNCHANGED <<pc, dataVars, portfolio>>

EndWarmUp ==
  /\ pc = "warmup"
  /\ step = Period
  /\ pc' = "bollinger"
  /\ step' = 0
  /\ UNCHANGED <<dataVars, portfolio, bollinger>>

(* Mutant: a CLOSE_LONG sells half of what is held.                        *)
CloseHalf(a, price) ==
  \/ a = "BUY" /\ btcAmount = 0 /\ buyBTC(price, 1)
  \/ a = "CLOSE_LONG" /\ btcAmount > 0 /\ sellBTC(price, 2)
  \/ /\ ~ (a = "BUY" /\ btcAmount = 0) /\ ~ (a = "CLOSE_LONG" /\ btcAmount > 0)
     /\ UNCHANGED portfolio

(* What the simulation does of a signal: it buys with everything if it     *)
(* holds nothing, sells everything if it holds something, and ignores the  *)
(* signals of short positions.                                             *)
Act(a, price) ==
  \/ a = "BUY" /\ btcAmount = 0 /\ buyBTC(price, 1)
  \/ a = "CLOSE_LONG" /\ btcAmount > 0 /\ sellBTC(price, 1)
  \/ /\ ~ (a = "BUY" /\ btcAmount = 0) /\ ~ (a = "CLOSE_LONG" /\ btcAmount > 0)
     /\ UNCHANGED portfolio

BollingerStep ==
  LET a == Signal(Period + step + 1)
  IN  /\ pc = "bollinger"
      /\ step < Steps
      /\ Move(a, PriceAt(step))
      /\ Act(a, PriceAt(step))
      /\ step' = step + 1
      /\ warm' = (warm /\ position' = position)
      /\ UNCHANGED <<pc, dataVars>>

(* The result is reported; the next copy, the next run, or the end.        *)
EndBollinger ==
  /\ pc = "bollinger"
  /\ step = Steps
  /\ step' = 0
  /\ window' = << >>
  /\ NewPortfolio
  /\ NewBot
  /\ \/ data < 3 /\ pc' = "data" /\ data' = data + 1
     \/ data = 3 /\ run < Runs /\ pc' = "choose" /\ UNCHANGED data
     \/ data = 3 /\ run = Runs /\ pc' = "done" /\ UNCHANGED data
  /\ UNCHANGED <<size, run, startIndex>>

Next ==
  \/ FetchFails \/ Fetch \/ ChooseStart \/ OpenData
  \/ MomentumStep \/ EndMomentum
  \/ WarmUp \/ EndWarmUp \/ BollingerStep \/ EndBollinger

Spec == Init /\ [][Next]_vars

-----------------------------------------------------------------------------
(* Every price a simulation or its warm-up reads is in the series: the     *)
(* start main picks leaves room for a whole period before it and for all   *)
(* the steps after it, at the two ends of the range included, so that once *)
(* there is enough data no run throws.                                     *)
ReadsTheSeries ==
  /\ pc \in Simulating => startIndex - Period >= 0 /\ startIndex + Steps <= size
  /\ pc = "failed" => run = 0

(* The Bollinger bot moves its position by its signals, the portfolio by   *)
(* its trades, and neither looks at the other: crypto is held only in a    *)
(* long position, bought with everything; and a long position with nothing *)
(* held was opened in the warm-up or at a price of zero.                   *)
BotAgrees ==
  pc \in {"warmup", "bollinger"} =>
    /\ btcAmount > 0 => position = "LONG" /\ balance = 0
    /\ position = "LONG" /\ btcAmount = 0 => warm \/ entryPrice = 0
=============================================================================
