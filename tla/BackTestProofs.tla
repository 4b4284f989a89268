--------------------------- MODULE BackTestProofs ---------------------------
(***************************************************************************)
(* The back-test, for every length of the series, of the period and of the *)
(* simulation, and every series of prices.                                 *)
(***************************************************************************)
EXTENDS BackTest, TLAPS, WellFoundedInduction

USE BackTestAssumption

-----------------------------------------------------------------------------
(* The sum of a window.                                                    *)

(* Induction up to a bound, for a set instead of an operator.              *)
LEMMA InductionTo ==
  ASSUME NEW m \in Nat, NEW T, 0 \in T,
         \A n \in 1 .. m : n - 1 \in T => n \in T
  PROVE  \A n \in 0 .. m : n \in T
<1> DEFINE Bad == {n \in 0 .. m : n \notin T}
           R == {p \in Nat \X Nat : p[1] < p[2]}
<1> SUFFICES ASSUME Bad # {} PROVE FALSE
  OBVIOUS
<1>1. Bad \subseteq Nat /\ \A y \in Bad : y - 1 \notin Bad => y - 1 < 0 \/ y - 1 \in T
  OBVIOUS
<1>2. PICK x \in Bad : \A y \in Bad : ~ (<<y, x>> \in R)
  <2>1. IsWellFoundedOn(R, Nat)
    BY NatLessThanWellFounded DEF OpToRel
  <2>2. QED
    <3> HIDE DEF R, Bad
    <3> QED BY <1>1, <2>1, WFMin
<1>3. x \in 1 .. m
  BY <1>2
<1>4. x - 1 \notin Bad
  <2>1. x \in Nat /\ x - 1 \in Nat /\ x - 1 < x
    BY <1>3
  <2>2. <<x - 1, x>> \in R
    BY <2>1
  <2>3. QED
    BY <1>2, <2>2
<1>5. x - 1 \in T
  BY <1>3, <1>4
<1>6. QED
  BY <1>2, <1>3, <1>5

SumStep(s, f, i) == IF i = 0 THEN 0 ELSE f[i - 1] + s[i]

SumUpTo(s, m, f) == f = [i \in 0 .. m |-> SumStep(s, f, i)]

(* The recursion that defines SumOf has a solution, all of it natural.     *)
LEMMA SumExists ==
  ASSUME NEW s, NEW m \in Nat, \A i \in 1 .. m : s[i] \in Nat
  PROVE  /\ \E f : SumUpTo(s, m, f)
         /\ \A f : SumUpTo(s, m, f) => \A i \in 0 .. m : f[i] \in Nat
<1>1. \E f : SumUpTo(s, m, f)
  <2> DEFINE T == {k \in Nat : \E f : SumUpTo(s, k, f)}
  <2>1. 0 \in T
    <3>1. SumUpTo(s, 0, [i \in 0 .. 0 |-> 0])
      BY DEF SumUpTo, SumStep
    <3>2. QED
      BY <3>1
  <2>2. ASSUME NEW k \in 1 .. m, k - 1 \in T PROVE k \in T
    <3>1. PICK f : SumUpTo(s, k - 1, f)
      BY <2>2
    <3> DEFINE g == [i \in 0 .. k |-> IF i = 0 THEN 0 ELSE f[i - 1] + s[i]]
    <3>2. \A i \in 0 .. k - 1 : f[i] = SumStep(s, f, i)
      BY <3>1 DEF SumUpTo
    <3>3. \A i \in 0 .. k - 1 : g[i] = f[i]
      BY <3>2 DEF SumStep
    <3>4. \A i \in 0 .. k : SumStep(s, g, i) = (IF i = 0 THEN 0 ELSE f[i - 1] + s[i])
      <4>1. \A i \in 1 .. k : i - 1 \in 0 .. k - 1
        OBVIOUS
      <4> HIDE DEF g
      <4>2. QED
        BY <3>3, <4>1 DEF SumStep
    <3>5. SumUpTo(s, k, g)
      BY <3>4 DEF SumUpTo
    <3>6. QED
      BY <3>5
  <2> HIDE DEF T
  <2>3. m \in T
    BY <2>1, <2>2, InductionTo
  <2>4. QED
    BY <2>3 DEF T
<1>2. ASSUME NEW f, SumUpTo(s, m, f), NEW i \in 0 .. m PROVE f[i] \in Nat
  <2> DEFINE T == {k \in 0 .. m : f[k] \in Nat}
  <2>1. \A k \in 0 .. m : f[k] = SumStep(s, f, k)
    BY <1>2 DEF SumUpTo
  <2>2. 0 \in T
    BY <2>1 DEF SumStep
  <2>3. \A k \in 1 .. m : k - 1 \in T => k \in T
    BY <2>1 DEF SumStep
  <2> HIDE DEF T
  <2>4. i \in T
    BY <2>2, <2>3, InductionTo
  <2>5. QED
    BY <2>4 DEF T
<1>3. QED
  BY <1>1, <1>2

(* A sum of natural numbers is one.                                        *)
LEMMA SumNatural ==
  ASSUME NEW s \in Seq(Nat)
  PROVE  SumOf(s) \in Nat
<1> DEFINE upTo == CHOOSE f : SumUpTo(s, Len(s), f)
<1>1. Len(s) \in Nat /\ \A i \in 1 .. Len(s) : s[i] \in Nat
  OBVIOUS
<1>2. SumUpTo(s, Len(s), upTo)
  BY <1>1, SumExists
<1>3. \A i \in 0 .. Len(s) : upTo[i] \in Nat
  <2> HIDE DEF upTo
  <2> QED BY <1>1, <1>2, SumExists
<1>4. SumOf(s) = upTo[Len(s)]
  BY DEF SumOf, SumUpTo, SumStep
<1>5. QED
  <2> HIDE DEF upTo
  <2> QED BY <1>1, <1>3, <1>4

(* The price zero is never above the middle of a window of prices.         *)
LEMMA ZeroIsNotAbove ==
  ASSUME NEW w \in Seq(Nat)
  PROVE  ~ AboveMiddle(0, w)
<1>1. SumOf(w) \in Nat /\ Len(w) \in Nat
  BY SumNatural
<1>2. QED
  BY <1>1 DEF AboveMiddle, Below

-----------------------------------------------------------------------------
(* The portfolio.                                                          *)

(* A part of what is held is no more than what is held; all of it is.      *)
LEMMA PartOf ==
  ASSUME NEW b \in Nat, NEW d \in Nat \ {0}
  PROVE  /\ b \div d \in 0 .. b
         /\ b \div 1 = b
         /\ b >= d => b \div d > 0
<1>1. b \div d \in Nat
  OBVIOUS
<1>2. b \div 1 = b
  OBVIOUS
<1>3. b >= d => b \div d > 0
  OBVIOUS
<1>4. b \div d <= b
  <2> DEFINE q == b \div d
  <2>1. d * q <= b /\ q \in Nat
    BY <1>1
  <2> HIDE DEF q
  <2>2. q <= d * q
    BY <2>1
  <2>3. q <= b
    BY <2>1, <2>2
  <2>4. QED
    BY <2>3 DEF q
<1>5. QED
  BY <1>1, <1>2, <1>3, <1>4

(* A product of natural numbers is one.                                    *)
LEMMA NaturalProduct ==
  ASSUME NEW a \in Nat, NEW b \in Nat
  PROVE  a * b \in Nat
OBVIOUS

(* What a purchase makes of the portfolio.                                 *)
LEMMA Bought ==
  ASSUME NEW p \in Nat, NEW den \in Nat \ {0}, balance \in Nat, btcAmount \in Nat,
         buyBTC(p, den)
  PROVE  /\ balance' \in Nat /\ btcAmount' \in Nat
         /\ den = 1 /\ p > 0 => balance' = 0
         /\ den = 1 /\ p > 0 /\ balance > 0 /\ balance >= p => btcAmount' > btcAmount
         /\ p = 0 => UNCHANGED portfolio
<1> DEFINE spent == balance \div den
<1>1. spent \in 0 .. balance /\ (den = 1 => spent = balance)
  BY PartOf
<1>2. p > 0 => spent \div p \in Nat /\ (spent >= p => spent \div p > 0)
  BY <1>1, PartOf
<1>3. IF p <= 0 \/ spent <= 0 THEN UNCHANGED portfolio
      ELSE balance' = balance - spent /\ btcAmount' = btcAmount + spent \div p
  BY DEF buyBTC
<1> HIDE DEF spent
<1>4. CASE p <= 0 \/ spent <= 0
  <2>1. balance' = balance /\ btcAmount' = btcAmount
    BY <1>3, <1>4 DEF portfolio
  <2>2. QED
    BY <1>1, <1>3, <1>4, <2>1
<1>5. CASE ~ (p <= 0 \/ spent <= 0)
  <2> DEFINE gained == spent \div p
  <2>1. gained \in Nat /\ (spent >= p => gained > 0)
    BY <1>1, <1>2, <1>5
  <2>2. balance' = balance - spent /\ btcAmount' = btcAmount + gained
    BY <1>3, <1>5
  <2> HIDE DEF gained
  <2>3. QED
    BY <1>1, <1>5, <2>1, <2>2
<1>6. QED
  BY <1>4, <1>5

(* What a sale makes of the portfolio.                                     *)
LEMMA Sold ==
  ASSUME NEW p \in Nat, NEW den \in Nat \ {0}, balance \in Nat, btcAmount \in Nat,
         sellBTC(p, den)
  PROVE  /\ balance' \in Nat /\ btcAmount' \in Nat
         /\ den = 1 /\ p > 0 => btcAmount' = 0
<1> DEFINE sold == btcAmount \div den
<1>1. sold \in 0 .. btcAmount /\ (den = 1 => sold = btcAmount)
  BY PartOf
<1>2. IF p <= 0 \/ sold <= 0 THEN UNCHANGED portfolio
      ELSE btcAmount' = btcAmount - sold /\ balance' = balance + sold * p
  BY DEF sellBTC
<1> HIDE DEF sold
<1>3. CASE p <= 0 \/ sold <= 0
  <2>1. balance' = balance /\ btcAmount' = btcAmount
    BY <1>2, <1>3 DEF portfolio
  <2>2. QED
    BY <1>1, <1>3, <2>1
<1>4. CASE ~ (p <= 0 \/ sold <= 0)
  <2>1. sold * p \in Nat
    BY <1>1, NaturalProduct
  <2>2. QED
    BY <1>1, <1>2, <1>4, <2>1
<1>5. QED
  BY <1>3, <1>4

-----------------------------------------------------------------------------
(* The inductive invariant.                                                *)

(* Where main is in its runs, and the start it has picked.                 *)
InSeries ==
  /\ pc \in {"fetch", "failed"} => run = 0
  /\ pc = "choose" => run < Runs
  /\ pc \in Simulating \cup {"data"} => startIndex \in Starts

(* What a simulation has read of its window.                               *)
Reading ==
  /\ pc \in Simulating => Len(window) = Period + Steps
  /\ pc \in {"momentum", "bollinger"} => step <= Steps
  /\ pc = "warmup" => step <= Period

(* What the Bollinger simulation holds: everything in crypto, or none.     *)
Holding ==
  /\ pc = "warmup" => btcAmount = 0
  /\ pc = "bollinger" /\ btcAmount > 0 => position = "LONG" /\ balance = 0

Inv == TypeOK /\ InSeries /\ Reading /\ Holding

(* The prices of a window are natural numbers.                             *)
LEMMA WindowNatural ==
  ASSUME TypeOK
  PROVE  window \in Seq(Nat)
<1>1. Prices \cup NoisyPrices \subseteq Nat
  OBVIOUS
<1>2. window \in Seq(Prices \cup NoisyPrices)
  BY DEF TypeOK
<1> DEFINE S == Prices \cup NoisyPrices
<1> HIDE DEF S
<1>3. Len(window) \in Nat /\ window \in [1 .. Len(window) -> S]
  BY <1>2 DEF S
<1>4. window \in [1 .. Len(window) -> Nat]
  BY <1>1, <1>3 DEF S
<1>5. QED
  BY <1>3, <1>4

(* A price of the window.                                                  *)
LEMMA PriceOfWindow ==
  ASSUME TypeOK, NEW n \in 1 .. Len(window)
  PROVE  window[n] \in Prices \cup NoisyPrices /\ window[n] \in Nat
<1>1. window \in Seq(Prices \cup NoisyPrices)
  BY DEF TypeOK
<1>2. window[n] \in Prices \cup NoisyPrices
  BY <1>1
<1>3. QED
  BY <1>2

Signals == {"HOLD", "BUY", "SELL", "CLOSE_LONG", "CLOSE_SHORT"}

(* The bot opens a position when it has none, closes the one it has, and   *)
(* never closes a long one at a price of zero.                             *)
LEMMA SignalOfPosition ==
  ASSUME TypeOK, NEW n \in 1 .. Len(window)
  PROVE  /\ Signal(n) \in Signals
         /\ Signal(n) \in {"BUY", "SELL"} => position = "NONE"
         /\ Signal(n) = "CLOSE_LONG" => position = "LONG" /\ window[n] > 0
         /\ Signal(n) = "CLOSE_SHORT" => position = "SHORT"
<1> DEFINE price == window[n]
           w     == Window(SubSeq(window, 1, n), Period)
           low   == UnderLowerBand(price, w, SquareK)
           high  == OverUpperBand(price, w, SquareK)
           above == AboveMiddle(price, w)
           below == BelowMiddle(price, w)
<1>1. Signal(n) = IF n < Period THEN "HOLD"
                  ELSE IF position = "NONE" /\ low THEN "BUY"
                  ELSE IF position = "NONE" /\ high THEN "SELL"
                  ELSE IF position = "LONG" /\ above THEN "CLOSE_LONG"
                  ELSE IF position = "SHORT" /\ below THEN "CLOSE_SHORT"
                  ELSE "HOLD"
  BY DEF Signal
<1>2. price \in Nat
  BY PriceOfWindow
<1>3. n >= Period /\ above => price > 0
  <2> SUFFICES ASSUME n >= Period, price = 0 PROVE ~ above
    BY <1>2
  <2> DEFINE h == SubSeq(window, 1, n)
  <2>1. h \in Seq(Nat) /\ Len(h) = n
    BY WindowNatural
  <2> HIDE DEF h
  <2>2. SubSeq(h, Len(h) - Period + 1, Len(h)) \in Seq(Nat)
    BY <2>1
  <2>3. w \in Seq(Nat)
    BY <2>2 DEF Window, h
  <2> HIDE DEF w
  <2>4. QED
    BY <2>3, ZeroIsNotAbove
<1> HIDE DEF w, low, high, above, below
<1>4. QED
  BY <1>1, <1>3 DEF Signals

(* The position after a signal.                                            *)
LEMMA Moved ==
  ASSUME NEW a \in Signals, NEW price, Move(a, price)
  PROVE  /\ a = "BUY" => position' = "LONG" /\ entryPrice' = price
         /\ a = "SELL" => position' = "SHORT" /\ entryPrice' = price
         /\ a \in {"CLOSE_LONG", "CLOSE_SHORT"} => position' = "NONE" /\ entryPrice' = 0
         /\ a = "HOLD" => position' = position /\ entryPrice' = entryPrice
<1>1. a \in {"HOLD", "BUY", "SELL", "CLOSE_LONG", "CLOSE_SHORT"}
  BY DEF Signals
<1>2. CASE a = "BUY"
  BY <1>2 DEF Move
<1>3. CASE a = "SELL"
  BY <1>3 DEF Move
<1>4. CASE a \in {"CLOSE_LONG", "CLOSE_SHORT"}
  BY <1>4 DEF Move
<1>5. CASE a = "HOLD"
  BY <1>5 DEF Move
<1>6. QED
  BY <1>1, <1>2, <1>3, <1>4, <1>5

(* The bot's variables keep their types.                                   *)
LEMMA MovedTypes ==
  ASSUME TypeOK, NEW n \in 1 .. Len(window), Move(Signal(n), window[n])
  PROVE  /\ position' \in {"NONE", "LONG", "SHORT"}
         /\ entryPrice' \in Prices \cup NoisyPrices \cup {0}
<1>1. PICK a \in Signals : a = Signal(n)
  BY SignalOfPosition
<1>2. a \in {"HOLD", "BUY", "SELL", "CLOSE_LONG", "CLOSE_SHORT"}
  BY DEF Signals
<1>3. window[n] \in Prices \cup NoisyPrices
  BY PriceOfWindow
<1>4. Move(a, window[n])
  BY <1>1
<1>5. QED
  BY <1>2, <1>3, <1>4, Moved DEF TypeOK

-----------------------------------------------------------------------------
(* The steps.                                                              *)

USE DEF Simulating

LEMMA Initially ==
  ASSUME Init
  PROVE  Inv
<1>1. /\ pc = "fetch" /\ size = 0 /\ run = 0 /\ startIndex = 0 /\ data = 1
      /\ window = << >> /\ step = 0 /\ balance = Balance /\ btcAmount = 0
      /\ position = "NONE" /\ entryPrice = 0
  BY DEF Init
<1>2. window \in Seq(Prices \cup NoisyPrices)
  BY <1>1
<1>3. warm \in BOOLEAN
  BY DEF Init
<1>4. TypeOK
  BY <1>1, <1>2, <1>3 DEF TypeOK
<1>5. QED
  BY <1>1, <1>4 DEF Inv, InSeries, Reading, Holding

(* Before a simulation.                                                    *)
LEMMA PreparingKeeps ==
  ASSUME Inv, FetchFails \/ Fetch \/ ChooseStart \/ OpenData
  PROVE  Inv'
<1> USE DEF dataVars, portfolio, bollinger
<1>1. CASE FetchFails
  BY <1>1 DEF FetchFails, Inv, TypeOK, InSeries, Reading, Holding
<1>2. CASE Fetch
  <2>1. pc' \in {"failed", "choose"}
    BY <1>2 DEF Fetch
  <2>2. size' \in 0 .. MaxData
    BY <1>2 DEF Fetch
  <2>3. run = 0 /\ pc = "fetch" /\ run < Runs
    BY <1>2 DEF Fetch, Inv, InSeries
  <2>4. UNCHANGED <<run, startIndex, data, window, step, balance, btcAmount, position,
                    entryPrice, warm>>
    BY <1>2 DEF Fetch
  <2>5. TypeOK'
    BY <2>1, <2>2, <2>4 DEF Inv, TypeOK
  <2>6. QED
    BY <2>1, <2>3, <2>4, <2>5 DEF Inv, InSeries, Reading, Holding
<1>3. CASE ChooseStart
  <2>1. pc = "choose" /\ pc' = "data" /\ run' = run + 1 /\ data' = 1
    BY <1>3 DEF ChooseStart
  <2>2. UNCHANGED <<size, window, step, balance, btcAmount, position, entryPrice, warm>>
    BY <1>3 DEF ChooseStart
  <2>3. startIndex' \in Nat /\ startIndex' \in Starts'
    BY <1>3, <2>2 DEF ChooseStart, Starts
  <2>4. run' \in 0 .. Runs
    BY <2>1 DEF Inv, TypeOK, InSeries
  <2>5. TypeOK'
    BY <2>1, <2>2, <2>3, <2>4 DEF Inv, TypeOK
  <2>6. QED
    BY <2>1, <2>3, <2>5 DEF Inv, InSeries, Reading, Holding
<1>4. CASE OpenData
  <2>1. pc = "data" /\ startIndex \in Starts /\ size \in Nat
    BY <1>4 DEF OpenData, Inv, InSeries, TypeOK
  <2>2. startIndex + Steps <= size
    BY <2>1 DEF Starts
  <2>3. /\ window' \in [1 .. Period + Steps -> IF data = 1 THEN Prices ELSE NoisyPrices]
        /\ pc' = "momentum" /\ step' = 0
        /\ balance' = Balance /\ btcAmount' = 0
    <3>1. ~ (startIndex + Steps > size)
      BY <2>1, <2>2 DEF Starts
    <3>2. QED
      BY <1>4, <3>1 DEF OpenData, NewPortfolio
  <2>4. UNCHANGED <<size, run, startIndex, data, position, entryPrice, warm>>
    BY <1>4 DEF OpenData
  <2>5. window' \in Seq(Prices \cup NoisyPrices) /\ Len(window') = Period + Steps
    <3> DEFINE n == Period + Steps
               S == IF data = 1 THEN Prices ELSE NoisyPrices
    <3>1. n \in Nat /\ S \subseteq Prices \cup NoisyPrices
      OBVIOUS
    <3>2. window' \in [1 .. n -> S]
      BY <2>3
    <3> HIDE DEF n, S
    <3>3. window' \in [1 .. n -> Prices \cup NoisyPrices]
      BY <3>1, <3>2
    <3>4. window' \in Seq(Prices \cup NoisyPrices)
      BY <3>1, <3>3
    <3>5. Len(window') = n
      BY <3>1, <3>3, <3>4
    <3>6. QED
      BY <3>4, <3>5 DEF n
  <2>6. TypeOK'
    BY <2>3, <2>4, <2>5 DEF Inv, TypeOK
  <2>7. InSeries'
    BY <2>1, <2>3, <2>4 DEF InSeries, Starts
  <2>8. QED
    BY <2>3, <2>5, <2>6, <2>7 DEF Inv, Reading, Holding
<1>5. QED
  BY <1>1, <1>2, <1>3, <1>4

(* A step of the momentum strategy, and its end.                           *)
LEMMA MomentumKeeps ==
  ASSUME Inv, MomentumStep \/ EndMomentum
  PROVE  Inv'
<1>1. CASE MomentumStep
  <2> DEFINE price == PriceAt(step)
  <2>1. pc = "momentum" /\ step \in 0 .. Steps - 1 /\ step' = step + 1
    BY <1>1 DEF MomentumStep, Inv, TypeOK
  <2>2. UNCHANGED <<pc, size, run, startIndex, data, window, position, entryPrice, warm>>
    BY <1>1 DEF MomentumStep, dataVars, bollinger
  <2>3. price \in Nat
    <3>1. Period + step + 1 \in 1 .. Len(window)
      BY <2>1 DEF Inv, Reading
    <3>2. QED
      BY <3>1, PriceOfWindow DEF Inv, PriceAt
  <2>4. balance \in Nat /\ btcAmount \in Nat
    BY DEF Inv, TypeOK
  <2>5. \/ sellBTC(price, FractionDen) \/ buyBTC(price, FractionDen)
        \/ balance' = balance /\ btcAmount' = btcAmount
    BY <1>1 DEF MomentumStep, portfolio
  <2> HIDE DEF price
  <2>6. balance' \in Nat /\ btcAmount' \in Nat
    BY <2>3, <2>4, <2>5, Bought, Sold
  <2>7. step' \in 0 .. Steps /\ step' \in 0 .. Steps + Period
    BY <2>1
  <2>8. TypeOK'
    BY <2>2, <2>6, <2>7 DEF Inv, TypeOK
  <2>9. InSeries'
    BY <2>2 DEF Inv, InSeries, Starts
  <2>10. QED
    BY <2>1, <2>2, <2>7, <2>8, <2>9 DEF Inv, Reading, Holding
<1>2. CASE EndMomentum
  <2>1. /\ pc = "momentum" /\ pc' = "warmup" /\ step' = 0
        /\ balance' = Balance /\ btcAmount' = 0
        /\ position' = "NONE" /\ entryPrice' = 0
    BY <1>2 DEF EndMomentum, NewPortfolio, NewBot
  <2>2. UNCHANGED <<size, run, startIndex, data, window>>
    BY <1>2 DEF EndMomentum, dataVars
  <2>3. TypeOK'
    <3>1. warm' \in BOOLEAN
      BY <1>2 DEF EndMomentum, NewBot
    <3>2. step' \in 0 .. Steps + Period /\ balance' \in Nat /\ btcAmount' \in Nat
      BY <2>1
    <3>3. QED
      BY <2>1, <2>2, <3>1, <3>2 DEF Inv, TypeOK
  <2>4. InSeries'
    BY <2>1, <2>2 DEF Inv, InSeries, Starts
  <2>5. QED
    BY <2>1, <2>2, <2>3, <2>4 DEF Inv, Reading, Holding
<1>3. QED
  BY <1>1, <1>2

(* A step of the warm-up, and its end.                                     *)
LEMMA WarmUpKeeps ==
  ASSUME Inv, WarmUp \/ EndWarmUp
  PROVE  Inv'
<1>1. CASE WarmUp
  <2>1. pc = "warmup" /\ step \in 0 .. Period - 1 /\ step' = step + 1
    BY <1>1 DEF WarmUp, Inv, TypeOK
  <2>2. UNCHANGED <<pc, size, run, startIndex, data, window, balance, btcAmount>>
    BY <1>1 DEF WarmUp, dataVars, portfolio
  <2>3. step + 1 \in 1 .. Len(window)
    BY <2>1 DEF Inv, Reading
  <2>4. Move(Signal(step + 1), window[step + 1])
    BY <1>1 DEF WarmUp
  <2>5. /\ position' \in {"NONE", "LONG", "SHORT"}
        /\ entryPrice' \in Prices \cup NoisyPrices \cup {0}
    BY <2>3, <2>4, MovedTypes DEF Inv
  <2>6. warm' \in BOOLEAN
    BY <1>1 DEF WarmUp
  <2>7. step' \in 0 .. Period /\ step' \in 0 .. Steps + Period
    BY <2>1
  <2>8. TypeOK'
    BY <2>2, <2>5, <2>6, <2>7 DEF Inv, TypeOK
  <2>9. InSeries'
    BY <2>2 DEF Inv, InSeries, Starts
  <2>10. QED
    BY <2>1, <2>2, <2>7, <2>8, <2>9 DEF Inv, Reading, Holding
<1>2. CASE EndWarmUp
  <2>1. pc = "warmup" /\ pc' = "bollinger" /\ step' = 0
    BY <1>2 DEF EndWarmUp
  <2>2. UNCHANGED <<size, run, startIndex, data, window, balance, btcAmount, position,
                    entryPrice, warm>>
    BY <1>2 DEF EndWarmUp, dataVars, portfolio, bollinger
  <2>3. TypeOK'
    BY <2>1, <2>2 DEF Inv, TypeOK
  <2>4. InSeries'
    BY <2>1, <2>2 DEF Inv, InSeries, Starts
  <2>5. QED
    BY <2>1, <2>2, <2>3, <2>4 DEF Inv, TypeOK, Reading, Holding
<1>3. QED
  BY <1>1, <1>2

(* What a signal makes of the portfolio and the position together.  A      *)
(* purchase takes all the dollars; a long position that is closed is sold. *)
LEMMA Acted ==
  ASSUME TypeOK, NEW n \in 1 .. Len(window),
         btcAmount > 0 => position = "LONG" /\ balance = 0,
         Move(Signal(n), window[n]), Act(Signal(n), window[n])
  PROVE  /\ balance' \in Nat /\ btcAmount' \in Nat
         /\ btcAmount' > 0 => position' = "LONG" /\ balance' = 0
<1> DEFINE p == window[n]
<1>1. PICK a \in Signals : a = Signal(n)
  BY SignalOfPosition
<1>2. /\ a \in {"BUY", "SELL"} => position = "NONE"
      /\ a = "CLOSE_LONG" => position = "LONG" /\ p > 0
      /\ a = "CLOSE_SHORT" => position = "SHORT"
  BY <1>1, SignalOfPosition
<1>3. Move(a, p) /\ Act(a, p)
  BY <1>1
<1>4. p \in Nat /\ balance \in Nat /\ btcAmount \in Nat
  BY PriceOfWindow DEF TypeOK
<1> HIDE DEF p
<1>5. /\ a = "BUY" => position' = "LONG"
      /\ a = "HOLD" => position' = position
  BY <1>3, Moved
<1>6. CASE a = "BUY" /\ btcAmount = 0
  <2>1. buyBTC(p, 1)
    BY <1>3, <1>6 DEF Act
  <2>2. /\ balance' \in Nat /\ btcAmount' \in Nat
        /\ p > 0 => balance' = 0
        /\ p = 0 => UNCHANGED portfolio
    BY <1>4, <2>1, Bought
  <2>3. p = 0 => btcAmount' = 0
    BY <1>6, <2>2 DEF portfolio
  <2>4. QED
    BY <1>4, <1>5, <1>6, <2>2, <2>3
<1>7. CASE a = "CLOSE_LONG" /\ btcAmount > 0
  <2>1. sellBTC(p, 1)
    BY <1>3, <1>7 DEF Act
  <2>2. balance' \in Nat /\ btcAmount' \in Nat /\ btcAmount' = 0
    BY <1>2, <1>4, <1>7, <2>1, Sold
  <2>3. QED
    BY <2>2
<1>8. CASE ~ (a = "BUY" /\ btcAmount = 0) /\ ~ (a = "CLOSE_LONG" /\ btcAmount > 0)
  <2>1. balance' = balance /\ btcAmount' = btcAmount
    BY <1>3, <1>8 DEF Act, portfolio
  <2>2. btcAmount > 0 => a = "HOLD"
    BY <1>2, <1>8 DEF Signals
  <2>3. QED
    BY <1>4, <1>5, <2>1, <2>2
<1>9. QED
  BY <1>6, <1>7, <1>8

(* A step of the Bollinger strategy, and its end.                          *)
LEMMA BollingerKeeps ==
  ASSUME Inv, BollingerStep \/ EndBollinger
  PROVE  Inv'
<1>1. CASE BollingerStep
  <2> DEFINE n == Period + step + 1
  <2>1. pc = "bollinger" /\ step \in 0 .. Steps - 1 /\ step' = step + 1
    BY <1>1 DEF BollingerStep, Inv, TypeOK
  <2>2. UNCHANGED <<pc, size, run, startIndex, data, window>>
    BY <1>1 DEF BollingerStep, dataVars
  <2>3. n \in 1 .. Len(window)
    BY <2>1 DEF Inv, Reading
  <2>4. Move(Signal(n), window[n]) /\ Act(Signal(n), window[n])
    BY <1>1 DEF BollingerStep, PriceAt
  <2>5. btcAmount > 0 => position = "LONG" /\ balance = 0
    BY <2>1 DEF Inv, Holding
  <2> HIDE DEF n
  <2>6. /\ position' \in {"NONE", "LONG", "SHORT"}
        /\ entryPrice' \in Prices \cup NoisyPrices \cup {0}
    BY <2>3, <2>4, MovedTypes DEF Inv
  <2>7. /\ balance' \in Nat /\ btcAmount' \in Nat
        /\ btcAmount' > 0 => position' = "LONG" /\ balance' = 0
    BY <2>3, <2>4, <2>5, Acted DEF Inv
  <2>8. warm' \in BOOLEAN
    BY <1>1 DEF BollingerStep, Inv, TypeOK
  <2>9. step' \in 0 .. Steps /\ step' \in 0 .. Steps + Period
    BY <2>1
  <2>10. TypeOK'
    BY <2>2, <2>6, <2>7, <2>8, <2>9 DEF Inv, TypeOK
  <2>11. InSeries'
    BY <2>2 DEF Inv, InSeries, Starts
  <2>12. QED
    BY <2>1, <2>2, <2>7, <2>9, <2>10, <2>11 DEF Inv, Reading, Holding
<1>2. CASE EndBollinger
  <2>1. /\ pc = "bollinger" /\ step' = 0 /\ window' = << >>
        /\ balance' = Balance /\ btcAmount' = 0
        /\ position' = "NONE" /\ entryPrice' = 0
    BY <1>2 DEF EndBollinger, NewPortfolio, NewBot
  <2>2. UNCHANGED <<size, run, startIndex>>
    BY <1>2 DEF EndBollinger
  <2>3. \/ data < 3 /\ pc' = "data" /\ data' = data + 1
        \/ data = 3 /\ run < Runs /\ pc' = "choose" /\ data' = data
        \/ data = 3 /\ run = Runs /\ pc' = "done" /\ data' = data
    BY <1>2 DEF EndBollinger
  <2>4. data \in 1 .. 3
    BY DEF Inv, TypeOK
  <2>5. data' \in 1 .. 3 /\ pc' \in {"data", "choose", "done"}
    BY <2>3, <2>4
  <2>6. window' \in Seq(Prices \cup NoisyPrices) /\ warm' \in BOOLEAN
    <3>1. window' \in Seq(Prices \cup NoisyPrices)
      BY <2>1
    <3>2. warm' \in BOOLEAN
      BY <1>2 DEF EndBollinger, NewBot
    <3>3. QED
      BY <3>1, <3>2
  <2>7. step' \in 0 .. Steps + Period /\ balance' \in Nat /\ btcAmount' \in Nat
    BY <2>1
  <2>8. TypeOK'
    BY <2>1, <2>2, <2>5, <2>6, <2>7 DEF Inv, TypeOK
  <2>9. InSeries'
    BY <2>1, <2>2, <2>3 DEF Inv, InSeries, Starts
  <2>10. QED
    BY <2>5, <2>8, <2>9 DEF Inv, Reading, Holding
<1>3. QED
  BY <1>1, <1>2

LEMMA Invariance == Spec => []Inv
<1>1. Inv /\ [Next]_vars => Inv'
  <2> SUFFICES ASSUME Inv, [Next]_vars PROVE Inv'
    OBVIOUS
  <2>1. CASE FetchFails \/ Fetch \/ ChooseStart \/ OpenData
    BY <2>1, PreparingKeeps
  <2>2. CASE MomentumStep \/ EndMomentum
    BY <2>2, MomentumKeeps
  <2>3. CASE WarmUp \/ EndWarmUp
    BY <2>3, WarmUpKeeps
  <2>4. CASE BollingerStep \/ EndBollinger
    BY <2>4, BollingerKeeps
  <2>5. CASE UNCHANGED vars
    BY <2>5 DEF vars, Inv, TypeOK, InSeries, Starts, Reading, Holding
  <2>6. QED
    BY <2>1, <2>2, <2>3, <2>4, <2>5 DEF Next
<1>2. QED
  BY <1>1, Initially, PTL DEF Spec

(* The prices, the portfolio and the bot of the back-test stay what        *)
(* Strategy.cpp and Portfolio.cpp take them for; no amount goes negative.  *)
THEOREM BackTestTypeCorrect == Spec => []TypeOK
<1>1. Inv => TypeOK
  BY DEF Inv
<1>2. QED
  BY <1>1, Invariance, PTL

(* No run of main.cpp reads a price outside the series or throws for want  *)
(* of prices, wherever the part it simulates starts.                       *)
THEOREM RunsReadTheSeries == Spec => []ReadsTheSeries
<1>1. Inv => ReadsTheSeries
  <2> SUFFICES ASSUME Inv PROVE ReadsTheSeries
    OBVIOUS
  <2>1. size \in Nat
    BY DEF Inv, TypeOK
  <2>2. pc \in Simulating => startIndex \in Period .. size - Steps
    BY DEF Inv, InSeries, Starts
  <2>3. pc \in Simulating => startIndex - Period >= 0 /\ startIndex + Steps <= size
    BY <2>1, <2>2
  <2>4. pc = "failed" => run = 0
    BY DEF Inv, InSeries
  <2>5. QED
    BY <2>3, <2>4 DEF ReadsTheSeries
<1>2. QED
  BY <1>1, Invariance, PTL

-----------------------------------------------------------------------------
(* The bot and the portfolio.                                              *)

(* In the code any amount of dollars buys some crypto; here a purchase     *)
(* rounds down, so that what is not in crypto must buy a unit of it.       *)
Affordable ==
  pc = "bollinger" /\ btcAmount = 0 =>
    balance > 0 /\ \A p \in Prices \cup NoisyPrices : balance >= p

(* A long position with nothing held.                                      *)
Unbacked == position = "LONG" /\ btcAmount = 0

UnbackedExplained == pc \in {"warmup", "bollinger"} /\ Unbacked => warm \/ entryPrice = 0

(* A long position the Bollinger simulation leaves with nothing held was   *)
(* opened at a price of zero, or was so before.                            *)
LEMMA ActedUnbacked ==
  ASSUME TypeOK, NEW n \in 1 .. Len(window),
         btcAmount > 0 => position = "LONG",
         btcAmount = 0 => balance > 0 /\ balance >= window[n],
         Move(Signal(n), window[n]), Act(Signal(n), window[n]), Unbacked'
  PROVE  entryPrice' = 0 \/ (Unbacked /\ position' = position /\ entryPrice' = entryPrice)
<1> DEFINE p == window[n]
<1>1. PICK a \in Signals : a = Signal(n)
  BY SignalOfPosition
<1>2. a \in {"BUY", "SELL"} => position = "NONE"
  BY <1>1, SignalOfPosition
<1>3. Move(a, p) /\ Act(a, p)
  BY <1>1
<1>4. p \in Nat /\ balance \in Nat /\ btcAmount \in Nat
  BY PriceOfWindow DEF TypeOK
<1>5. btcAmount = 0 => balance > 0 /\ balance >= p
  OBVIOUS
<1> HIDE DEF p
<1>6. a \in {"BUY", "HOLD"}
  BY <1>3, Moved DEF Signals, Unbacked
<1>7. CASE a = "BUY"
  <2>1. btcAmount = 0
    BY <1>2, <1>4, <1>7
  <2>2. buyBTC(p, 1)
    BY <1>3, <1>7, <2>1 DEF Act
  <2>3. p > 0 => btcAmount' > btcAmount
    BY <1>4, <1>5, <2>1, <2>2, Bought
  <2>4. p = 0
    BY <1>4, <2>1, <2>3 DEF Unbacked
  <2>5. QED
    BY <1>3, <1>7, <2>4, Moved
<1>8. CASE a = "HOLD"
  <2>1. btcAmount' = btcAmount
    BY <1>3, <1>8 DEF Act, portfolio
  <2>2. position' = position /\ entryPrice' = entryPrice
    BY <1>3, <1>8, Moved
  <2>3. QED
    BY <2>1, <2>2 DEF Unbacked
<1>9. QED
  BY <1>6, <1>7, <1>8

LEMMA UnbackedStep ==
  ASSUME Inv, Affordable, UnbackedExplained, [Next]_vars
  PROVE  UnbackedExplained'
<1> SUFFICES ASSUME pc' \in {"warmup", "bollinger"}, Unbacked'
             PROVE  warm' \/ entryPrice' = 0
  BY DEF UnbackedExplained
<1>1. CASE FetchFails \/ Fetch \/ ChooseStart \/ OpenData \/ MomentumStep \/ EndBollinger
  BY <1>1 DEF FetchFails, Fetch, ChooseStart, OpenData, MomentumStep, EndBollinger
<1>2. CASE EndMomentum
  BY <1>2 DEF EndMomentum, NewBot, Unbacked
<1>3. CASE WarmUp
  <2>1. warm' = (position' # "NONE") /\ position' = "LONG"
    BY <1>3 DEF WarmUp, Unbacked
  <2>2. QED
    BY <2>1
<1>4. CASE EndWarmUp
  <2>1. pc = "warmup" /\ UNCHANGED <<warm, entryPrice, position, btcAmount>>
    BY <1>4 DEF EndWarmUp, portfolio, bollinger
  <2>2. warm \/ entryPrice = 0
    BY <2>1 DEF UnbackedExplained, Unbacked
  <2>3. QED
    BY <2>1, <2>2
<1>5. CASE BollingerStep
  <2> DEFINE n == Period + step + 1
  <2>1. pc = "bollinger" /\ step \in 0 .. Steps - 1
    BY <1>5 DEF BollingerStep, Inv, TypeOK
  <2>2. n \in 1 .. Len(window)
    BY <2>1 DEF Inv, Reading
  <2>3. Move(Signal(n), window[n]) /\ Act(Signal(n), window[n])
    BY <1>5 DEF BollingerStep, PriceAt
  <2>4. btcAmount > 0 => position = "LONG"
    BY <2>1 DEF Inv, Holding
  <2>5. window[n] \in Prices \cup NoisyPrices
    BY <2>2, PriceOfWindow DEF Inv
  <2>6. btcAmount = 0 => balance > 0 /\ balance >= window[n]
    BY <2>1, <2>5 DEF Affordable
  <2>7. warm' = (warm /\ position' = position)
    BY <1>5 DEF BollingerStep
  <2> HIDE DEF n
  <2>8. entryPrice' = 0 \/ (Unbacked /\ position' = position /\ entryPrice' = entryPrice)
    BY <2>2, <2>3, <2>4, <2>6, ActedUnbacked DEF Inv
  <2>9. Unbacked => warm \/ entryPrice = 0
    BY <2>1 DEF UnbackedExplained
  <2>10. QED
    BY <2>7, <2>8, <2>9
<1>6. CASE UNCHANGED vars
  <2>1. UNCHANGED <<pc, warm, entryPrice, position, btcAmount>>
    BY <1>6 DEF vars
  <2>2. warm \/ entryPrice = 0
    BY <2>1 DEF UnbackedExplained, Unbacked
  <2>3. QED
    BY <2>1, <2>2
<1>7. QED
  BY <1>1, <1>2, <1>3, <1>4, <1>5, <1>6 DEF Next

(* As long as what is not in crypto buys a unit of it, the position of     *)
(* BollingerBot and the portfolio of Strategy.cpp agree, but for what the  *)
(* warm-up or a price of zero left.                                        *)
THEOREM BotAndPortfolioAgree == Spec /\ []Affordable => []BotAgrees
<1>1. Init => UnbackedExplained
  BY DEF Init, UnbackedExplained
<1>2. Inv /\ Affordable /\ UnbackedExplained /\ [Next]_vars => UnbackedExplained'
  BY UnbackedStep
<1>3. Inv /\ UnbackedExplained => BotAgrees
  <2> SUFFICES ASSUME Inv, UnbackedExplained, pc \in {"warmup", "bollinger"}
               PROVE  /\ btcAmount > 0 => position = "LONG" /\ balance = 0
                      /\ position = "LONG" /\ btcAmount = 0 => warm \/ entryPrice = 0
    BY DEF BotAgrees
  <2>1. btcAmount > 0 => position = "LONG" /\ balance = 0
    BY DEF Inv, Holding
  <2>2. position = "LONG" /\ btcAmount = 0 => warm \/ entryPrice = 0
    BY DEF UnbackedExplained, Unbacked
  <2>3. QED
    BY <2>1, <2>2
<1>4. QED
  BY <1>1, <1>2, <1>3, Invariance, PTL DEF Spec
=============================================================================
