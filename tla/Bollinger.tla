------------------------------ MODULE Bollinger ------------------------------
(***************************************************************************)
(* The Bollinger bands used by the server's bot (Bot.cpp) and by the       *)
(* back-test (FineTrading's Bollinger.cpp): the mean m of the last n       *)
(* prices, and the bands m - K * d and m + K * d where d is the population *)
(* standard deviation of these prices.                                     *)
(*                                                                         *)
(* The comparisons of a price with the bands are made exactly, in          *)
(* integers.  With S the sum and Q the sum of the squares of the window,   *)
(* n * m = S and (n * d)^2 = n * Q - S^2, so that p <= m - K * d is        *)
(* S - n * p >= 0 and (S - n * p)^2 >= K^2 * (n * Q - S^2).                *)
(***************************************************************************)
LOCAL INSTANCE Integers
LOCAL INSTANCE Sequences

SumOf(s) ==
  LET upTo[i \in 0 .. Len(s)] == IF i = 0 THEN 0 ELSE upTo[i - 1] + s[i]
  IN  upTo[Len(s)]

Window(h, n) == SubSeq(h, Len(h) - n + 1, Len(h))

Variance(w) == Len(w) * SumOf([i \in 1 .. Len(w) |-> w[i] * w[i]]) - SumOf(w) * SumOf(w)

Below(p, w) == SumOf(w) - Len(w) * p

AboveMiddle(p, w) == Below(p, w) < 0
BelowMiddle(p, w) == Below(p, w) > 0

(* p <= lower band and p >= upper band; squareK is the square of K.        *)
AtLowerBand(p, w, squareK) ==
  /\ Below(p, w) >= 0
  /\ Below(p, w) * Below(p, w) >= squareK * Variance(w)

AtUpperBand(p, w, squareK) ==
  /\ Below(p, w) <= 0
  /\ Below(p, w) * Below(p, w) >= squareK * Variance(w)

(* p < lower band and p > upper band, for K > 0.                           *)
UnderLowerBand(p, w, squareK) ==
  /\ Below(p, w) > 0
  /\ Below(p, w) * Below(p, w) > squareK * Variance(w)

OverUpperBand(p, w, squareK) ==
  /\ Below(p, w) < 0
  /\ Below(p, w) * Below(p, w) > squareK * Variance(w)
=============================================================================
