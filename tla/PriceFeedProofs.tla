-------------------------- MODULE PriceFeedProofs --------------------------
(***************************************************************************)
(* The circular buffer of prices, for every size, interval and number of   *)
(* updates.                                                                *)
(***************************************************************************)
EXTENDS PriceFeed, TLAPS

USE FeedAssumption

-----------------------------------------------------------------------------
(* Arithmetic of the index.                                                *)

(* The remainder of a number less than twice the divisor.                  *)
LEMMA RemainderOfSmall ==
  ASSUME NEW n \in Nat \ {0}
  PROVE  /\ \A x \in 0 .. n - 1 : x % n = x
         /\ \A x \in n .. 2 * n - 1 : x % n = x - n
<1>1. ASSUME NEW x \in 0 .. n - 1 PROVE x % n = x
  OBVIOUS
<1>2. ASSUME NEW x \in n .. 2 * n - 1 PROVE x % n = x - n
  OBVIOUS
<1> QED
  BY <1>1, <1>2

(* The quotient of a delay by the interval between two updates.            *)
LEMMA QuotientBounds ==
  ASSUME NEW s \in Nat, NEW n \in Nat \ {0}, NEW m \in Nat \ {0}
  PROVE  /\ s \div n \in Nat
         /\ s < n => s \div n = 0
         /\ s >= n => s \div n >= 1
         /\ s >= m * n => s \div n >= m
         /\ s < m * n => s \div n < m
<1>1. s \div n \in Nat
  OBVIOUS
<1>2. s < n => s \div n = 0
  OBVIOUS
<1>3. s >= n => s \div n >= 1
  OBVIOUS
<1>4. s >= m * n => s \div n >= m
  OBVIOUS
<1>5. s < m * n => s \div n < m
  OBVIOUS
<1> QED
  BY <1>1, <1>2, <1>3, <1>4, <1>5

(* The slot of the i-th price before the next write.                       *)
Place(i) == (activeIndex + Size - i) % Size

(* Places are slots, a place for each price, and the oldest price is where *)
(* the next one goes.                                                      *)
LEMMA Places ==
  ASSUME activeIndex \in 0 .. Size - 1, NEW i \in 1 .. Size
  PROVE  /\ Place(i) = IF i <= activeIndex THEN activeIndex - i
                       ELSE activeIndex + Size - i
         /\ Place(i) \in 0 .. Size - 1
         /\ Place(i) = activeIndex <=> i = Size
<1>1. CASE i <= activeIndex
  <2> DEFINE x == activeIndex + Size - i
  <2>1. x \in Size .. 2 * Size - 1 /\ x - Size = activeIndex - i
    BY <1>1
  <2> HIDE DEF x
  <2>2. x % Size = x - Size
    BY <2>1, RemainderOfSmall
  <2>3. Place(i) = activeIndex - i
    BY <2>1, <2>2 DEF Place, x
  <2> QED
    BY <2>3, <1>1
<1>2. CASE ~ (i <= activeIndex)
  <2>1. activeIndex + Size - i \in 0 .. Size - 1
    BY <1>2
  <2>2. Place(i) = activeIndex + Size - i
    BY <2>1, RemainderOfSmall DEF Place
  <2> QED
    BY <2>2, <1>2
<1> QED
  BY <1>1, <1>2

(* getPreviousPrice looks k places back, and in the oldest for k = 0.      *)
LEMMA SlotIsPlace ==
  ASSUME activeIndex \in 0 .. Size - 1, NEW k \in 0 .. Size - 1
  PROVE  Slot(k) = Place(IF k = 0 THEN Size ELSE k)
<1>1. CASE k <= activeIndex
  <2>1. activeIndex - k \in 0 .. Size - 1
    BY <1>1
  <2>2. Remainder(activeIndex - k, Size) = activeIndex - k
    BY <2>1, RemainderOfSmall DEF Remainder
  <2>3. Slot(k) = activeIndex - k
    BY <2>1, <2>2 DEF Slot
  <2> QED
    BY <2>3, <1>1, Places
<1>2. CASE ~ (k <= activeIndex)
  <2>1. k - activeIndex \in 1 .. Size - 1 /\ - (activeIndex - k) = k - activeIndex
        /\ ~ (activeIndex - k >= 0)
    BY <1>2
  <2>2. (k - activeIndex) % Size = k - activeIndex
    BY <2>1, RemainderOfSmall
  <2>3. Remainder(activeIndex - k, Size) = activeIndex - k
    BY <2>1, <2>2 DEF Remainder
  <2>4. Slot(k) = activeIndex - k + Size
    BY <2>1, <2>3 DEF Slot
  <2> QED
    BY <2>4, <1>2, Places
<1> QED
  BY <1>1, <1>2

-----------------------------------------------------------------------------
(* Types.                                                                  *)

(* The writer has a price in hand while it is between its two writes.      *)
Holding == worker = "storing" => last >= 1

(* Storing moves the index by one place.                                   *)
LEMMA NextIndexIs ==
  ASSUME NEW a \in 0 .. Size - 1
  PROVE  NextIndex(a) = IF a = Size - 1 THEN 0 ELSE a + 1
<1>1. CASE a = Size - 1
  <2>1. a + 1 \in Size .. 2 * Size - 1
    BY <1>1
  <2> QED
    BY <2>1, <1>1, RemainderOfSmall DEF NextIndex
<1>2. CASE a # Size - 1
  <2>1. a + 1 \in 0 .. Size - 1
    BY <1>2
  <2> QED
    BY <2>1, <1>2, RemainderOfSmall DEF NextIndex
<1> QED
  BY <1>1, <1>2

(* The slot getPreviousPrice reads is one of the buffer's.                 *)
LEMMA PreviousPriceIsStored ==
  ASSUME activeIndex \in 0 .. Size - 1, NEW s \in Nat
  PROVE  /\ Steps(s) \in 0 .. Size - 1
         /\ PreviousPrice(s) = buffer[Place(IF Steps(s) = 0 THEN Size ELSE Steps(s))]
         /\ Place(IF Steps(s) = 0 THEN Size ELSE Steps(s)) \in 0 .. Size - 1
<1>1. s \div Interval \in Nat
  BY QuotientBounds
<1>2. Steps(s) \in 0 .. Size - 1
  BY <1>1 DEF Steps
<1>3. (IF Steps(s) = 0 THEN Size ELSE Steps(s)) \in 1 .. Size
  BY <1>2
<1> QED
  BY <1>2, <1>3, SlotIsPlace, Places DEF PreviousPrice

(* Every step keeps the types, and the writer's price.                     *)
LEMMA TypeStep == TypeOK /\ Holding /\ [Next]_vars => TypeOK' /\ Holding'
<1> SUFFICES ASSUME TypeOK, Holding, [Next]_vars PROVE TypeOK' /\ Holding'
  OBVIOUS
<1> USE DEF TypeOK, Holding, prices
<1>1. CASE Start
  BY <1>1 DEF Start
<1>2. CASE Stop
  BY <1>2 DEF Stop
<1>3. CASE Join
  BY <1>3 DEF Join
<1>4. CASE LoopTest
  BY <1>4 DEF LoopTest
<1>5. CASE FetchFails
  BY <1>5 DEF FetchFails
<1>6. CASE Publish
  BY <1>6 DEF Publish
<1>7. CASE Store
  <2>1. NextIndex(activeIndex) \in 0 .. Size - 1
    BY NextIndexIs
  <2> QED
    BY <1>7, <2>1 DEF Store
<1>8. CASE WakeUp
  BY <1>8 DEF WakeUp
<1>9. CASE GetPrice
  BY <1>9 DEF GetPrice, Newest
<1>10. CASE GetPreviousPrice
  <2>1. PICK s \in Delays : IF s <= 0 THEN SrdFree /\ seen' = Newest(seen, last)
                            ELSE seen' = Newest(seen, PreviousPrice(s))
    BY <1>10 DEF GetPreviousPrice
  <2>2. s \in Int
    OBVIOUS
  <2>3. ~ (s <= 0) => PreviousPrice(s) \in 0 .. MaxUpdates
    BY <2>2, PreviousPriceIsStored
  <2>4. seen' \in 0 .. MaxUpdates
    BY <2>1, <2>2, <2>3 DEF Newest
  <2> QED
    BY <1>10, <2>4 DEF GetPreviousPrice
<1>11. CASE UNCHANGED vars
  BY <1>11 DEF vars
<1> QED
  BY <1>1, <1>2, <1>3, <1>4, <1>5, <1>6, <1>7, <1>8, <1>9, <1>10, <1>11 DEF Next, Work

LEMMA TypesHold == Spec => [](TypeOK /\ Holding)
<1>1. Init => TypeOK /\ Holding
  <2>1. 0 \in 0 .. Size - 1 /\ 0 \in 0 .. MaxUpdates
    OBVIOUS
  <2> QED
    BY <2>1 DEF Init, TypeOK, Holding
<1> QED
  BY <1>1, TypeStep, PTL DEF Spec

(* The variables have their types: the index never leaves the buffer.      *)
THEOREM TypeCorrect == Spec => []TypeOK
BY TypesHold, PTL


-----------------------------------------------------------------------------
(* The ring.                                                               *)

(* The thread is not started twice.                                        *)
NotStarted == server = "initial" => worker = "off"

(* No reader was given a price that is not stored yet.                     *)
SeenStored == seen <= Stored

RingInv == TypeOK /\ Holding /\ NotStarted /\ RingIsRecentPast /\ SeenStored

LEMMA StoredIsNat == TypeOK /\ Holding => Stored \in Nat
BY DEF TypeOK, Holding, Stored

(* The price at each place.                                                *)
LEMMA RingByPlace ==
  RingIsRecentPast <=>
    \A i \in 1 .. Size : buffer[Place(i)] = UpdateNumber(Stored - i + 1)
BY DEF RingIsRecentPast, Place

(* What getPreviousPrice finds.                                            *)
LEMMA PreviousPriceFound ==
  ASSUME TypeOK, Holding, RingIsRecentPast, NEW s \in Nat
  PROVE  PreviousPrice(s) =
           UpdateNumber(Stored - (IF Steps(s) = 0 THEN Size ELSE Steps(s)) + 1)
<1>1. Steps(s) \in 0 .. Size - 1
      /\ PreviousPrice(s) = buffer[Place(IF Steps(s) = 0 THEN Size ELSE Steps(s))]
  BY PreviousPriceIsStored DEF TypeOK
<1>2. (IF Steps(s) = 0 THEN Size ELSE Steps(s)) \in 1 .. Size
  BY <1>1
<1> QED
  BY <1>1, <1>2, RingByPlace

(* Storing turns the ring by one place.                                    *)
LEMMA StoreTurns ==
  ASSUME TypeOK, Holding, RingIsRecentPast, Store
  PROVE  RingIsRecentPast'
<1> DEFINE a == activeIndex
<1>1. /\ a \in 0 .. Size - 1 /\ activeIndex' \in 0 .. Size - 1
      /\ activeIndex' = IF a = Size - 1 THEN 0 ELSE a + 1
  BY NextIndexIs DEF Store, TypeOK
<1>2. last \in Nat /\ last >= 1 /\ Stored = last - 1 /\ Stored' = last
  BY DEF Store, TypeOK, Holding, Stored
<1>3. \A j \in 0 .. Size - 1 : buffer'[j] = IF j = a THEN last ELSE buffer[j]
  BY DEF Store, TypeOK
<1>4. \A i \in 1 .. Size :
         Place(i)' = IF i <= activeIndex' THEN activeIndex' - i
                     ELSE activeIndex' + Size - i
  <2>1. TypeOK' => activeIndex' \in 0 .. Size - 1
    BY <1>1
  <2> SUFFICES ASSUME NEW i \in 1 .. Size
               PROVE  Place(i)' = IF i <= activeIndex' THEN activeIndex' - i
                                  ELSE activeIndex' + Size - i
    OBVIOUS
  <2> DEFINE x == activeIndex' + Size - i
  <2>2. CASE i <= activeIndex'
    <3>1. x \in Size .. 2 * Size - 1 /\ x - Size = activeIndex' - i
      BY <1>1, <2>2
    <3> HIDE DEF x
    <3>2. x % Size = x - Size
      BY <3>1, RemainderOfSmall
    <3> QED
      BY <3>1, <3>2, <2>2 DEF Place, x
  <2>3. CASE ~ (i <= activeIndex')
    <3>1. x \in 0 .. Size - 1
      BY <1>1, <2>3
    <3> HIDE DEF x
    <3>2. x % Size = x
      BY <3>1, RemainderOfSmall
    <3> QED
      BY <3>2, <2>3 DEF Place, x
  <2> QED
    BY <2>2, <2>3
<1>5. Place(1)' = a
  BY <1>1, <1>4
<1>6. \A i \in 2 .. Size : Place(i)' = Place(i - 1)
  <2> SUFFICES ASSUME NEW i \in 2 .. Size PROVE Place(i)' = Place(i - 1)
    OBVIOUS
  <2>1. i - 1 \in 1 .. Size
    OBVIOUS
  <2>2. Place(i - 1) = IF i - 1 <= a THEN a - (i - 1) ELSE a + Size - (i - 1)
    BY <2>1, <1>1, Places
  <2> QED
    BY <2>2, <1>1, <1>4
<1>7. \A i \in 1 .. Size : buffer'[Place(i)'] = UpdateNumber(Stored' - i + 1)
  <2> SUFFICES ASSUME NEW i \in 1 .. Size
               PROVE  buffer'[Place(i)'] = UpdateNumber(last - i + 1)
    BY <1>2
  <2>1. CASE i = 1
    BY <2>1, <1>1, <1>2, <1>3, <1>5 DEF UpdateNumber
  <2>2. CASE i # 1
    <3>1. i - 1 \in 1 .. Size /\ i - 1 # Size /\ Stored - (i - 1) + 1 = last - i + 1
      BY <2>2, <1>2
    <3>2. Place(i - 1) \in 0 .. Size - 1 /\ Place(i - 1) # a
      BY <3>1, <1>1, Places
    <3>3. buffer[Place(i - 1)] = UpdateNumber(last - i + 1)
      BY <3>1, RingByPlace
    <3>4. Place(i)' = Place(i - 1)
      BY <2>2, <1>6
    <3> QED
      BY <3>2, <3>3, <3>4, <1>3
  <2> QED
    BY <2>1, <2>2
<1> QED
  BY <1>7 DEF RingIsRecentPast, Place

(* A step that leaves the buffer and its index alone keeps the ring if the *)
(* number of prices stored is the same.                                    *)
LEMMA SameRing ==
  ASSUME RingIsRecentPast, buffer' = buffer, activeIndex' = activeIndex, Stored' = Stored
  PROVE  RingIsRecentPast'
BY DEF RingIsRecentPast

LEMMA RingStep == RingInv /\ [Next]_vars => RingInv'
<1> SUFFICES ASSUME RingInv, [Next]_vars PROVE RingInv'
  OBVIOUS
<1> USE DEF RingInv
<1>1. TypeOK' /\ Holding'
  BY TypeStep
<1>2. TypeOK /\ Stored \in Nat /\ last \in Nat /\ seen \in Nat
  BY StoredIsNat DEF TypeOK
<1>3. ASSUME UNCHANGED <<prices, seen>>, Stored' = Stored
      PROVE  RingIsRecentPast' /\ SeenStored'
  BY <1>3, SameRing DEF prices, SeenStored
<1>4. CASE Start
  <2>1. Stored' = Stored
    BY <1>4 DEF Start, NotStarted, Stored, prices
  <2> QED
    BY <1>1, <1>3, <1>4, <2>1 DEF Start, NotStarted
<1>5. CASE Stop
  BY <1>1, <1>3, <1>5 DEF Stop, NotStarted, Stored, prices
<1>6. CASE Join
  BY <1>1, <1>3, <1>6 DEF Join, NotStarted, Stored, prices
<1>7. CASE LoopTest
  BY <1>1, <1>3, <1>7 DEF LoopTest, NotStarted, Stored, prices
<1>8. CASE FetchFails
  BY <1>1, <1>3, <1>8 DEF FetchFails, NotStarted, Stored, prices
<1>9. CASE Publish
  <2>1. Stored' = Stored
    BY <1>2, <1>9 DEF Publish, Stored
  <2>2. RingIsRecentPast'
    BY <1>9, <2>1, SameRing DEF Publish
  <2> QED
    BY <1>1, <1>9, <2>1, <2>2 DEF Publish, NotStarted, SeenStored
<1>10. CASE Store
  <2>1. RingIsRecentPast'
    BY <1>10, StoreTurns
  <2>2. Stored = last - 1 /\ Stored' = last /\ seen' = seen
    BY <1>10 DEF Store, Stored
  <2>3. SeenStored'
    BY <1>2, <2>2 DEF SeenStored
  <2>4. NotStarted'
    BY <1>10 DEF Store, NotStarted
  <2> QED
    BY <1>1, <2>1, <2>3, <2>4
<1>11. CASE WakeUp
  BY <1>1, <1>3, <1>11 DEF WakeUp, NotStarted, Stored, prices
<1>12. CASE GetPrice
  <2>1. Stored = last /\ Stored' = Stored
    BY <1>12 DEF GetPrice, SrdFree, Stored, prices
  <2>2. RingIsRecentPast'
    BY <1>12, <2>1, SameRing DEF GetPrice, prices
  <2>3. seen' <= Stored
    BY <1>2, <1>12, <2>1 DEF GetPrice, Newest, SeenStored
  <2> QED
    BY <1>1, <1>12, <2>1, <2>2, <2>3 DEF GetPrice, NotStarted, SeenStored
<1>13. CASE GetPreviousPrice
  <2>1. Stored' = Stored
    BY <1>13 DEF GetPreviousPrice, Stored, prices
  <2>2. RingIsRecentPast'
    BY <1>13, <2>1, SameRing DEF GetPreviousPrice, prices
  <2>3. PICK s \in Delays : IF s <= 0 THEN SrdFree /\ seen' = Newest(seen, last)
                            ELSE seen' = Newest(seen, PreviousPrice(s))
    BY <1>13 DEF GetPreviousPrice
  <2>4. s \in Int
    OBVIOUS
  <2>5. ASSUME s <= 0 PROVE seen' <= Stored
    BY <1>2, <2>3, <2>5 DEF Newest, SeenStored, SrdFree, Stored
  <2>6. ASSUME ~ (s <= 0) PROVE seen' <= Stored
    <3>1. s \in Nat
      BY <2>4, <2>6
    <3> DEFINE j == IF Steps(s) = 0 THEN Size ELSE Steps(s)
    <3>2. Steps(s) \in 0 .. Size - 1
      BY <3>1, PreviousPriceIsStored DEF TypeOK
    <3>3. j \in 1 .. Size
      BY <3>2
    <3>4. PreviousPrice(s) = UpdateNumber(Stored - j + 1)
      BY <3>1, PreviousPriceFound
    <3> HIDE DEF j
    <3>5. Stored - j + 1 \in Int /\ Stored - j + 1 <= Stored
      BY <1>2, <3>3
    <3>6. PreviousPrice(s) \in Int /\ PreviousPrice(s) <= Stored
      BY <1>2, <3>4, <3>5 DEF UpdateNumber
    <3>7. seen' = Newest(seen, PreviousPrice(s))
      BY <2>3, <2>6
    <3> QED
      BY <1>2, <3>6, <3>7 DEF Newest, SeenStored
  <2>7. seen' <= Stored
    BY <2>5, <2>6
  <2> QED
    BY <1>1, <1>13, <2>1, <2>2, <2>7 DEF GetPreviousPrice, NotStarted, SeenStored
<1>14. CASE UNCHANGED vars
  <2>1. Stored' = Stored
    BY <1>14 DEF vars, Stored
  <2> QED
    BY <1>1, <1>3, <1>14, <2>1 DEF vars, prices, NotStarted
<1> QED
  BY <1>4, <1>5, <1>6, <1>7, <1>8, <1>9, <1>10, <1>11, <1>12, <1>13, <1>14 DEF Next, Work

LEMMA RingHolds == Spec => []RingInv
<1>1. Init => TypeOK /\ Holding
  <2>1. 0 \in 0 .. Size - 1 /\ 0 \in 0 .. MaxUpdates
    OBVIOUS
  <2> QED
    BY <2>1 DEF Init, TypeOK, Holding
<1>2. Init => RingInv
  <2> SUFFICES ASSUME Init PROVE RingInv
    OBVIOUS
  <2>1. TypeOK /\ Holding
    BY <1>1
  <2>2. NotStarted /\ SeenStored /\ Stored = 0
    BY DEF Init, NotStarted, SeenStored, Stored
  <2>3. ASSUME NEW i \in 1 .. Size PROVE buffer[Place(i)] = UpdateNumber(Stored - i + 1)
    <3>1. Place(i) \in 0 .. Size - 1
      BY <2>1, Places DEF TypeOK
    <3> QED
      BY <3>1, <2>2 DEF Init, UpdateNumber
  <2> QED
    BY <2>1, <2>2, <2>3, RingByPlace DEF RingInv
<1> QED
  BY <1>2, RingStep, PTL DEF Spec

(* The buffer is the recent past, whatever the number of times the index   *)
(* has gone round: for every size and every number of updates.             *)
THEOREM RingIsThePast == Spec => []RingIsRecentPast
<1>1. RingInv => RingIsRecentPast
  BY DEF RingInv
<1> QED
  BY <1>1, RingHolds, PTL

(* What getPreviousPrice answers to each delay.                            *)
THEOREM AnswersFromThePast == Spec => []PreviousPriceIsPast
<1>1. RingInv => PreviousPriceIsPast
  <2> DEFINE m == Size * Interval
  <2> SUFFICES ASSUME RingInv, NEW s \in Delays, s > 0
               PROVE  /\ s < Interval => PreviousPrice(s) = UpdateNumber(Oldest)
                      /\ Interval <= s /\ s < m =>
                           PreviousPrice(s) = UpdateNumber(Stored - (s \div Interval) + 1)
                      /\ s >= m =>
                           PreviousPrice(s) \in {UpdateNumber(Oldest), UpdateNumber(Oldest + 1)}
    <3>1. \A s \in Delays : s \in Int
      OBVIOUS
    <3>2. m \in Nat /\ m > 0 /\ Interval \in Nat /\ Interval > 0
      OBVIOUS
    <3> HIDE DEF m
    <3> QED
      BY <3>1, <3>2 DEF PreviousPriceIsPast, m
  <2> DEFINE k == s \div Interval
             j == IF Steps(s) = 0 THEN Size ELSE Steps(s)
  <2>1. s \in Nat /\ Stored \in Nat /\ m \in Nat
    BY StoredIsNat DEF RingInv
  <2>2. /\ k \in Nat
        /\ s < Interval => k = 0
        /\ s >= Interval => k >= 1
        /\ s >= m => k >= Size
        /\ s < m => k < Size
    BY <2>1, QuotientBounds
  <2>3. Steps(s) = IF k >= Size THEN Size - 1 ELSE k
    BY DEF Steps
  <2>4. PreviousPrice(s) = UpdateNumber(Stored - j + 1)
    BY <2>1, PreviousPriceFound DEF RingInv
  <2> HIDE DEF k, m
  <2>5. CASE s < Interval
    <3>1. j = Size /\ m >= Interval
      BY <2>1, <2>2, <2>3, <2>5 DEF m
    <3> QED
      BY <2>1, <2>4, <2>5, <3>1 DEF Oldest
  <2>6. CASE Interval <= s /\ s < m
    <3>1. j = k /\ ~ (s < Interval) /\ ~ (s >= m)
      BY <2>1, <2>2, <2>3, <2>6
    <3> QED
      BY <2>4, <3>1 DEF k
  <2>7. CASE s >= m
    <3>1. j = Size \/ j = Size - 1
      BY <2>1, <2>2, <2>3, <2>7
    <3>2. Stored - j + 1 \in {Oldest, Oldest + 1}
      BY <2>1, <3>1 DEF Oldest
    <3>3. ~ (s < m) /\ ~ (s < Interval)
      <4>1. m >= Interval
        BY DEF m
      <4> QED
        BY <2>1, <2>7, <4>1
    <3> QED
      BY <2>4, <3>2, <3>3
  <2> QED
    BY <2>1, <2>5, <2>6, <2>7
<1> QED
  BY <1>1, RingHolds, PTL

(* The last price and the history agree although they have a lock each.    *)
THEOREM HistoryFollowsPrice == Spec => []HistoryHoldsWhatWasSeen
<1>1. RingInv => HistoryHoldsWhatWasSeen
  <2> SUFFICES ASSUME RingInv, Size > 1 PROVE seen <= PreviousPrice(Interval)
    BY DEF HistoryHoldsWhatWasSeen
  <2>1. Stored \in Nat /\ seen \in Nat /\ seen <= Stored
    BY StoredIsNat DEF RingInv, TypeOK, SeenStored
  <2>2. Interval \div Interval = 1
    OBVIOUS
  <2>3. Steps(Interval) = 1
    BY <2>2 DEF Steps
  <2>4. PreviousPrice(Interval) = UpdateNumber(Stored - 1 + 1)
    BY <2>3, PreviousPriceFound DEF RingInv
  <2> QED
    BY <2>1, <2>4 DEF UpdateNumber
<1> QED
  BY <1>1, RingHolds, PTL
=============================================================================
