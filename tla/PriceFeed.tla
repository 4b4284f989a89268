------------------------------ MODULE PriceFeed ------------------------------
(***************************************************************************)
(* src/code/Global.cpp: the thread that publishes the market price, the    *)
(* circular buffer of past prices, and the functions that read them.       *)
(*                                                                         *)
(* A price is represented by the number of the update that published it,   *)
(* 1 for the first; 0 is the 0.0 the variables are initialised with.       *)
(*                                                                         *)
(* The writer nests two locks: it takes srdMutex, writes the last price,   *)
(* takes bufferMutex, writes the buffer, and releases both.  While it is   *)
(* "storing" it holds the first and not yet the second.                    *)
(***************************************************************************)
EXTENDS Integers

CONSTANTS
  Size,        \* MAX_VALUES_PER_DAY, the slots of the buffer (5760)
  Interval,    \* seconds between two updates (15)
  Delays,      \* the values of secondsBack readers ask for
  MaxUpdates   \* bound: how many prices are published

ASSUME FeedAssumption ==
  /\ Size \in Nat \ {0}
  /\ Interval \in Nat \ {0}
  /\ Delays \subseteq Int
  /\ MaxUpdates \in Nat

VARIABLES
  last,           \* lastSRDBTCValue
  buffer,         \* ActiveSRDBTC
  activeIndex,    \* the slot of the next write
  worker,         \* control point of priceGenerationWorker
  stopRequested,
  server,         \* the server thread: initial, started, joining, stopped
  seen            \* auxiliary: the newest price a reader was ever given

vars == <<last, buffer, activeIndex, worker, stopRequested, server, seen>>
prices == <<last, buffer, activeIndex>>

TypeOK ==
  /\ last \in 0 .. MaxUpdates
  /\ buffer \in [0 .. Size - 1 -> 0 .. MaxUpdates]
  /\ activeIndex \in 0 .. Size - 1
  /\ worker \in {"off", "testing", "fetching", "storing", "sleeping", "exited", "joined"}
  /\ stopRequested \in BOOLEAN
  /\ server \in {"initial", "started", "joining", "stopped"}
  /\ seen \in 0 .. MaxUpdates

Init ==
  /\ last = 0
  /\ buffer = [i \in 0 .. Size - 1 |-> 0]
  /\ activeIndex = 0
  /\ worker = "off"
  /\ stopRequested = FALSE
  /\ server = "initial"
  /\ seen = 0

-----------------------------------------------------------------------------
(* The server thread, in StartServer and StopServer.                       *)

Start ==
  /\ server = "initial"
  /\ server' = "started"
  /\ stopRequested' = FALSE
  /\ worker' = "testing"
  /\ UNCHANGED <<prices, seen>>

(* stopPriceGenerationThread: a thread that was never started is not       *)
(* joinable.                                                               *)
Stop ==
  /\ server \in {"initial", "started"}
  /\ stopRequested' = TRUE
  /\ server' = IF worker = "off" THEN "stopped" ELSE "joining"
  /\ UNCHANGED <<prices, worker, seen>>

Join ==
  /\ server = "joining"
  /\ worker = "exited"
  /\ worker' = "joined"
  /\ server' = "stopped"
  /\ UNCHANGED <<prices, stopRequested, seen>>

-----------------------------------------------------------------------------
(* generate_SRD_BTC_loop_impl: the loop of the worker.                     *)

LoopTest ==
  /\ worker = "testing"
  /\ worker' = IF stopRequested THEN "exited" ELSE "fetching"
  /\ UNCHANGED <<prices, stopRequested, server, seen>>

(* The request fails, times out or brings no usable price: the price       *)
(* stays what it was.                                                      *)
FetchFails ==
  /\ worker = "fetching"
  /\ worker' = "sleeping"
  /\ UNCHANGED <<prices, stopRequested, server, seen>>

(* A price: the last value is written under srdMutex, which stays held ... *)
Publish ==
  /\ worker = "fetching"
  /\ last < MaxUpdates
  /\ last' = last + 1
  /\ worker' = "storing"
  /\ UNCHANGED <<buffer, activeIndex, stopRequested, server, seen>>

(* Mutant: the index runs over the end of the buffer before it wraps.      *)
NextTooFar(i) == (i + 1) % (Size + 1)

(* Mutant: a buffer of Size slots of which the last is never used.         *)
NextTooSoon(i) == IF i + 1 >= Size - 1 THEN 0 ELSE i + 1

NextIndex(i) == (i + 1) % Size

(* ... while the slot and the index are written under bufferMutex.         *)
Store ==
  /\ worker = "storing"
  /\ buffer' = [buffer EXCEPT ![activeIndex] = last]
  /\ activeIndex' = NextIndex(activeIndex)
  /\ worker' = "sleeping"
  /\ UNCHANGED <<last, stopRequested, server, seen>>

WakeUp ==
  /\ worker = "sleeping"
  /\ worker' = "testing"
  /\ UNCHANGED <<prices, stopRequested, server, seen>>

-----------------------------------------------------------------------------
(* The readers, on any thread.                                             *)

(* Mutant: the two locks of the writer are not nested.                     *)
LocksApart == TRUE

SrdFree == worker # "storing"

Newest(a, b) == IF a < b THEN b ELSE a

(* getPrice waits for srdMutex.                                            *)
GetPrice ==
  /\ SrdFree
  /\ seen' = Newest(seen, last)
  /\ UNCHANGED <<prices, worker, stopRequested, server>>

(* The % of C++, whose sign is that of the dividend.                       *)
Remainder(a, b) == IF a >= 0 THEN a % b ELSE - ((- a) % b)

(* stepsBack for a delay of s seconds.                                     *)
Steps(s) ==
  LET k == s \div Interval
  IN  IF k >= Size THEN Size - 1 ELSE k

(* Mutant: negative indices are not wrapped around.                        *)
SlotUnsigned(k) ==
  LET r == Remainder(activeIndex - k, Size)
  IN  IF r < 0 THEN - r ELSE r

(* The slot k steps back.                                                  *)
Slot(k) ==
  LET r == Remainder(activeIndex - k, Size)
  IN  IF r < 0 THEN r + Size ELSE r

(* What getPreviousPrice returns for a delay of s seconds, s > 0.          *)
PreviousPrice(s) == buffer[Slot(Steps(s))]

(* getPreviousPrice needs bufferMutex only, which the writer has not taken *)
(* while it is "storing"; for s <= 0 it is getPrice.                       *)
GetPreviousPrice ==
  /\ \E s \in Delays :
       IF s <= 0 THEN SrdFree /\ seen' = Newest(seen, last)
                 ELSE seen' = Newest(seen, PreviousPrice(s))
  /\ UNCHANGED <<prices, worker, stopRequested, server>>

Work == LoopTest \/ FetchFails \/ Publish \/ Store \/ WakeUp

Next == Start \/ Stop \/ Join \/ Work \/ GetPrice \/ GetPreviousPrice

Spec == Init /\ [][Next]_vars

-----------------------------------------------------------------------------
(* How many prices have been stored in the buffer.                         *)
Stored == IF worker = "storing" THEN last - 1 ELSE last

UpdateNumber(n) == IF n > 0 THEN n ELSE 0

(* The update whose price is the oldest of a full buffer.                  *)
Oldest == Stored - Size + 1

(* The buffer is the recent past, whatever the number of times the index   *)
(* has gone round: the slot i places before the next write holds the price *)
(* published i - 1 updates before the last, and 0 stands before the first. *)
RingIsRecentPast ==
  \A i \in 1 .. Size :
    buffer[(activeIndex + Size - i) % Size] = UpdateNumber(Stored - i + 1)

(* What getPreviousPrice answers to a delay: with k whole intervals the    *)
(* price k - 1 updates before the last stored one, as long as the buffer   *)
(* goes back so far; then one of the two oldest it holds (which one, see   *)
(* TooLongGivesTheOldest).  A delay under one interval gives the oldest,   *)
(* not the newest.                                                         *)
PreviousPriceIsPast ==
  \A s \in Delays :
    /\ 0 < s /\ s < Interval => PreviousPrice(s) = UpdateNumber(Oldest)
    /\ Interval <= s /\ s < Size * Interval =>
         PreviousPrice(s) = UpdateNumber(Stored - (s \div Interval) + 1)
    /\ s >= Size * Interval =>
         PreviousPrice(s) \in {UpdateNumber(Oldest), UpdateNumber(Oldest + 1)}

(* The last price and the history agree although they have a lock each: a  *)
(* reader that goes back one interval is never given an older price than   *)
(* any reader was given before, by either function.                        *)
HistoryHoldsWhatWasSeen == Size > 1 => seen <= PreviousPrice(Interval)
-----------------------------------------------------------------------------
(* What comments of the code say and the code does not do.                 *)

(* A delay the buffer does not go back to is answered with the oldest      *)
(* price stored (getPreviousPrice).                                        *)
TooLongGivesTheOldest ==
  Stored >= Size =>
    \A s \in Delays : s >= Size * Interval => PreviousPrice(s) = Oldest
=============================================================================
