------------------------------ MODULE RingIndex ------------------------------
(***************************************************************************)
(* The index word of a SyncRingBuffer (datatypes.h): the number of slots   *)
(* in use and the index one past the newest, packed in one integer.  What  *)
(* each operation makes of it, and which slot it gets.  Push works on any  *)
(* word: nothing is ever refused for lack of room.                         *)
(***************************************************************************)
EXTENDS Integers

CONSTANT Capacity      (* slots, a power of two *)

CapacityAssumption ==
  Capacity \in Nat \ {0} /\ \E k \in 0..Capacity : Capacity = 2^k

Indices == 0..Capacity-1
Words   == [count : 0..Capacity, onePastHeadIndex : Indices]

(* The word of a new buffer. *)
NothingIn == [count |-> 0, onePastHeadIndex |-> 0]

AtMost(n, max) == IF n < max THEN n ELSE max

(* PushEmpty: the count stops at the capacity, and the oldest item is      *)
(* then the one that gets overwritten.                                     *)
Pushed(w) ==
  [count |-> AtMost(w.count + 1, Capacity),
   onePastHeadIndex |-> (w.onePastHeadIndex + 1) % Capacity]

(* PushEmptyRangeAdjacent: a range that does not fit before the end of the *)
(* buffer goes to its beginning, and the rest of the end is wasted.        *)
Fits(w, n) == Capacity - w.onePastHeadIndex >= n

RangePushed(w, n) ==
  IF Fits(w, n)
  THEN [count |-> AtMost(w.count + n, Capacity),
        onePastHeadIndex |-> (w.onePastHeadIndex + n) % Capacity]
  ELSE [count |-> AtMost(w.count + Capacity - w.onePastHeadIndex + n, Capacity),
        onePastHeadIndex |-> n]

RangeSlot(w, n) == IF Fits(w, n) THEN w.onePastHeadIndex ELSE 0

(* TryPop takes the oldest slot, TryPopHead the newest. *)
TailPopped(w) == [w EXCEPT !.count = IF @ > 0 THEN @ - 1 ELSE @]

(* Mutated: the newest instead of the oldest. *)
TailSlotNewest(w) == (w.onePastHeadIndex - 1) % Capacity

TailSlot(w)   == (w.onePastHeadIndex - w.count) % Capacity

HeadPopped(w) ==
  IF w.count > 0
  THEN [count |-> w.count - 1, onePastHeadIndex |-> (w.onePastHeadIndex - 1) % Capacity]
  ELSE w

(* Empty() as it is written: it compares the count the wrong way round. *)
EmptyAnswers(w) == w.count > 0

=============================================================================
