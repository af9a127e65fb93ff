------------------------------ MODULE RingBuffer ------------------------------
(***************************************************************************)
(* RingBuffer of datatypes.h: a circular buffer for one thread, with a     *)
(* count and the index one past the newest item.  Its index arithmetic is  *)
(* the one of SyncRingBuffer.                                              *)
(***************************************************************************)
EXTENDS RingIndex, Sequences

CONSTANTS
  Items, Zero,
  Junk           (* what the buffer holds before anything is stored         *)

VARIABLES
  ring,          (* count and onePastHeadIndex                              *)
  buffer,
  io             (* the items the last operation took or gave               *)

vars == <<ring, buffer, io>>

Init ==
  /\ ring = NothingIn
  /\ buffer = [i \in Indices |-> Junk]
  /\ io = <<>>

IndexFromHeadOffset(w, offset) == (w.onePastHeadIndex + offset - 1) % Capacity

TailIndex(w, offset) == IndexFromHeadOffset(w, -(w.count - 1 - offset))

---------------------------------------------------------------------------
(* Push and PushEmpty( true ). *)
Push(x) ==
  /\ buffer' = [buffer EXCEPT ![ring.onePastHeadIndex] = x]
  /\ ring' = Pushed(ring)
  /\ io' = <<x>>

(* Pop and TryPop. *)
TryPop ==
  /\ IF ring.count > 0
     THEN io' = <<buffer[TailIndex(ring, 0)]>> /\ ring' = TailPopped(ring)
     ELSE io' = <<>> /\ UNCHANGED ring
  /\ UNCHANGED buffer

(* PopHead and TryPopHead. *)
TryPopHead ==
  /\ ring' = HeadPopped(ring)
  /\ io' = IF ring.count > 0 THEN <<buffer[ring'.onePastHeadIndex]>> ELSE <<>>
  /\ UNCHANGED buffer

Clear == ring' = NothingIn /\ io' = <<>> /\ UNCHANGED buffer

ClearToZero == ring' = NothingIn /\ io' = <<>> /\ buffer' = [i \in Indices |-> Zero]

(* It looks at the whole buffer, items that are gone included. *)
ContainsItem(x) ==
  /\ io' = <<x, x \in {buffer[i] : i \in Indices}>>
  /\ UNCHANGED <<ring, buffer>>

Look(offset) ==
  /\ ring.count > offset
  /\ io' \in {<<buffer[IndexFromHeadOffset(ring, -offset)]>>, <<buffer[TailIndex(ring, offset)]>>}
  /\ UNCHANGED <<ring, buffer>>

(* Where the iterator goes from index i, if the loop goes on. *)
StepForward(w, i) ==
  LET next == (i + 1) % Capacity IN [index |-> next, ended |-> next = w.onePastHeadIndex]

StepBackward(w, i) ==
  LET next    == i - 1
      tail    == TailIndex(w, 0)
      wrapped == w.onePastHeadIndex < tail
  IN  [index |-> next % Capacity,
       ended |-> IF wrapped THEN next >= w.onePastHeadIndex /\ next < tail ELSE next < tail]

(* The indexes an iterator goes over, at most max of them. *)
Visited(w, forward, max) ==
  LET first == IF forward THEN TailIndex(w, 0) ELSE IndexFromHeadOffset(w, 0)
      Step(i) == IF forward THEN StepForward(w, i) ELSE StepBackward(w, i)
      seen[k \in 1..max] == IF k = 1 THEN first ELSE Step(seen[k - 1]).index
      Ended == {k \in 1..max-1 : Step(seen[k]).ended}
  IN  IF w.count = 0 THEN <<>>
      ELSE SubSeq(seen, 1, CHOOSE k \in Ended \cup {max} : \A l \in Ended : k <= l)

(* One index more than there are shows an iterator that does not stop.     *)
Iterate(forward) ==
  /\ LET seen == Visited(ring, forward, Capacity + 1)
     IN  io' = [k \in DOMAIN seen |-> buffer[seen[k]]]
  /\ UNCHANGED <<ring, buffer>>

Next ==
  \/ \E x \in Items \cup {Zero} : Push(x)
  \/ TryPop \/ TryPopHead \/ Clear \/ ClearToZero
  \/ \E x \in Items : ContainsItem(x)
  \/ \E offset \in 0..Capacity-1 : Look(offset)
  \/ \E forward \in BOOLEAN : Iterate(forward)

Spec == Init /\ [][Next]_vars

---------------------------------------------------------------------------
(* Types. *)
TypeOK ==
  /\ ring \in Words
  /\ buffer \in [Indices -> Items \cup {Zero, Junk}]

Queue == INSTANCE BoundedDeque
           WITH queue <- [i \in 1..ring.count |-> buffer[TailIndex(ring, i - 1)]],
                Values <- Items \cup {Zero, Junk}

(* "Head and tail will wrap around when needed and can never overlap"      *)
(* (datatypes.h:1969): whatever the order of pushes and pops, the buffer   *)
(* is a queue of the newest items.  Its backward iterator goes over all of *)
(* them only while it is not full; of a full one it may give the newest    *)
(* item and no other.                                                      *)
ImplementsDeque == Queue!Spec

(* "Can be iterated both from tail to head (oldest to newest) or the other *)
(* way around." (datatypes.h:1970)  Refuted: full, and the next slot not   *)
(* the first of the buffer, it is over after one item.                     *)
BackwardVisitsAll == Len(Visited(ring, FALSE, Capacity + 1)) = ring.count

=============================================================================
