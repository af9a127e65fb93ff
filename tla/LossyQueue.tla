------------------------------ MODULE LossyQueue ------------------------------
(***************************************************************************)
(* What the indexes of a SyncRingBuffer promise: the slots of the buffer   *)
(* are handed out in a circle; those that hold items form a queue, oldest  *)
(* first, that forgets its oldest slots when more are claimed than it has  *)
(* room for; a pop takes the slot at one of its ends.  Every operation     *)
(* gets its slot in one indivisible step.                                  *)
(***************************************************************************)
EXTENDS Integers, SequencesExt

CONSTANTS Threads, Capacity, NoSlot

VARIABLES
  queue,    (* the slots in use, oldest first                               *)
  next,     (* the slot to hand out next                                    *)
  taken     (* the slot each thread was last given                          *)

vars == <<queue, next, taken>>

Init ==
  /\ queue = <<>>
  /\ next = 0
  /\ taken = [t \in Threads |-> NoSlot]

Slots(from, n) == [i \in 1..n |-> (from + i - 1) % Capacity]

Newest(q) == IF Len(q) > Capacity THEN SubSeq(q, Len(q) - Capacity + 1, Len(q)) ELSE q

(* Claim n slots in a row that do not go round the end of the buffer: the  *)
(* slots before the end that are too few are skipped.                      *)
Skipped(n) == IF next + n > Capacity THEN Capacity - next ELSE 0

Claim(t, n) ==
  LET skipped == Skipped(n) IN
  /\ queue' = Newest(queue \o Slots(next, skipped + n))
  /\ next' = (next + skipped + n) % Capacity
  /\ taken' = [taken EXCEPT ![t] = (next + skipped) % Capacity]

PopOldest(t) ==
  /\ queue # <<>>
  /\ queue' = Tail(queue)
  /\ taken' = [taken EXCEPT ![t] = Head(queue)]
  /\ UNCHANGED next

PopNewest(t) ==
  /\ queue # <<>>
  /\ queue' = Front(queue)
  /\ next' = Last(queue)
  /\ taken' = [taken EXCEPT ![t] = Last(queue)]

PopNothing(t) ==
  /\ queue = <<>>
  /\ taken' = [taken EXCEPT ![t] = NoSlot]
  /\ UNCHANGED <<queue, next>>

Next ==
  \E t \in Threads :
    \/ \E n \in 1..Capacity : Claim(t, n)
    \/ PopOldest(t) \/ PopNewest(t) \/ PopNothing(t)

Spec == Init /\ [][Next]_vars

=============================================================================
