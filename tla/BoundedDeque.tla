----------------------------- MODULE BoundedDeque -----------------------------
(***************************************************************************)
(* What a ring buffer promises: a queue of bounded length, oldest item     *)
(* first, that forgets the oldest one to make room, can be shortened at    *)
(* both ends and be looked through from the oldest to the newest, and back *)
(* unless it is full.                                                      *)
(***************************************************************************)
EXTENDS Integers, Sequences

CONSTANTS Values, Capacity

VARIABLES
  queue,
  io        (* the items the last operation took or gave                    *)

vars == <<queue, io>>

Init == queue = <<>> /\ io = <<>>

Newest(q) == IF Len(q) > Capacity THEN Tail(q) ELSE q

Push(x)    == io' = <<x>> /\ queue' = Newest(Append(queue, x))
PopOldest  == Len(io') = 1 /\ queue = io' \o queue'
PopNewest  == Len(io') = 1 /\ queue = queue' \o io'
PopNothing == queue = <<>> /\ io' = <<>> /\ UNCHANGED queue
Clear      == io' = <<>> /\ queue' = <<>>
Look(i)    == io' = <<queue[i]>> /\ UNCHANGED queue

Backward == [i \in DOMAIN queue |-> queue[Len(queue) + 1 - i]]

(* From the oldest to the newest, or back; but when the queue is as long   *)
(* as it can be, the way back may be no more than the newest.              *)
GoThrough ==
  /\ UNCHANGED queue
  /\ \/ io' = queue \/ io' = Backward
     \/ Len(queue) = Capacity /\ io' = <<queue[Capacity]>>

(* An item that is there is found; one that is not may be found as well.   *)
ContainsItem(x) ==
  /\ io' \in {<<x, TRUE>>, <<x, FALSE>>} /\ UNCHANGED queue
  /\ (\E i \in DOMAIN queue : queue[i] = x) => io'[2]

Next ==
  \/ \E x \in Values : Push(x) \/ ContainsItem(x)
  \/ PopOldest \/ PopNewest \/ PopNothing \/ Clear \/ GoThrough
  \/ \E i \in DOMAIN queue : Look(i)

Spec == Init /\ [][Next]_vars

=============================================================================
