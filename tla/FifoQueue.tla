------------------------------ MODULE FifoQueue ------------------------------
(***************************************************************************)
(* What a thread-safe FIFO queue promises to the threads that call it.     *)
(*                                                                         *)
(* A call is invoked, takes effect in one indivisible step between its     *)
(* invocation and its return, and returns what that step computed.  This   *)
(* is the specification "Thread safe queue." of datatypes.h:2468 stands    *)
(* for; SyncQueue, with its pages, its mutex and its unlocked look at the  *)
(* count, is shown to implement it.                                        *)
(***************************************************************************)
EXTENDS Sequences, SequencesExt

CONSTANTS
  Threads,   (* the threads that call the queue                             *)
  Items,     (* the values that can be queued                               *)
  NoItem     (* what a failed TryPop returns                                *)

VARIABLES
  queue,     (* the queued items, oldest first                              *)
  call       (* what each thread is doing: an operation, or its result      *)

vars == <<queue, call>>

Idle == [op |-> "idle"]

(* A call that has been invoked, and one whose effect has happened. *)
Calling(op, item) == [op |-> op, item |-> item]
Done(result)      == [op |-> "done", result |-> result]

Init ==
  /\ queue = <<>>
  /\ call  = [t \in Threads |-> Idle]

InvokePush(t, x) ==
  /\ call[t] = Idle
  /\ call' = [call EXCEPT ![t] = Calling("push", x)]
  /\ UNCHANGED queue

InvokePop(t) ==
  /\ call[t] = Idle
  /\ call' = [call EXCEPT ![t] = Calling("pop", NoItem)]
  /\ UNCHANGED queue

InvokeFind(t, x) ==
  /\ call[t] = Idle
  /\ call' = [call EXCEPT ![t] = Calling("find", x)]
  /\ UNCHANGED queue

(* The instant a push takes effect: the item becomes the newest one. *)
Enqueue(t) ==
  /\ call[t].op = "push"
  /\ queue' = Append(queue, call[t].item)
  /\ call'  = [call EXCEPT ![t] = Done(TRUE)]

(* The instant a pop takes effect: it takes the oldest item ... *)
Dequeue(t) ==
  /\ call[t].op = "pop"
  /\ queue # <<>>
  /\ queue' = Tail(queue)
  /\ call'  = [call EXCEPT ![t] = Done(Head(queue))]

(* ... and fails only when there is none. *)
DequeueNothing(t) ==
  /\ call[t].op = "pop"
  /\ queue = <<>>
  /\ call' = [call EXCEPT ![t] = Done(NoItem)]
  /\ UNCHANGED queue

(* A search tells whether the item is queued, and changes nothing. *)
Search(t) ==
  /\ call[t].op = "find"
  /\ call' = [call EXCEPT ![t] = Done(call[t].item \in ToSet(queue))]
  /\ UNCHANGED queue

Return(t) ==
  /\ call[t].op = "done"
  /\ call' = [call EXCEPT ![t] = Idle]
  /\ UNCHANGED queue

Next ==
  \E t \in Threads :
    \/ \E x \in Items : InvokePush(t, x) \/ InvokeFind(t, x)
    \/ InvokePop(t)
    \/ Enqueue(t) \/ Dequeue(t) \/ DequeueNothing(t) \/ Search(t)
    \/ Return(t)

Spec == Init /\ [][Next]_vars

=============================================================================
