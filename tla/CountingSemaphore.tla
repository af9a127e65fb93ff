-------------------------- MODULE CountingSemaphore --------------------------
(***************************************************************************)
(* What the semaphores of threading.h promise: a number of permits that    *)
(* Signal adds to and a wait takes one of, in one indivisible step of the  *)
(* call.  A wait blocks until there is a permit; a timed wait and TryWait  *)
(* may fail instead.  Semaphore of threading.h implements it.              *)
(***************************************************************************)
EXTENDS Integers

CONSTANTS
  Threads,
  Operations,  (* the waits in use: among "wait", "timed" and "try"         *)
  Amounts,     (* the counts that Signal is called with                     *)
  MaxCount,    (* BOUND: permits at any time                                *)
  Spurious     (* TryWait may fail because other threads are using the      *)
               (* semaphore, and not only because no permit is left         *)

VARIABLES
  count,       (* permits                                                   *)
  call         (* what each thread is doing                                 *)

vars == <<count, call>>

Init ==
  /\ count = 0
  /\ call = [t \in Threads |-> "idle"]

Become(t, from, to) ==
  /\ call[t] = from
  /\ call' = [call EXCEPT ![t] = to]

Call(t, op) ==
  /\ Become(t, "idle", op)
  /\ UNCHANGED count

Signal(t, n) ==
  /\ count + n <= MaxCount
  /\ count' = count + n
  /\ Become(t, "idle", "done")

(* A waiting thread takes a permit ...                                     *)
Take(t, op) ==
  /\ count > 0
  /\ count' = count - 1
  /\ Become(t, op, "done")

(* ... or fails, if its operation can, when there is none.                 *)
Fail(t, op) ==
  /\ op # "wait"
  /\ count = 0 \/ (op = "try" /\ Spurious)
  /\ Become(t, op, "failed")
  /\ UNCHANGED count

Return(t) ==
  /\ Become(t, "done", "idle") \/ Become(t, "failed", "idle")
  /\ UNCHANGED count

Next ==
  \E t \in Threads :
    \/ \E n \in Amounts : Signal(t, n)
    \/ \E op \in Operations : Call(t, op) \/ Take(t, op) \/ Fail(t, op)
    \/ Return(t)

Spec == Init /\ [][Next]_vars

=============================================================================
