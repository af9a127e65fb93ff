---------------------------- MODULE ReentrantLock ----------------------------
(***************************************************************************)
(* What a mutex promises to the threads that use it, in one indivisible    *)
(* step of each call: at most one thread holds the lock, the holder may    *)
(* take it again and has to release it as many times, and a failed TryLock *)
(* means that another thread had it or was about to get it.                *)
(* RecursiveBenaphore of threading.h implements it.                        *)
(***************************************************************************)
EXTENDS Integers

CONSTANTS Threads, NoThread, MaxDepth

VARIABLES
  owner,   (* the thread that holds the lock                                *)
  depth,   (* how many times it does                                        *)
  call     (* what each thread is doing                                     *)

vars == <<owner, depth, call>>

Init ==
  /\ owner = NoThread
  /\ depth = 0
  /\ call = [t \in Threads |-> "idle"]

Become(t, from, to) ==
  /\ call[t] = from
  /\ call' = [call EXCEPT ![t] = to]

Call(t, op) ==
  /\ owner = t => depth < MaxDepth
  /\ Become(t, "idle", op)
  /\ UNCHANGED <<owner, depth>>

(* Lock waits for this moment, TryLock succeeds at it. *)
Acquire(t, op) ==
  /\ owner \in {NoThread, t}
  /\ owner' = t
  /\ depth' = depth + 1
  /\ Become(t, op, "idle")

Fail(t) ==
  /\ owner # t
  /\ owner # NoThread \/ \E u \in Threads : call[u] = "lock"
  /\ Become(t, "try", "idle")
  /\ UNCHANGED <<owner, depth>>

(* Unlock gives the lock back, and may still be busy waking a waiter. *)
Release(t, to) ==
  /\ owner = t
  /\ depth' = depth - 1
  /\ owner' = IF depth = 1 THEN NoThread ELSE t
  /\ Become(t, "idle", to)

Return(t) ==
  /\ Become(t, "unlocked", "idle")
  /\ UNCHANGED <<owner, depth>>

Next ==
  \E t \in Threads :
    \/ \E op \in {"lock", "try"} : Call(t, op) \/ Acquire(t, op)
    \/ Fail(t)
    \/ Release(t, "idle") \/ Release(t, "unlocked")
    \/ Return(t)

Spec == Init /\ [][Next]_vars

=============================================================================
