------------------------- MODULE RecursiveBenaphore -------------------------
(***************************************************************************)
(* RecursiveBenaphore of threading.h: a Benaphore whose holder may lock it *)
(* again.  Every nested Lock is counted in contention as well; owner tells *)
(* the holder from the others, and recursion is how often it has locked.   *)
(*                                                                         *)
(* owner is read by threads that do not hold the lock, and recursion by    *)
(* an Unlock that has already given its count back: both are only safe     *)
(* because of what else holds at that moment.  One action per atomic       *)
(* operation, and per read of the two that another thread can overtake.    *)
(***************************************************************************)
EXTENDS Integers, FiniteSets

CONSTANTS
  Threads, NoThread,
  MaxDepth        (* BOUND: how deep a thread nests its locks               *)

RecursiveAssumption ==
  /\ IsFiniteSet(Threads) /\ NoThread \notin Threads
  /\ MaxDepth \in Nat \ {0}

VARIABLES
  owner, contention, recursion,
  semaphore,      (* permits of the semaphore                               *)
  pc,
  depth           (* how many locks each thread knows it holds              *)

vars == <<owner, contention, recursion, semaphore, pc, depth>>

Init ==
  /\ owner = NoThread /\ contention = 0 /\ recursion = 0 /\ semaphore = 0
  /\ pc = [t \in Threads |-> "idle"]
  /\ depth = [t \in Threads |-> 0]

Goto(t, from, to) ==
  /\ pc[t] = from
  /\ pc' = [pc EXCEPT ![t] = to]

Call(t, op) ==
  /\ op \in {"lock", "try"}
  /\ depth[t] < MaxDepth
  /\ Goto(t, "idle", op)
  /\ UNCHANGED <<owner, contention, recursion, semaphore, depth>>

(* Lock: enter if nobody was counted, or if it was this thread itself.     *)
LockAdd(t) ==
  /\ Goto(t, "lock", IF contention > 0 THEN "check_owner" ELSE "enter")
  /\ contention' = contention + 1
  /\ UNCHANGED <<owner, recursion, semaphore, depth>>

(* Mutated: everybody is taken for the owner. *)
CheckOwnerDropped(t) ==
  /\ Goto(t, "check_owner", "enter")
  /\ UNCHANGED <<owner, contention, recursion, semaphore, depth>>

CheckOwner(t) ==
  /\ Goto(t, "check_owner", IF owner = t THEN "enter" ELSE "waiting")
  /\ UNCHANGED <<owner, contention, recursion, semaphore, depth>>

SemaphoreWait(t) ==
  /\ semaphore > 0
  /\ semaphore' = semaphore - 1
  /\ Goto(t, "waiting", "enter")
  /\ UNCHANGED <<owner, contention, recursion, depth>>

(* "We are now inside the lock." *)
Enter(t) ==
  /\ Goto(t, "enter", "idle")
  /\ owner' = t
  /\ recursion' = recursion + 1
  /\ depth' = [depth EXCEPT ![t] = @ + 1]
  /\ UNCHANGED <<contention, semaphore>>

(* TryLock: again if this thread has the lock already ...                  *)
TryOwner(t) ==
  /\ Goto(t, "try", IF owner = t THEN "try_add" ELSE "try_load")
  /\ UNCHANGED <<owner, contention, recursion, semaphore, depth>>

TryAdd(t) ==
  /\ Goto(t, "try_add", "idle")
  /\ contention' = contention + 1
  /\ recursion' = recursion + 1
  /\ depth' = [depth EXCEPT ![t] = @ + 1]
  /\ UNCHANGED <<owner, semaphore>>

(* ... or else only if nobody is counted.                                  *)
TryLoad(t) ==
  /\ Goto(t, "try_load", IF contention # 0 THEN "idle" ELSE "try_exchange")
  /\ UNCHANGED <<owner, contention, recursion, semaphore, depth>>

TryExchange(t) ==
  /\ \/ /\ contention = 0
        /\ contention' = 1
        /\ Goto(t, "try_exchange", "enter")
     \/ /\ contention # 0
        /\ Goto(t, "try_exchange", "idle")
        /\ UNCHANGED contention
  /\ UNCHANGED <<owner, recursion, semaphore, depth>>

(* Unlock, by a thread that has the lock: the last one gives up ownership, *)
(* then its count, and then wakes a waiter if one was counted.             *)
Unlock(t) ==
  /\ depth[t] > 0
  /\ Goto(t, "idle", "unlock_sub")
  /\ recursion' = recursion - 1
  /\ owner' = IF recursion = 1 THEN NoThread ELSE owner
  /\ depth' = [depth EXCEPT ![t] = @ - 1]
  /\ UNCHANGED <<contention, semaphore>>

(* Mutated: a signal only when two others are counted. *)
UnlockSubLate(t) ==
  /\ Goto(t, "unlock_sub", IF contention > 2 THEN "check_recursion" ELSE "idle")
  /\ contention' = contention - 1
  /\ UNCHANGED <<owner, recursion, semaphore, depth>>

UnlockSub(t) ==
  /\ Goto(t, "unlock_sub", IF contention > 1 THEN "check_recursion" ELSE "idle")
  /\ contention' = contention - 1
  /\ UNCHANGED <<owner, recursion, semaphore, depth>>

(* Mutated: a signal while the lock is still held. *)
CheckRecursionDropped(t) ==
  /\ Goto(t, "check_recursion", "signal")
  /\ UNCHANGED <<owner, contention, recursion, semaphore, depth>>

CheckRecursion(t) ==
  /\ Goto(t, "check_recursion", IF recursion = 0 THEN "signal" ELSE "idle")
  /\ UNCHANGED <<owner, contention, recursion, semaphore, depth>>

SemaphoreSignal(t) ==
  /\ Goto(t, "signal", "idle")
  /\ semaphore' = semaphore + 1
  /\ UNCHANGED <<owner, contention, recursion, depth>>

InCall(t) ==
  \/ LockAdd(t) \/ CheckOwner(t) \/ SemaphoreWait(t) \/ Enter(t)
  \/ TryOwner(t) \/ TryAdd(t) \/ TryLoad(t) \/ TryExchange(t)
  \/ UnlockSub(t) \/ CheckRecursion(t) \/ SemaphoreSignal(t)

Next ==
  \E t \in Threads :
    \/ \E op \in {"lock", "try"} : Call(t, op)
    \/ Unlock(t)
    \/ InCall(t)

Spec == Init /\ [][Next]_vars

(* A thread inside a call is scheduled; nobody is obliged to make one.     *)
Fairness == \A t \in Threads : WF_vars(InCall(t))
FairSpec == Spec /\ Fairness

---------------------------------------------------------------------------
(* Types of the variables.                                                 *)
TypeOK ==
  /\ owner \in Threads \cup {NoThread}
  /\ contention \in Nat /\ recursion \in Nat /\ semaphore \in Nat
  /\ pc \in [Threads -> {"idle", "lock", "check_owner", "waiting", "enter",
                         "try", "try_add", "try_load", "try_exchange",
                         "unlock_sub", "check_recursion", "signal"}]
  /\ depth \in [Threads -> 0..MaxDepth]

(* A thread that holds a lock is the owner and its nested locks are all    *)
(* counted: so no other thread holds one, the assertion in Unlock          *)
(* (threading.h:362) cannot fail, and a thread that is not the owner never *)
(* takes itself for it.                                                    *)
OwnerHolds ==
  \A t \in Threads :
    /\ depth[t] > 0 => owner = t /\ recursion = depth[t]
    /\ owner = t => depth[t] > 0
    /\ owner = NoThread => recursion = 0

(* Threads that are past the entrance, with the lock or on their way out   *)
(* with the duty to wake a waiter.                                         *)
HasBaton(t) ==
  \/ depth[t] > 0
  \/ pc[t] \in {"enter", "unlock_sub", "check_recursion", "signal"}

(* One thread at most has the baton, the semaphore holds it only when no   *)
(* thread does, and when nobody has it nobody is counted.  In particular   *)
(* recursion, read after the count was given back, still is what this      *)
(* thread left: nobody can have entered in between.                        *)
OneBaton ==
  /\ Cardinality({t \in Threads : HasBaton(t)}) + semaphore
       = IF contention > 0 THEN 1 ELSE 0
  /\ contention = recursion
       + Cardinality({t \in Threads : pc[t] \in {"check_owner", "waiting", "enter", "unlock_sub"}})

(* The lock does what its holders rely on: only the thread that holds it   *)
(* takes itself for the owner, and its permit is neither lost nor doubled. *)
RecursiveOneBaton == TypeOK /\ OwnerHolds /\ OneBaton

(* The lock does not stay free while a thread waits for it. *)
Waiting == {t \in Threads : pc[t] = "waiting"}

HandOver == (Waiting # {} /\ owner = NoThread) ~> (owner # NoThread)

(* The lock is taken when the baton is, and given back with the count. *)
Held(t) == depth[t] + (IF pc[t] \in {"enter", "unlock_sub"} THEN 1 ELSE 0)
Holders == {t \in Threads : Held(t) > 0}

CallSeen(t) ==
  CASE pc[t] \in {"lock", "check_owner", "waiting"}             -> "lock"
    [] pc[t] \in {"try", "try_add", "try_load", "try_exchange"} -> "try"
    [] pc[t] \in {"idle", "enter", "unlock_sub"}                -> "idle"
    [] pc[t] \in {"check_recursion", "signal"}                  -> "unlocked"

Holder    == IF Holders = {} THEN NoThread ELSE CHOOSE t \in Holders : TRUE
HeldDepth == IF Holders = {} THEN 0 ELSE Held(Holder)
Calls     == [t \in Threads |-> CallSeen(t)]

Lock == INSTANCE ReentrantLock WITH owner <- Holder, depth <- HeldDepth, call <- Calls

(* A RecursiveBenaphore is a lock that its holder may take again; TryLock  *)
(* succeeds for the holder, and fails for another thread only when         *)
(* somebody has the lock or is waiting to be given it.                     *)
ImplementsLock == Lock!Spec

=============================================================================
