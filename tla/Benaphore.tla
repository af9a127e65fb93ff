------------------------------ MODULE Benaphore ------------------------------
(***************************************************************************)
(* Benaphore of threading.h: a mutex made of an atomic count of the        *)
(* threads that have the lock or want it, and a semaphore on which all but *)
(* the first of them wait.  Unlock passes the lock on through the          *)
(* semaphore when somebody else is counted.                                *)
(*                                                                         *)
(* The semaphore is a counting semaphore: what Semaphore and               *)
(* PreshingSemaphore are shown to be.  One action per atomic operation.    *)
(***************************************************************************)
EXTENDS Integers, ThreadCounts

CONSTANTS Threads, NoThread

BenaphoreAssumption == IsFiniteSet(Threads) /\ NoThread \notin Threads

VARIABLES
  contention,   (* threads that have the lock or wait for it                *)
  semaphore,    (* permits of the semaphore                                 *)
  pc

vars == <<contention, semaphore, pc>>

Init ==
  /\ contention = 0
  /\ semaphore = 0
  /\ pc = [t \in Threads |-> "idle"]

Goto(t, from, to) ==
  /\ pc[t] = from
  /\ pc' = [pc EXCEPT ![t] = to]

(* A thread that does not have the lock calls Lock or TryLock. *)
Call(t, op) ==
  /\ op \in {"lock", "try"}
  /\ Goto(t, "idle", op)
  /\ UNCHANGED <<contention, semaphore>>

(* Lock: enter if nobody was counted, or else wait. *)
LockAdd(t) ==
  /\ Goto(t, "lock", IF contention > 0 THEN "waiting" ELSE "inside")
  /\ contention' = contention + 1
  /\ UNCHANGED semaphore

SemaphoreWait(t) ==
  /\ semaphore > 0
  /\ semaphore' = semaphore - 1
  /\ Goto(t, "waiting", "inside")
  /\ UNCHANGED contention

(* TryLock: only if nobody is counted, now and at the exchange. *)
TryLoad(t) ==
  /\ Goto(t, "try", IF contention # 0 THEN "idle" ELSE "try_exchange")
  /\ UNCHANGED <<contention, semaphore>>

TryExchange(t) ==
  \/ /\ contention = 0
     /\ contention' = 1
     /\ Goto(t, "try_exchange", "inside")
     /\ UNCHANGED semaphore
  \/ /\ contention # 0
     /\ Goto(t, "try_exchange", "idle")
     /\ UNCHANGED <<contention, semaphore>>

(* Mutated: a signal even when nobody waits. *)
UnlockSubAlways(t) ==
  /\ Goto(t, "inside", IF contention >= 1 THEN "signal" ELSE "idle")
  /\ contention' = contention - 1
  /\ UNCHANGED semaphore

(* Unlock: if others were counted, one of them waits for a signal. *)
UnlockSub(t) ==
  /\ Goto(t, "inside", IF contention > 1 THEN "signal" ELSE "idle")
  /\ contention' = contention - 1
  /\ UNCHANGED semaphore

SemaphoreSignal(t) ==
  /\ Goto(t, "signal", "idle")
  /\ semaphore' = semaphore + 1
  /\ UNCHANGED contention

Next ==
  \E t \in Threads :
    \/ \E op \in {"lock", "try"} : Call(t, op)
    \/ LockAdd(t) \/ SemaphoreWait(t)
    \/ TryLoad(t) \/ TryExchange(t)
    \/ UnlockSub(t) \/ SemaphoreSignal(t)

Spec == Init /\ [][Next]_vars

(* A thread inside a call is scheduled, and the semaphore gives its permit *)
(* to some waiter.  Nobody is obliged to call Lock, or ever to Unlock.     *)
Fairness ==
  /\ \A t \in Threads : WF_vars(SemaphoreSignal(t)) /\ WF_vars(SemaphoreWait(t))

FairSpec == Spec /\ Fairness

---------------------------------------------------------------------------
(* Types of the variables.                                                 *)
TypeOK ==
  /\ contention \in Nat
  /\ semaphore \in Nat
  /\ pc \in [Threads -> {"idle", "lock", "try", "try_exchange", "waiting",
                         "inside", "signal"}]

Inside     == {t \in Threads : pc[t] = "inside"}
Waiting    == {t \in Threads : pc[t] = "waiting"}
Signalling == {t \in Threads : pc[t] = "signal"}

(* A thread that returned from Lock, or from a successful TryLock, is the  *)
(* only one: two threads never work on what the mutex guards at once.      *)
MutualExclusion == \A t, u \in Inside : t = u

(* There is one baton.  When anybody has the lock or wants it, exactly one *)
(* thread has it, or it lies in the semaphore, or an Unlock is about to    *)
(* put it there; otherwise there is none, so no permit is left for a       *)
(* thread to enter by mistake, and none is missing for a waiter.           *)
OneBaton ==
  /\ contention = Cardinality(Inside) + Cardinality(Waiting)
  /\ Cardinality(Inside) + semaphore + Cardinality(Signalling)
       = IF contention > 0 THEN 1 ELSE 0

(* Two threads are never inside at once, and the one permit that lets them *)
(* in is neither lost nor doubled.                                         *)
BenaphoreOneBaton == TypeOK /\ MutualExclusion /\ OneBaton

(* The lock does not stay free while a thread waits for it. *)
HandOver == (Waiting # {} /\ Inside = {}) ~> (Inside # {})

CallSeen(t) ==
  CASE pc[t] \in {"lock", "waiting"}     -> "lock"
    [] pc[t] \in {"try", "try_exchange"} -> "try"
    [] pc[t] \in {"idle", "inside"}      -> "idle"
    [] pc[t] = "signal"                  -> "unlocked"

Holder == IF Inside = {} THEN NoThread ELSE CHOOSE t \in Inside : TRUE
Calls  == [t \in Threads |-> CallSeen(t)]

Lock == INSTANCE ReentrantLock
          WITH MaxDepth <- 1, owner <- Holder, depth <- Cardinality(Inside), call <- Calls

(* A Benaphore is a lock, and its TryLock fails only when another thread   *)
(* has the lock or is waiting to be given it.                              *)
ImplementsLock == Lock!Spec

(***************************************************************************)
(* Proofs, for every finite set of threads: two threads are never inside,  *)
(* and there is one permit to enter while anybody wants to.  TypeOK and    *)
(* OneBaton are inductive together, and say that one thread at most is     *)
(* inside.                                                                 *)
(***************************************************************************)

IInv == TypeOK /\ OneBaton

\* The sets that OneBaton counts are finite, and only the thread that takes a step
\* may leave or join them.
LEMMA Finite ==
  ASSUME BenaphoreAssumption
  PROVE  IsFiniteSet(Inside) /\ IsFiniteSet(Waiting) /\ IsFiniteSet(Signalling)
<1>1. Inside \in SUBSET Threads /\ Waiting \in SUBSET Threads /\ Signalling \in SUBSET Threads
  BY DEF Inside, Waiting, Signalling
<1>. QED
  BY <1>1, FS_Subset DEF BenaphoreAssumption

LEMMA Counts ==
  ASSUME BenaphoreAssumption, TypeOK, NEW t \in Threads, NEW from, NEW to, Goto(t, from, to)
  PROVE  /\ Cardinality(Inside) \in Nat /\ Cardinality(Waiting) \in Nat
         /\ Cardinality(Signalling) \in Nat
         /\ Cardinality(Inside') = Cardinality(Inside)
              + (IF to = "inside" THEN 1 ELSE 0) - (IF from = "inside" THEN 1 ELSE 0)
         /\ Cardinality(Waiting') = Cardinality(Waiting)
              + (IF to = "waiting" THEN 1 ELSE 0) - (IF from = "waiting" THEN 1 ELSE 0)
         /\ Cardinality(Signalling') = Cardinality(Signalling)
              + (IF to = "signal" THEN 1 ELSE 0) - (IF from = "signal" THEN 1 ELSE 0)
<1>1. /\ pc[t] = from /\ pc'[t] = to
      /\ \A u \in Threads: u # t => pc'[u] = pc[u]
  BY DEF Goto, TypeOK
<1>2. /\ \A u: u # t => (u \in Inside <=> u \in Inside')
      /\ t \in Inside <=> from = "inside"
      /\ t \in Inside' <=> to = "inside"
  BY <1>1 DEF Inside
<1>3. /\ \A u: u # t => (u \in Waiting <=> u \in Waiting')
      /\ t \in Waiting <=> from = "waiting"
      /\ t \in Waiting' <=> to = "waiting"
  BY <1>1 DEF Waiting
<1>4. /\ \A u: u # t => (u \in Signalling <=> u \in Signalling')
      /\ t \in Signalling <=> from = "signal"
      /\ t \in Signalling' <=> to = "signal"
  BY <1>1 DEF Signalling
<1>5. /\ Cardinality(Inside) \in Nat
      /\ Cardinality(Inside') = Cardinality(Inside)
              + (IF to = "inside" THEN 1 ELSE 0) - (IF from = "inside" THEN 1 ELSE 0)
  BY <1>2, Finite, CountMoves
<1>6. /\ Cardinality(Waiting) \in Nat
      /\ Cardinality(Waiting') = Cardinality(Waiting)
              + (IF to = "waiting" THEN 1 ELSE 0) - (IF from = "waiting" THEN 1 ELSE 0)
  BY <1>3, Finite, CountMoves
<1>7. /\ Cardinality(Signalling) \in Nat
      /\ Cardinality(Signalling') = Cardinality(Signalling)
              + (IF to = "signal" THEN 1 ELSE 0) - (IF from = "signal" THEN 1 ELSE 0)
  BY <1>4, Finite, CountMoves
<1>. QED
  BY <1>5, <1>6, <1>7

LEMMA InitIInv ==
  ASSUME BenaphoreAssumption, Init
  PROVE  IInv
<1>1. TypeOK
  BY DEF Init, TypeOK
<1>2. Inside = {} /\ Waiting = {} /\ Signalling = {}
  BY DEF Init, Inside, Waiting, Signalling
<1>3. OneBaton
  BY <1>2, FS_EmptySet DEF Init, OneBaton
<1>. QED
  BY <1>1, <1>3 DEF IInv

LEMMA NextIInv ==
  ASSUME BenaphoreAssumption, IInv, [Next]_vars
  PROVE  IInv'
<1>. USE DEF IInv
<1>1. ASSUME NEW t \in Threads, NEW op \in {"lock", "try"}, Call(t, op)
      PROVE  IInv'
  <2>1. Goto(t, "idle", op) /\ op # "inside" /\ op # "waiting" /\ op # "signal"
    BY <1>1 DEF Call
  <2>2. TypeOK'
    BY <1>1 DEF Call, Goto, TypeOK
  <2>. QED
    BY <1>1, <2>1, <2>2, Counts DEF Call, OneBaton
<1>2. ASSUME NEW t \in Threads, LockAdd(t)
      PROVE  IInv'
  <2>1. TypeOK'
    BY <1>2 DEF LockAdd, Goto, TypeOK
  <2>2. CASE contention > 0
    <3>1. Goto(t, "lock", "waiting")
      BY <1>2, <2>2 DEF LockAdd
    <3>. QED
      BY <1>2, <2>1, <2>2, <3>1, Counts DEF LockAdd, OneBaton, TypeOK
  <2>3. CASE ~ contention > 0
    <3>1. Goto(t, "lock", "inside")
      BY <1>2, <2>3 DEF LockAdd
    <3>2. /\ contention' = contention + 1 /\ semaphore' = semaphore
          /\ Cardinality(Inside) \in Nat /\ Cardinality(Waiting) \in Nat
          /\ Cardinality(Inside') = Cardinality(Inside) + 1
          /\ Cardinality(Waiting') = Cardinality(Waiting)
          /\ Cardinality(Signalling') = Cardinality(Signalling) /\ Cardinality(Signalling) \in Nat
      BY <1>2, <3>1, Counts DEF LockAdd
    <3>3. contention = 0 /\ contention' = 1
      BY <2>3, <3>2 DEF TypeOK
    <3>4. contention' = Cardinality(Inside') + Cardinality(Waiting')
      BY <3>2 DEF OneBaton, TypeOK
    <3>5. Cardinality(Inside') + semaphore' + Cardinality(Signalling') = 1
      BY <3>2, <3>3 DEF OneBaton, TypeOK
    <3>. QED
      BY <2>1, <3>3, <3>4, <3>5 DEF OneBaton
  <2>. QED
    BY <2>2, <2>3
<1>3. ASSUME NEW t \in Threads, SemaphoreWait(t)
      PROVE  IInv'
  <2>1. TypeOK'
    BY <1>3 DEF SemaphoreWait, Goto, TypeOK
  <2>. QED
    BY <1>3, <2>1, Counts DEF SemaphoreWait, OneBaton, TypeOK
<1>4. ASSUME NEW t \in Threads, TryLoad(t)
      PROVE  IInv'
  <2>1. TypeOK'
    BY <1>4 DEF TryLoad, Goto, TypeOK
  <2>2. PICK to \in {"idle", "try_exchange"}: Goto(t, "try", to)
    BY <1>4 DEF TryLoad
  <2>. QED
    BY <1>4, <2>1, <2>2, Counts DEF TryLoad, OneBaton
<1>5. ASSUME NEW t \in Threads, TryExchange(t)
      PROVE  IInv'
  <2>1. TypeOK'
    BY <1>5 DEF TryExchange, Goto, TypeOK
  <2>2. CASE contention = 0
    <3>1. Goto(t, "try_exchange", "inside") /\ contention' = 1 /\ semaphore' = semaphore
      BY <1>5, <2>2 DEF TryExchange
    <3>2. /\ contention' = 1 /\ semaphore' = semaphore
          /\ Cardinality(Inside) \in Nat /\ Cardinality(Waiting) \in Nat
          /\ Cardinality(Inside') = Cardinality(Inside) + 1
          /\ Cardinality(Waiting') = Cardinality(Waiting)
          /\ Cardinality(Signalling') = Cardinality(Signalling) /\ Cardinality(Signalling) \in Nat
      BY <3>1, Counts
    <3>3. contention' = Cardinality(Inside') + Cardinality(Waiting')
      BY <2>2, <3>2 DEF OneBaton, TypeOK
    <3>4. Cardinality(Inside') + semaphore' + Cardinality(Signalling') = 1
      BY <2>2, <3>2 DEF OneBaton, TypeOK
    <3>. QED
      BY <2>1, <3>2, <3>3, <3>4 DEF OneBaton
  <2>3. CASE contention # 0
    <3>1. Goto(t, "try_exchange", "idle") /\ contention' = contention /\ semaphore' = semaphore
      BY <1>5, <2>3 DEF TryExchange
    <3>. QED
      BY <2>1, <3>1, Counts DEF OneBaton
  <2>. QED
    BY <2>2, <2>3
<1>6. ASSUME NEW t \in Threads, UnlockSub(t)
      PROVE  IInv'
  <2>1. PICK to \in {"signal", "idle"}:
          Goto(t, "inside", to) /\ to = IF contention > 1 THEN "signal" ELSE "idle"
    BY <1>6 DEF UnlockSub
  <2>2. Cardinality(Inside') \in Nat /\ Cardinality(Inside) >= 1
    <3>1. t \in Inside
      BY <2>1 DEF Goto, Inside
    <3>2. Cardinality(Inside) \in Nat /\ Cardinality(Inside) # 0
      BY <3>1, Finite, CountMembers
    <3>. QED
      BY <3>2, <2>1, Counts
  <2>3. contention >= 1
    BY <2>1, <2>2, Counts DEF OneBaton, TypeOK
  <2>4. TypeOK'
    BY <1>6, <2>1, <2>3 DEF UnlockSub, Goto, TypeOK
  <2>5. /\ contention' = contention - 1 /\ semaphore' = semaphore
        /\ Cardinality(Inside') = Cardinality(Inside) - 1
        /\ Cardinality(Waiting') = Cardinality(Waiting)
        /\ Cardinality(Signalling') = Cardinality(Signalling) + (IF contention > 1 THEN 1 ELSE 0)
        /\ Cardinality(Inside) \in Nat /\ Cardinality(Waiting) \in Nat
        /\ Cardinality(Signalling) \in Nat
    BY <1>6, <2>1, Counts DEF UnlockSub
  <2>6. contention' = Cardinality(Inside') + Cardinality(Waiting')
    BY <2>5 DEF OneBaton, TypeOK
  <2>7. Cardinality(Inside) + semaphore + Cardinality(Signalling) = 1
    BY <2>3 DEF OneBaton
  <2>8. Cardinality(Inside') + semaphore' + Cardinality(Signalling')
          = IF contention > 1 THEN 1 ELSE 0
    BY <2>2, <2>5, <2>7 DEF TypeOK
  <2>9. Cardinality(Inside') + semaphore' + Cardinality(Signalling')
          = IF contention' > 0 THEN 1 ELSE 0
    BY <2>3, <2>5, <2>8 DEF TypeOK
  <2>. QED
    BY <2>4, <2>6, <2>9 DEF OneBaton
<1>7. ASSUME NEW t \in Threads, SemaphoreSignal(t)
      PROVE  IInv'
  <2>1. TypeOK'
    BY <1>7 DEF SemaphoreSignal, Goto, TypeOK
  <2>. QED
    BY <1>7, <2>1, Counts DEF SemaphoreSignal, OneBaton, TypeOK
<1>8. CASE UNCHANGED vars
  BY <1>8 DEF vars, TypeOK, OneBaton, Inside, Waiting, Signalling
<1>. QED
  BY <1>1, <1>2, <1>3, <1>4, <1>5, <1>6, <1>7, <1>8 DEF Next

\* Two threads are never inside a Benaphore at once, and its one permit is neither
\* lost nor doubled, however many threads lock, try and unlock it.
THEOREM BenaphoreCorrect ==
  ASSUME BenaphoreAssumption
  PROVE  Spec => []BenaphoreOneBaton
<1>1. Init => IInv
  BY InitIInv
<1>2. IInv /\ [Next]_vars => IInv'
  BY NextIInv
<1>3. IInv => BenaphoreOneBaton
  <2>1. IInv => Cardinality(Inside) <= 1
    <3>1. Cardinality(Inside) \in Nat /\ Cardinality(Signalling) \in Nat
      BY Finite, CountMembers
    <3>. QED
      BY <3>1 DEF IInv, OneBaton, TypeOK
  <2>. QED
    BY <2>1, Finite, CountMembers DEF IInv, BenaphoreOneBaton, MutualExclusion
<1>. QED
  BY <1>1, <1>2, <1>3, PTL DEF Spec

---------------------------------------------------------------------------
\* Refinement: who holds the lock, as ReentrantLock sees it.
LEMMA HolderIs ==
  ASSUME BenaphoreAssumption, TypeOK, MutualExclusion
  PROVE  /\ Inside = {} => Holder = NoThread /\ Cardinality(Inside) = 0
         /\ \A t \in Inside: Holder = t /\ Cardinality(Inside) = 1
         /\ \A t \in Threads: pc[t] # "inside" => Holder # t
<1>1. ASSUME Inside = {}
      PROVE  Holder = NoThread /\ Cardinality(Inside) = 0
  BY <1>1, FS_EmptySet DEF Holder
<1>2. ASSUME NEW t \in Inside
      PROVE  Holder = t /\ Cardinality(Inside) = 1
  <2>1. Inside = {t}
    BY <1>2 DEF MutualExclusion
  <2>. QED
    BY <2>1, FS_Singleton DEF Holder
<1>3. ASSUME NEW t \in Threads, pc[t] # "inside"
      PROVE  Holder # t
  <2>1. t \notin Inside
    BY <1>3 DEF Inside
  <2>2. CASE Inside = {}
    BY <1>1, <2>2 DEF BenaphoreAssumption
  <2>3. CASE Inside # {}
    BY <1>2, <2>1, <2>3
  <2>. QED
    BY <2>2, <2>3
<1>. QED
  BY <1>1, <1>2, <1>3

\* What a step of one thread makes of the calls that are seen.
LEMMA CallsChange ==
  ASSUME TypeOK, NEW t \in Threads, NEW from, NEW to, Goto(t, from, to)
  PROVE  /\ Calls[t] = CallSeen(t) /\ Calls'[t] = CallSeen(t)'
         /\ Calls' = [Calls EXCEPT ![t] = CallSeen(t)']
         /\ CallSeen(t)' = CallSeen(t) => Calls' = Calls
<1>1. \A u \in Threads: u # t => CallSeen(u)' = CallSeen(u)
  BY DEF Goto, TypeOK, CallSeen
<1>. QED
  BY <1>1 DEF Calls

\* A step inside a call that others do not see.
LEMMA UnseenStep ==
  ASSUME TypeOK, NEW t \in Threads, NEW from, NEW to, Goto(t, from, to),
         from # "inside", to # "inside", CallSeen(t)' = CallSeen(t)
  PROVE  UNCHANGED Lock!vars
<1>1. Inside' = Inside
  BY DEF Inside, Goto, TypeOK
<1>2. Calls' = Calls
  BY CallsChange
<1>. QED
  BY <1>1, <1>2 DEF Lock!vars, Holder

\* A thread gets the lock when nobody has it.
LEMMA AcquireStep ==
  ASSUME BenaphoreAssumption, TypeOK, MutualExclusion, MutualExclusion',
         NEW t \in Threads, NEW op \in {"lock", "try"}, NEW from, Goto(t, from, "inside"),
         CallSeen(t) = op, Inside = {}, TypeOK'
  PROVE  Lock!Next
<1>1. pc'[t] = "inside" /\ t \in Inside'
  BY DEF Goto, TypeOK, Inside
<1>2. \A u, v \in Inside': u = v
  BY DEF MutualExclusion
<1>3. Inside' = {t}
  BY <1>1, <1>2
<1>4. Holder' = t /\ Cardinality(Inside') = 1
  BY <1>3, FS_Singleton DEF Holder
<1>5. Holder = NoThread /\ Cardinality(Inside) = 0
  BY HolderIs
<1>6. CallSeen(t)' = "idle"
  BY <1>1 DEF CallSeen
<1>7. Calls[t] = op /\ Calls' = [Calls EXCEPT ![t] = "idle"]
  BY <1>6, CallsChange
<1>8. Lock!Acquire(t, op)
  BY <1>4, <1>5, <1>7 DEF Lock!Acquire, Lock!Become
<1>. QED
  BY <1>8 DEF Lock!Next

\* TryLock fails: somebody else has the lock or waits for it.
LEMMA FailStep ==
  ASSUME BenaphoreAssumption, IInv, MutualExclusion, NEW t \in Threads,
         NEW from \in {"try", "try_exchange"}, Goto(t, from, "idle"), contention # 0
  PROVE  Lock!Next
<1>1. pc[t] = from /\ pc'[t] = "idle"
  BY DEF Goto, IInv, TypeOK
<1>2. Inside' = Inside
  BY <1>1 DEF Inside, Goto, IInv, TypeOK
<1>3. Holder' = Holder /\ Holder # t
  BY <1>1, <1>2, HolderIs DEF Holder, IInv
<1>4. CallSeen(t) = "try" /\ CallSeen(t)' = "idle"
  BY <1>1 DEF CallSeen
<1>5. Calls[t] = "try" /\ Calls' = [Calls EXCEPT ![t] = "idle"]
  BY <1>4, CallsChange DEF IInv
<1>6. Holder # NoThread \/ \E u \in Threads: Calls[u] = "lock"
  <2>1. CASE Inside # {}
    <3>1. PICK u \in Inside: TRUE
      BY <2>1
    <3>2. Holder = u /\ u \in Threads
      BY <3>1, HolderIs DEF IInv, Inside
    <3>. QED
      BY <3>2 DEF BenaphoreAssumption
  <2>2. CASE Inside = {}
    <3>1. Cardinality(Inside) = 0
      BY <2>2, FS_EmptySet
    <3>2. Cardinality(Waiting) # 0
      BY <3>1 DEF IInv, OneBaton
    <3>3. PICK u \in Threads: pc[u] = "waiting"
      BY <3>2, FS_EmptySet DEF Waiting
    <3>4. Calls[u] = "lock"
      BY <3>3 DEF Calls, CallSeen
    <3>. QED
      BY <3>4
  <2>. QED
    BY <2>1, <2>2
<1>7. Lock!Fail(t)
  BY <1>2, <1>3, <1>5, <1>6 DEF Lock!Fail, Lock!Become
<1>. QED
  BY <1>7 DEF Lock!Next

\* When nobody is counted, or the permit is free, nobody is inside.
LEMMA NobodyInside ==
  ASSUME BenaphoreAssumption, IInv, contention = 0 \/ semaphore > 0
  PROVE  Inside = {}
<1>1. Cardinality(Inside) \in Nat /\ Cardinality(Waiting) \in Nat /\ Cardinality(Signalling) \in Nat
  BY Finite, CountMembers
<1>2. Cardinality(Inside) = 0
  BY <1>1 DEF IInv, OneBaton, TypeOK
<1>. QED
  BY <1>2, Finite, CountMembers

LEMMA ReleaseStep ==
  ASSUME BenaphoreAssumption, IInv, MutualExclusion, NEW t \in Threads,
         NEW to \in {"idle", "signal"}, Goto(t, "inside", to)
  PROVE  Lock!Next
<1>1. pc[t] = "inside" /\ pc'[t] = to /\ t \in Inside
  BY DEF Goto, IInv, TypeOK, Inside
<1>2. Holder = t /\ Cardinality(Inside) = 1
  BY <1>1, HolderIs DEF IInv
<1>3. Inside' = {}
  BY <1>1 DEF Inside, Goto, IInv, TypeOK, MutualExclusion
<1>4. Holder' = NoThread /\ Cardinality(Inside') = 0
  BY <1>3, FS_EmptySet DEF Holder
<1>. DEFINE seen == IF to = "idle" THEN "idle" ELSE "unlocked"
<1>5. CallSeen(t) = "idle" /\ CallSeen(t)' = seen
  BY <1>1 DEF CallSeen
<1>6. Calls[t] = "idle" /\ Calls' = [Calls EXCEPT ![t] = seen]
  BY <1>5, CallsChange DEF IInv
<1>7. Lock!Release(t, seen)
  BY <1>2, <1>4, <1>6 DEF Lock!Release, Lock!Become
<1>. QED
  BY <1>7 DEF Lock!Next

LEMMA NextRefines ==
  ASSUME BenaphoreAssumption, IInv, MutualExclusion, IInv', MutualExclusion', [Next]_vars
  PROVE  [Lock!Next]_(Lock!vars)
<1>. USE DEF IInv
<1>1. CASE UNCHANGED vars
  BY <1>1 DEF vars, Lock!vars, Holder, Calls, CallSeen, Inside
<1>2. ASSUME NEW t \in Threads, NEW op \in {"lock", "try"}, Call(t, op)
      PROVE  Lock!Next
  <2>1. Goto(t, "idle", op) /\ pc[t] = "idle" /\ pc'[t] = op
    BY <1>2 DEF Call, Goto, TypeOK
  <2>2. Inside' = Inside
    BY <2>1 DEF Inside, Goto, TypeOK
  <2>3. Holder' = Holder /\ Holder # t
    BY <2>1, <2>2, HolderIs DEF Holder
  <2>4. CallSeen(t) = "idle" /\ CallSeen(t)' = op
    BY <2>1 DEF CallSeen
  <2>5. Calls[t] = "idle" /\ Calls' = [Calls EXCEPT ![t] = op]
    BY <2>1, <2>4, CallsChange
  <2>6. Lock!Call(t, op)
    BY <2>2, <2>3, <2>5 DEF Lock!Call, Lock!Become
  <2>. QED
    BY <2>6 DEF Lock!Next
<1>3. ASSUME NEW t \in Threads, LockAdd(t)
      PROVE  [Lock!Next]_(Lock!vars)
  <2>1. CASE contention > 0
    <3>1. Goto(t, "lock", "waiting") /\ pc[t] = "lock" /\ pc'[t] = "waiting"
      BY <1>3, <2>1 DEF LockAdd, Goto, TypeOK
    <3>2. CallSeen(t)' = CallSeen(t)
      BY <3>1 DEF CallSeen
    <3>. QED
      BY <3>1, <3>2, UnseenStep
  <2>2. CASE ~ contention > 0
    <3>1. Goto(t, "lock", "inside") /\ pc[t] = "lock" /\ contention = 0
      BY <1>3, <2>2 DEF LockAdd, Goto, TypeOK
    <3>2. CallSeen(t) = "lock"
      BY <3>1 DEF CallSeen
    <3>. QED
      BY <3>1, <3>2, NobodyInside, AcquireStep
  <2>. QED
    BY <2>1, <2>2
<1>4. ASSUME NEW t \in Threads, SemaphoreWait(t)
      PROVE  Lock!Next
  <2>1. Goto(t, "waiting", "inside") /\ pc[t] = "waiting" /\ semaphore > 0
    BY <1>4 DEF SemaphoreWait, Goto
  <2>2. CallSeen(t) = "lock"
    BY <2>1 DEF CallSeen
  <2>. QED
    BY <2>1, <2>2, NobodyInside, AcquireStep
<1>5. ASSUME NEW t \in Threads, TryLoad(t)
      PROVE  [Lock!Next]_(Lock!vars)
  <2>1. CASE contention # 0
    BY <1>5, <2>1, FailStep DEF TryLoad
  <2>2. CASE contention = 0
    <3>1. Goto(t, "try", "try_exchange") /\ pc[t] = "try" /\ pc'[t] = "try_exchange"
      BY <1>5, <2>2 DEF TryLoad, Goto, TypeOK
    <3>2. CallSeen(t)' = CallSeen(t)
      BY <3>1 DEF CallSeen
    <3>. QED
      BY <3>1, <3>2, UnseenStep
  <2>. QED
    BY <2>1, <2>2
<1>6. ASSUME NEW t \in Threads, TryExchange(t)
      PROVE  Lock!Next
  <2>1. CASE contention # 0
    BY <1>6, <2>1, FailStep DEF TryExchange
  <2>2. CASE contention = 0
    <3>1. Goto(t, "try_exchange", "inside") /\ pc[t] = "try_exchange"
      BY <1>6, <2>2 DEF TryExchange, Goto
    <3>2. CallSeen(t) = "try"
      BY <3>1 DEF CallSeen
    <3>. QED
      BY <2>2, <3>1, <3>2, NobodyInside, AcquireStep
  <2>. QED
    BY <2>1, <2>2
<1>7. ASSUME NEW t \in Threads, UnlockSub(t)
      PROVE  Lock!Next
  BY <1>7, ReleaseStep DEF UnlockSub
<1>8. ASSUME NEW t \in Threads, SemaphoreSignal(t)
      PROVE  Lock!Next
  <2>1. Goto(t, "signal", "idle") /\ pc[t] = "signal" /\ pc'[t] = "idle"
    BY <1>8 DEF SemaphoreSignal, Goto, TypeOK
  <2>2. Inside' = Inside
    BY <2>1 DEF Inside, Goto, TypeOK
  <2>3. CallSeen(t) = "unlocked" /\ CallSeen(t)' = "idle"
    BY <2>1 DEF CallSeen
  <2>4. Calls[t] = "unlocked" /\ Calls' = [Calls EXCEPT ![t] = "idle"]
    BY <2>1, <2>3, CallsChange
  <2>5. Lock!Return(t)
    BY <2>2, <2>4 DEF Lock!Return, Lock!Become, Holder
  <2>. QED
    BY <2>5 DEF Lock!Next
<1>. QED
  BY <1>1, <1>2, <1>3, <1>4, <1>5, <1>6, <1>7, <1>8 DEF Next

\* A Benaphore is a lock: what its threads see of it is a behaviour of ReentrantLock,
\* whose steps are indivisible; in particular a TryLock fails only at a moment when
\* another thread has the lock or waits for it.
THEOREM BenaphoreIsLock ==
  ASSUME BenaphoreAssumption
  PROVE  Spec => ImplementsLock
<1>1. Init => Lock!Init
  <2>. SUFFICES ASSUME Init PROVE Lock!Init
    OBVIOUS
  <2>1. Inside = {}
    BY DEF Init, Inside
  <2>2. Holder = NoThread /\ Cardinality(Inside) = 0
    BY <2>1, FS_EmptySet DEF Holder
  <2>3. Calls = [t \in Threads |-> "idle"]
    BY DEF Init, Calls, CallSeen
  <2>. QED
    BY <2>2, <2>3 DEF Lock!Init
<1>2. IInv /\ MutualExclusion /\ IInv' /\ MutualExclusion' /\ [Next]_vars
        => [Lock!Next]_(Lock!vars)
  BY NextRefines
<1>3. Spec => []IInv
  <2>1. Init => IInv
    BY InitIInv
  <2>2. IInv /\ [Next]_vars => IInv'
    BY NextIInv
  <2>. QED
    BY <2>1, <2>2, PTL DEF Spec
<1>4. BenaphoreOneBaton => MutualExclusion
  BY DEF BenaphoreOneBaton
<1>. QED
  BY <1>1, <1>2, <1>3, <1>4, BenaphoreCorrect, PTL DEF Spec, ImplementsLock, Lock!Spec

=============================================================================
