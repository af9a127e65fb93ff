-------------------------- MODULE PreshingSemaphore --------------------------
(***************************************************************************)
(* PreshingSemaphore of threading.h: an atomic count in front of a         *)
(* semaphore of the operating system, which is only used to put to sleep   *)
(* the threads that find no permit after spinning, and to wake them.       *)
(*                                                                         *)
(* A negative count is the number of threads that sleep, or are about to,  *)
(* without a permit.  One action per atomic operation.                     *)
(***************************************************************************)
EXTENDS Integers, FiniteSets

CONSTANTS
  Threads,
  Amounts,     (* the counts that Signal is called with                     *)
  MaxCount     (* BOUND: permits at any time                                *)

PreshingAssumption ==
  /\ IsFiniteSet(Threads)
  /\ Amounts \subseteq Nat \ {0} /\ MaxCount \in Nat

VARIABLES
  signalCount,   (* the atomic count                                        *)
  semaphore,     (* the count of the operating system's semaphore           *)
  pc,
  oldCount,      (* what the thread last read from signalCount              *)
  toRelease      (* how many sleepers its Signal is about to wake           *)

vars == <<signalCount, semaphore, pc, oldCount, toRelease>>

Init ==
  /\ signalCount = 0 /\ semaphore = 0
  /\ pc = [t \in Threads |-> "idle"]
  /\ oldCount = [t \in Threads |-> 0]
  /\ toRelease = [t \in Threads |-> 0]

Goto(t, from, to) ==
  /\ pc[t] = from
  /\ pc' = [pc EXCEPT ![t] = to]

Call(t, op) ==
  /\ op \in {"wait", "try"}
  /\ Goto(t, "idle", op)
  /\ UNCHANGED <<signalCount, semaphore, oldCount, toRelease>>

(* TryWait, on its own, first thing in Wait, and again in every turn of    *)
(* the spin: load the count; if there is a permit, try to take it.         *)
Exchange == [try |-> "try_exchange", wait |-> "wait_exchange", spin |-> "spin_exchange"]
Missed   == [try |-> "failed", wait |-> "spin", spin |-> "spin",
             try_exchange |-> "failed", wait_exchange |-> "spin", spin_exchange |-> "spin"]

Load(t) ==
  /\ pc[t] \in DOMAIN Exchange
  /\ oldCount' = [oldCount EXCEPT ![t] = IF signalCount > 0 THEN signalCount ELSE 0]
  /\ Goto(t, pc[t], IF signalCount > 0 THEN Exchange[pc[t]] ELSE Missed[pc[t]])
  /\ UNCHANGED <<signalCount, semaphore, toRelease>>

CompareExchange(t) ==
  /\ pc[t] \in {"try_exchange", "wait_exchange", "spin_exchange"}
  /\ \/ /\ signalCount = oldCount[t]
        /\ signalCount' = signalCount - 1
        /\ Goto(t, pc[t], "done")
     \/ /\ signalCount # oldCount[t]
        /\ Goto(t, pc[t], Missed[pc[t]])
        /\ UNCHANGED signalCount
  /\ oldCount' = [oldCount EXCEPT ![t] = 0]
  /\ UNCHANGED <<semaphore, toRelease>>

(* Mutated: the first sleeper goes on without a permit. *)
FetchSubStrict(t) ==
  /\ Goto(t, "spin", IF signalCount < 0 THEN "asleep" ELSE "done")
  /\ signalCount' = signalCount - 1
  /\ UNCHANGED <<semaphore, oldCount, toRelease>>

(* The spin ends (after any number of turns): the thread takes a permit    *)
(* that it may not have, and sleeps if it did not have it.                 *)
FetchSub(t) ==
  /\ Goto(t, "spin", IF signalCount <= 0 THEN "asleep" ELSE "done")
  /\ signalCount' = signalCount - 1
  /\ UNCHANGED <<semaphore, oldCount, toRelease>>

SemaphoreWait(t) ==
  /\ semaphore > 0
  /\ semaphore' = semaphore - 1
  /\ Goto(t, "asleep", "done")
  /\ UNCHANGED <<signalCount, oldCount, toRelease>>

Asleep == {t \in Threads : pc[t] = "asleep"}

(* The permits there are: those in the count, and those that a signal has  *)
(* put aside for sleepers.                                                 *)
Permits == signalCount + Cardinality(Asleep)

(* Signal raises the count, and wakes a sleeper for each of the permits    *)
(* it adds to a negative count.                                            *)
FetchAdd(t, n) ==
  LET release == IF -signalCount < n THEN -signalCount ELSE n
  IN  /\ Permits + n <= MaxCount
      /\ signalCount' = signalCount + n
      /\ Goto(t, "idle", IF release > 0 THEN "release" ELSE "done")
      /\ toRelease' = [toRelease EXCEPT ![t] = IF release > 0 THEN release ELSE 0]
      /\ UNCHANGED <<semaphore, oldCount>>

SemaphoreSignal(t) ==
  /\ Goto(t, "release", "done")
  /\ semaphore' = semaphore + toRelease[t]
  /\ toRelease' = [toRelease EXCEPT ![t] = 0]
  /\ UNCHANGED <<signalCount, oldCount>>

Return(t) ==
  /\ Goto(t, "done", "idle") \/ Goto(t, "failed", "idle")
  /\ UNCHANGED <<signalCount, semaphore, oldCount, toRelease>>

Step(t) ==
  \/ Load(t) \/ CompareExchange(t) \/ FetchSub(t) \/ SemaphoreWait(t)
  \/ SemaphoreSignal(t) \/ Return(t)

Next ==
  \E t \in Threads :
    \/ \E op \in {"wait", "try"} : Call(t, op)
    \/ \E n \in Amounts : FetchAdd(t, n)
    \/ Step(t)

Spec == Init /\ [][Next]_vars

(* A thread inside a call is scheduled again and again.  Spinning ends by  *)
(* itself, and the operating system does not let a thread sleep on a       *)
(* semaphore whose count is positive.                                      *)
Fairness ==
  /\ \A t \in Threads : WF_vars(SemaphoreSignal(t)) /\ WF_vars(SemaphoreWait(t))

FairSpec == Spec /\ Fairness

---------------------------------------------------------------------------
(* Types of the variables.                                                 *)
TypeOK ==
  /\ signalCount \in Int /\ signalCount <= MaxCount
  /\ semaphore \in Nat
  /\ pc \in [Threads -> {"idle", "wait", "try", "try_exchange", "wait_exchange",
                         "spin", "spin_exchange", "asleep", "release", "done", "failed"}]
  /\ oldCount \in [Threads -> 0..MaxCount]
  /\ toRelease \in [Threads -> Nat]

(* A sleeper without a permit is counted below zero, and one that has been *)
(* given a permit finds it in the operating system's semaphore, now or     *)
(* when the signal that is under way gets there: so no sleeper is left     *)
(* behind, and none is woken for a permit that somebody else has.          *)
Releasing == {t \in Threads : pc[t] = "release"}
OnTheWay  == UNION {{t} \X (1..toRelease[t]) : t \in Releasing}

SleepersAccountedFor ==
  Cardinality(Asleep) = semaphore + Cardinality(OnTheWay)
                        + (IF signalCount < 0 THEN -signalCount ELSE 0)

PreshingSleepersAccountedFor == TypeOK /\ SleepersAccountedFor

CallSeen(t) ==
  CASE pc[t] \in {"wait", "wait_exchange", "spin", "spin_exchange", "asleep"} -> "wait"
    [] pc[t] \in {"try", "try_exchange"} -> "try"
    [] pc[t] = "release"                 -> "done"
    [] OTHER                             -> pc[t]

CountingSpec == INSTANCE CountingSemaphore
                  WITH Operations <- {"wait", "try"}, Spurious <- TRUE, count <- Permits,
                       call <- [t \in Threads |-> CallSeen(t)]

(* The two counts together are one counting semaphore.  TryWait is weaker  *)
(* than that of Semaphore: it fails, with permits to spare, when the count *)
(* changes between its load and its exchange.                              *)
ImplementsPermits == CountingSpec!Spec

(* A thread asleep while there are permits for it wakes up: either it gets *)
(* one or the permits run out.                                             *)
SleepersWake ==
  \A t \in Threads : (pc[t] = "asleep" /\ signalCount >= 0) ~> (pc[t] # "asleep" \/ signalCount < 0)

=============================================================================
