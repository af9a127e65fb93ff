------------------------------ MODULE Semaphore ------------------------------
(***************************************************************************)
(* Semaphore of threading.h: a count behind a std::mutex and a             *)
(* std::condition_variable.                                                *)
(*                                                                         *)
(* Every operation works on the count with the mutex held, and waiting on  *)
(* the condition releases it in the same step that puts the thread to      *)
(* sleep; so the stretch from taking the mutex to releasing it (or going   *)
(* to sleep) is one action.  Between two such stretches of a wait another  *)
(* thread can signal, take the permit, or time out.                        *)
(***************************************************************************)
EXTENDS Integers, ThreadCounts

CONSTANTS
  Threads,
  Amounts,     (* the counts that Signal is called with                     *)
  MaxCount     (* BOUND: permits at any time                                *)

SemaphoreAssumption ==
  /\ IsFiniteSet(Threads)
  /\ Amounts \subseteq Nat \ {0} /\ MaxCount \in Nat

VARIABLES
  count,       (* the permits                                               *)
  pc           (* where each thread is; "asleep" ones wait on the condition *)

vars == <<count, pc>>

Operations == {"wait", "timed", "try"}

Init ==
  /\ count = 0
  /\ pc = [t \in Threads |-> "idle"]

Goto(t, from, to) ==
  /\ pc[t] = from
  /\ pc' = [pc EXCEPT ![t] = to]

(* Wait(), Wait(millis) or TryWait() is called, and asks for the mutex.    *)
Call(t, op) ==
  /\ op \in Operations
  /\ Goto(t, "idle", op)
  /\ UNCHANGED count

Asleep == {t \in Threads : pc[t] \in {"asleep", "asleep_timed"}}

(* A sleeping thread that is woken asks for the mutex again. *)
Woken(t) == IF pc[t] = "asleep" THEN "wait" ELSE "timed"

(* Mutated: one notification, however many permits. *)
SignalNotifiesOne(t, n) ==
  /\ pc[t] = "idle"
  /\ count + n <= MaxCount
  /\ count' = count + n
  /\ \E woken \in SUBSET Asleep :
       /\ Cardinality(woken) = IF Asleep = {} THEN 0 ELSE 1
       /\ pc' = [u \in Threads |-> IF u = t THEN "done"
                                   ELSE IF u \in woken THEN Woken(u) ELSE pc[u]]

(* Signal raises the count, then notifies as many times: each notification *)
(* wakes one thread among those asleep, if there is any left.              *)
Signal(t, n) ==
  /\ pc[t] = "idle"
  /\ count + n <= MaxCount
  /\ count' = count + n
  /\ \E woken \in SUBSET Asleep :
       /\ Cardinality(woken) = IF n < Cardinality(Asleep) THEN n ELSE Cardinality(Asleep)
       /\ pc' = [u \in Threads |-> IF u = t THEN "done"
                                   ELSE IF u \in woken THEN Woken(u) ELSE pc[u]]

(* Mutated: the condition is not looked at again after a wake-up. *)
TakePermitUnchecked(t) ==
  /\ pc[t] \in {"wait", "timed", "last_look", "try"}
  /\ count' = count - 1
  /\ Goto(t, pc[t], "done")

(* A thread that has the mutex finds a permit ...                          *)
TakePermit(t) ==
  /\ pc[t] \in {"wait", "timed", "last_look", "try"}
  /\ count > 0
  /\ count' = count - 1
  /\ Goto(t, pc[t], "done")

(* ... or none: it goes to sleep, or gives up.                             *)
NoPermit(t) ==
  /\ ~ count > 0
  /\ \/ Goto(t, "wait", "asleep")
     \/ Goto(t, "timed", "asleep_timed")
     \/ Goto(t, "last_look", "failed")
     \/ Goto(t, "try", "failed")
  /\ UNCHANGED count

(* The condition variable may wake a thread that nobody notified, and the  *)
(* predicate sends it back.                                                *)
SpuriousWakeup(t) ==
  /\ Goto(t, "asleep", "wait") \/ Goto(t, "asleep_timed", "timed")
  /\ UNCHANGED count

(* wait_for gives up after the timeout, and looks at the count once more.  *)
Timeout(t) ==
  /\ Goto(t, "asleep_timed", "last_look")
  /\ UNCHANGED count

Return(t) ==
  /\ Goto(t, "done", "idle") \/ Goto(t, "failed", "idle")
  /\ UNCHANGED count

Next ==
  \E t \in Threads :
    \/ \E op \in Operations : Call(t, op)
    \/ \E n \in Amounts : Signal(t, n)
    \/ TakePermit(t) \/ NoPermit(t)
    \/ SpuriousWakeup(t) \/ Timeout(t)
    \/ Return(t)

Spec == Init /\ [][Next]_vars

---------------------------------------------------------------------------
(* Types of the variables; the count is never negative.                    *)
TypeOK ==
  /\ count \in 0..MaxCount
  /\ pc \in [Threads -> {"idle", "wait", "timed", "try", "asleep", "asleep_timed",
                         "last_look", "done", "failed"}]

(* No wake-up is lost: while a thread sleeps, every permit has a thread of *)
(* its own on its way to take it.  A notification that goes to a thread    *)
(* whose time runs out is not wasted, because of the last look.            *)
OnTheirWay == {t \in Threads : pc[t] \in {"wait", "timed", "last_look", "try"}}

NoLostWakeup == Asleep # {} => count <= Cardinality(OnTheirWay)

SemaphoreNoLostWakeup == TypeOK /\ NoLostWakeup

(* A thread that was asleep counts as waiting until it has a permit. *)
CallSeen(t) ==
  CASE pc[t] = "asleep"                        -> "wait"
    [] pc[t] \in {"asleep_timed", "last_look"} -> "timed"
    [] OTHER                                   -> pc[t]

Calls == [t \in Threads |-> CallSeen(t)]

Permits == INSTANCE CountingSemaphore WITH Spurious <- FALSE, call <- Calls

(* The count and its condition variable are a counting semaphore: no wait  *)
(* returns without a permit of its own, and a timed wait or a TryWait      *)
(* fails only at an instant when there is no permit.                       *)
ImplementsPermits == Permits!Spec

(***************************************************************************)
(* Proofs, for every finite set of threads, every amounts and every bound: *)
(* the count is never negative, and while a thread sleeps every permit has *)
(* another thread on its way to it.  The invariant is inductive as it      *)
(* stands; the proof is about how many threads a Signal wakes.             *)
(***************************************************************************)

Looking == {"wait", "timed", "last_look", "try"}

LEMMA Finite ==
  ASSUME SemaphoreAssumption
  PROVE  /\ IsFiniteSet(OnTheirWay) /\ Cardinality(OnTheirWay) \in Nat
         /\ IsFiniteSet(Asleep) /\ Cardinality(Asleep) \in Nat
<1>1. OnTheirWay \in SUBSET Threads /\ Asleep \in SUBSET Threads
  BY DEF OnTheirWay, Asleep
<1>. QED
  BY <1>1, FS_Subset, CountMembers DEF SemaphoreAssumption

\* A step of one thread: how it changes the number of those on their way.
LEMMA Counts ==
  ASSUME SemaphoreAssumption, TypeOK, NEW t \in Threads, NEW from, NEW to, Goto(t, from, to)
  PROVE  Cardinality(OnTheirWay') = Cardinality(OnTheirWay)
           + (IF to \in Looking THEN 1 ELSE 0) - (IF from \in Looking THEN 1 ELSE 0)
<1>1. /\ pc[t] = from /\ pc'[t] = to
      /\ \A u \in Threads: u # t => pc'[u] = pc[u]
  BY DEF Goto, TypeOK
<1>2. /\ \A u: u # t => (u \in OnTheirWay <=> u \in OnTheirWay')
      /\ t \in OnTheirWay <=> from \in Looking
      /\ t \in OnTheirWay' <=> to \in Looking
  BY <1>1 DEF OnTheirWay, Looking
<1>3. Cardinality(OnTheirWay) \in Nat
  BY Finite
<1>. QED
  BY <1>2, <1>3, Finite, CountMoves

LEMMA SignalStep ==
  ASSUME SemaphoreAssumption, TypeOK, NoLostWakeup, NEW t \in Threads, NEW n \in Amounts,
         Signal(t, n)
  PROVE  TypeOK' /\ NoLostWakeup'
<1>. DEFINE Wakes(W) ==
       /\ Cardinality(W) = IF n < Cardinality(Asleep) THEN n ELSE Cardinality(Asleep)
       /\ pc' = [u \in Threads |-> IF u = t THEN "done"
                                   ELSE IF u \in W THEN Woken(u) ELSE pc[u]]
<1>1. PICK woken \in SUBSET Asleep: Wakes(woken)
  BY DEF Signal
<1>2. /\ pc[t] = "idle" /\ count' = count + n /\ count + n <= MaxCount
      /\ count \in Nat /\ n \in Nat /\ MaxCount \in Nat
  BY DEF Signal, TypeOK, SemaphoreAssumption
<1>3. TypeOK'
  BY <1>1, <1>2 DEF TypeOK, Woken
<1>4. /\ t \notin Asleep /\ t \notin OnTheirWay /\ OnTheirWay \cap woken = {}
      /\ \A u \in woken: u \in Threads /\ u # t /\ pc'[u] \in {"wait", "timed"}
      /\ \A u \in Threads: u # t /\ u \notin woken => pc'[u] = pc[u]
      /\ pc'[t] = "done"
  BY <1>1, <1>2 DEF Asleep, OnTheirWay, Woken
<1>5. Asleep' = Asleep \ woken
  BY <1>4 DEF Asleep
<1>6. OnTheirWay' = OnTheirWay \cup woken
  BY <1>4 DEF OnTheirWay
<1>7. IsFiniteSet(woken) /\ Cardinality(woken) \in Nat
  BY Finite, FS_Subset, CountMembers
<1>8. Cardinality(OnTheirWay') = Cardinality(OnTheirWay) + Cardinality(woken)
  <2>1. Cardinality(OnTheirWay \cap woken) = 0
    BY <1>4, FS_EmptySet
  <2>2. Cardinality(OnTheirWay \cup woken)
          = Cardinality(OnTheirWay) + Cardinality(woken) - Cardinality(OnTheirWay \cap woken)
    BY <1>7, Finite, FS_Union
  <2>. QED
    BY <1>6, <1>7, <2>1, <2>2, Finite
\* If a thread still sleeps, there were enough for every notification.
<1>9. ASSUME Asleep' # {}
      PROVE  count' <= Cardinality(OnTheirWay')
  <2>1. Asleep # {} /\ woken # Asleep
    BY <1>5, <1>9
  <2>2. Cardinality(woken) # Cardinality(Asleep)
    BY <2>1, Finite, FS_Subset
  <2>3. Cardinality(woken) = n
    BY <1>1, <2>2
  <2>4. count <= Cardinality(OnTheirWay) /\ Cardinality(OnTheirWay) \in Nat
    BY <2>1, Finite DEF NoLostWakeup
  <2>. QED
    BY <1>2, <1>8, <2>3, <2>4
<1>. QED
  BY <1>3, <1>9 DEF NoLostWakeup

LEMMA TakePermitStep ==
  ASSUME SemaphoreAssumption, TypeOK, NoLostWakeup, NEW t \in Threads, TakePermit(t)
  PROVE  TypeOK' /\ NoLostWakeup'
<1>1. /\ pc[t] \in Looking /\ Goto(t, pc[t], "done") /\ pc'[t] = "done"
      /\ count' = count - 1 /\ count > 0 /\ count \in Nat /\ MaxCount \in Nat
  BY DEF TakePermit, Looking, Goto, TypeOK, SemaphoreAssumption
<1>2. TypeOK'
  BY <1>1 DEF TypeOK, Goto
<1>3. Asleep' = Asleep
  BY <1>1 DEF Asleep, Goto, TypeOK, Looking
<1>4. Cardinality(OnTheirWay') = Cardinality(OnTheirWay) - 1
  <2>1. "done" \notin Looking /\ Cardinality(OnTheirWay) \in Nat
    BY Finite DEF Looking
  <2>. QED
    BY <1>1, <2>1, Counts
<1>. QED
  BY <1>1, <1>2, <1>3, <1>4, Finite DEF NoLostWakeup

\* A thread that asks for the mutex, gives up, falls asleep or wakes up.
LEMMA OtherStep ==
  ASSUME SemaphoreAssumption, TypeOK, NoLostWakeup, NEW t \in Threads, NEW from, NEW to,
         Goto(t, from, to), UNCHANGED count,
         to \in {"idle", "failed", "asleep", "asleep_timed"} \cup Looking,
         count = 0 \/ (to \notin {"asleep", "asleep_timed"} /\ (from \in Looking => to \in Looking))
  PROVE  TypeOK' /\ NoLostWakeup'
<1>1. TypeOK'
  BY DEF TypeOK, Goto, Looking
<1>2. Cardinality(OnTheirWay) \in Nat /\ Cardinality(OnTheirWay') \in Nat
  <2>1. OnTheirWay' \in SUBSET Threads
    BY DEF OnTheirWay
  <2>. QED
    BY <2>1, Finite, FS_Subset, CountMembers DEF SemaphoreAssumption
<1>3. CASE count = 0
  BY <1>1, <1>2, <1>3 DEF NoLostWakeup
<1>4. CASE to \notin {"asleep", "asleep_timed"} /\ (from \in Looking => to \in Looking)
  <2>1. Asleep' # {} => Asleep # {}
    BY <1>4 DEF Asleep, Goto, TypeOK
  <2>2. Cardinality(OnTheirWay') >= Cardinality(OnTheirWay)
    BY <1>2, <1>4, Counts
  <2>3. count \in Nat
    BY DEF TypeOK
  <2>. QED
    BY <1>1, <1>2, <2>1, <2>2, <2>3 DEF NoLostWakeup
<1>. QED
  BY <1>3, <1>4

LEMMA NextInv ==
  ASSUME SemaphoreAssumption, SemaphoreNoLostWakeup, [Next]_vars
  PROVE  SemaphoreNoLostWakeup'
<1>. USE DEF SemaphoreNoLostWakeup
<1>1. ASSUME NEW t \in Threads, NEW op \in Operations, Call(t, op)
      PROVE  TypeOK' /\ NoLostWakeup'
  <2>1. Goto(t, "idle", op) /\ UNCHANGED count /\ op \in Looking /\ "idle" \notin Looking
        /\ op \notin {"asleep", "asleep_timed"}
    BY <1>1 DEF Call, Operations, Looking
  <2>. QED
    BY <2>1, OtherStep
<1>2. ASSUME NEW t \in Threads, NoPermit(t)
      PROVE  TypeOK' /\ NoLostWakeup'
  <2>1. count = 0 /\ UNCHANGED count
    BY <1>2 DEF NoPermit, TypeOK, SemaphoreAssumption
  <2>. QED
    BY <1>2, <2>1, OtherStep DEF NoPermit
<1>3. ASSUME NEW t \in Threads, SpuriousWakeup(t)
      PROVE  TypeOK' /\ NoLostWakeup'
  <2>1. UNCHANGED count /\ "wait" \in Looking /\ "timed" \in Looking
    BY <1>3 DEF SpuriousWakeup, Looking
  <2>. QED
    BY <1>3, <2>1, OtherStep DEF SpuriousWakeup
<1>4. ASSUME NEW t \in Threads, Timeout(t)
      PROVE  TypeOK' /\ NoLostWakeup'
  <2>1. UNCHANGED count /\ "last_look" \in Looking /\ Goto(t, "asleep_timed", "last_look")
    BY <1>4 DEF Timeout, Looking
  <2>. QED
    BY <2>1, OtherStep
<1>5. ASSUME NEW t \in Threads, Return(t)
      PROVE  TypeOK' /\ NoLostWakeup'
  <2>1. UNCHANGED count /\ "done" \notin Looking /\ "failed" \notin Looking
    BY <1>5 DEF Return, Looking
  <2>. QED
    BY <1>5, <2>1, OtherStep DEF Return
<1>6. CASE UNCHANGED vars
  BY <1>6 DEF vars, TypeOK, NoLostWakeup, Asleep, OnTheirWay
<1>. QED
  BY <1>1, <1>2, <1>3, <1>4, <1>5, <1>6, SignalStep, TakePermitStep DEF Next

\* However many threads wait, with or without a timeout, and are signalled: none
\* sleeps on a permit that nobody else is about to take.
THEOREM SemaphoreCorrect ==
  ASSUME SemaphoreAssumption
  PROVE  Spec => []SemaphoreNoLostWakeup
<1>1. Init => SemaphoreNoLostWakeup
  BY DEF Init, SemaphoreNoLostWakeup, TypeOK, NoLostWakeup, Asleep, SemaphoreAssumption
<1>2. SemaphoreNoLostWakeup /\ [Next]_vars => SemaphoreNoLostWakeup'
  BY NextInv
<1>. QED
  BY <1>1, <1>2, PTL DEF Spec

---------------------------------------------------------------------------
\* Refinement: what a step of one thread makes of the calls that are seen.
LEMMA CallsChange ==
  ASSUME TypeOK, NEW t \in Threads, NEW from, NEW to, Goto(t, from, to)
  PROVE  /\ pc[t] = from /\ pc'[t] = to
         /\ Calls[t] = CallSeen(t) /\ Calls' = [Calls EXCEPT ![t] = CallSeen(t)']
         /\ CallSeen(t)' = CallSeen(t) => Calls' = Calls
<1>1. \A u \in Threads: u # t => CallSeen(u)' = CallSeen(u)
  BY DEF Goto, TypeOK, CallSeen
<1>2. pc[t] = from /\ pc'[t] = to
  BY DEF Goto, TypeOK
<1>. QED
  BY <1>1, <1>2 DEF Calls

\* Threads that are woken are still seen to wait.
LEMMA SignalRefines ==
  ASSUME TypeOK, NEW t \in Threads, NEW n \in Amounts, Signal(t, n)
  PROVE  Permits!Signal(t, n)
<1>1. PICK woken \in SUBSET Asleep:
        pc' = [u \in Threads |-> IF u = t THEN "done"
                                 ELSE IF u \in woken THEN Woken(u) ELSE pc[u]]
  BY DEF Signal
<1>2. pc[t] = "idle" /\ pc'[t] = "done" /\ count + n <= MaxCount /\ count' = count + n
  BY <1>1 DEF Signal
<1>3. ASSUME NEW u \in Threads, u # t
      PROVE  CallSeen(u)' = CallSeen(u)
  <2>1. CASE u \in woken
    <3>1. pc'[u] = Woken(u) /\ pc[u] \in {"asleep", "asleep_timed"}
      BY <1>1, <1>3, <2>1 DEF Asleep
    <3>. QED
      BY <3>1 DEF Woken, CallSeen
  <2>2. CASE u \notin woken
    <3>1. pc'[u] = pc[u]
      BY <1>1, <1>3, <2>2
    <3>. QED
      BY <3>1 DEF CallSeen
  <2>. QED
    BY <2>1, <2>2
<1>4. CallSeen(t) = "idle" /\ CallSeen(t)' = "done"
  BY <1>2 DEF CallSeen
<1>5. Calls[t] = "idle" /\ Calls' = [Calls EXCEPT ![t] = "done"]
  BY <1>3, <1>4 DEF Calls
<1>. QED
  BY <1>2, <1>5 DEF Permits!Signal, Permits!Become

LEMMA NextRefines ==
  ASSUME SemaphoreAssumption, TypeOK, [Next]_vars
  PROVE  [Permits!Next]_(Permits!vars)
<1>1. CASE UNCHANGED vars
  BY <1>1 DEF vars, Permits!vars, Calls, CallSeen
<1>2. ASSUME NEW t \in Threads, NEW op \in Operations, Call(t, op)
      PROVE  Permits!Next
  <2>1. Goto(t, "idle", op) /\ op \in {"wait", "timed", "try"} /\ UNCHANGED count
    BY <1>2 DEF Call, Operations
  <2>2. CallSeen(t) = "idle" /\ CallSeen(t)' = op
    BY <2>1, CallsChange DEF CallSeen
  <2>3. Permits!Call(t, op)
    BY <2>1, <2>2, CallsChange DEF Permits!Call, Permits!Become
  <2>. QED
    BY <2>3 DEF Permits!Next
<1>3. ASSUME NEW t \in Threads, NEW n \in Amounts, Signal(t, n)
      PROVE  Permits!Next
  BY <1>3, SignalRefines DEF Permits!Next
<1>4. ASSUME NEW t \in Threads, TakePermit(t)
      PROVE  Permits!Next
  <2>1. /\ pc[t] \in Looking /\ Goto(t, pc[t], "done")
        /\ count > 0 /\ count' = count - 1
    BY <1>4 DEF TakePermit, Looking
  <2>2. CallSeen(t) \in Operations /\ CallSeen(t)' = "done"
    BY <2>1, CallsChange DEF CallSeen, Looking, Operations
  <2>3. Permits!Take(t, CallSeen(t))
    BY <2>1, <2>2, CallsChange DEF Permits!Take, Permits!Become
  <2>. QED
    BY <2>2, <2>3 DEF Permits!Next
<1>5. ASSUME NEW t \in Threads, NoPermit(t)
      PROVE  [Permits!Next]_(Permits!vars)
  <2>1. count = 0 /\ UNCHANGED count
    BY <1>5 DEF NoPermit, TypeOK, SemaphoreAssumption
  <2>2. CASE Goto(t, "wait", "asleep") \/ Goto(t, "timed", "asleep_timed")
    <3>1. CallSeen(t)' = CallSeen(t)
      BY <2>2, CallsChange DEF CallSeen
    <3>. QED
      BY <2>1, <2>2, <3>1, CallsChange DEF Permits!vars
  <2>3. ASSUME NEW from \in {"last_look", "try"}, Goto(t, from, "failed")
        PROVE  Permits!Next
    <3>1. /\ CallSeen(t) \in {"timed", "try"} /\ CallSeen(t)' = "failed"
      BY <2>3, CallsChange DEF CallSeen
    <3>2. Permits!Fail(t, CallSeen(t))
      BY <2>1, <2>3, <3>1, CallsChange DEF Permits!Fail, Permits!Become
    <3>. QED
      BY <3>1, <3>2 DEF Permits!Next, Operations
  <2>. QED
    BY <1>5, <2>2, <2>3 DEF NoPermit
<1>6. ASSUME NEW t \in Threads, SpuriousWakeup(t) \/ Timeout(t)
      PROVE  UNCHANGED Permits!vars
  <2>1. PICK from, to: Goto(t, from, to) /\ CallSeen(t)' = CallSeen(t)
    <3>1. \/ Goto(t, "asleep", "wait") \/ Goto(t, "asleep_timed", "timed")
          \/ Goto(t, "asleep_timed", "last_look")
      BY <1>6 DEF SpuriousWakeup, Timeout
    <3>2. CallSeen(t)' = CallSeen(t)
      BY <3>1, CallsChange DEF CallSeen
    <3>. QED
      BY <3>1, <3>2
  <2>. QED
    BY <1>6, <2>1, CallsChange DEF SpuriousWakeup, Timeout, Permits!vars
<1>7. ASSUME NEW t \in Threads, Return(t)
      PROVE  Permits!Next
  <2>1. PICK from \in {"done", "failed"}: Goto(t, from, "idle") /\ UNCHANGED count
    BY <1>7 DEF Return
  <2>2. CallSeen(t) = from /\ CallSeen(t)' = "idle"
    BY <2>1, CallsChange DEF CallSeen
  <2>3. Permits!Return(t)
    BY <2>1, <2>2, CallsChange DEF Permits!Return, Permits!Become
  <2>. QED
    BY <2>3 DEF Permits!Next
<1>. QED
  BY <1>1, <1>2, <1>3, <1>4, <1>5, <1>6, <1>7 DEF Next

\* A Semaphore is a counting semaphore: a wait takes a permit of its own, and a timed
\* wait or a TryWait fails only at a moment when there is none.
THEOREM SemaphoreIsCounting ==
  ASSUME SemaphoreAssumption
  PROVE  Spec => ImplementsPermits
<1>1. Init => Permits!Init
  <2>. SUFFICES ASSUME Init PROVE Permits!Init
    OBVIOUS
  <2>1. Calls = [t \in Threads |-> "idle"]
    BY DEF Init, Calls, CallSeen
  <2>. QED
    BY <2>1 DEF Init, Permits!Init
<1>2. TypeOK /\ [Next]_vars => [Permits!Next]_(Permits!vars)
  BY NextRefines
<1>3. SemaphoreNoLostWakeup => TypeOK
  BY DEF SemaphoreNoLostWakeup
<1>. QED
  BY <1>1, <1>2, <1>3, SemaphoreCorrect, PTL DEF Spec, ImplementsPermits, Permits!Spec

=============================================================================
