--------------------------- MODULE ThreadingProofs ---------------------------
(***************************************************************************)
(* Proofs about RecursiveBenaphore, for every finite set of threads and    *)
(* every depth: the thread that holds the lock, and no other, takes itself *)
(* for the owner; its permit is neither lost nor doubled; and recursion,   *)
(* read by Unlock after it gave its count back, is what it was.            *)
(*                                                                         *)
(* The invariant needs, besides, what a thread inside a call still knows   *)
(* of the locks that it held when it made the call.                        *)
(*                                                                         *)
(* Then PreshingSemaphore: its sleepers are accounted for, and it is a     *)
(* counting semaphore; the thread table, where a thread keeps its entry    *)
(* until it is given to another; the ring buffer, whose indexes are a      *)
(* lossy queue of slots; and the file operations, which never mix two      *)
(* writes.  The last part is about the components next to each other in    *)
(* MCThreading: what is proved of each is so of the composite.             *)
(***************************************************************************)
EXTENDS MCThreading, ThreadCounts, SequenceTheorems

Counted == {t \in Threads: pc[t] \in {"check_owner", "waiting", "enter", "unlock_sub"}}
Baton   == {t \in Threads: HasBaton(t)}

\* A thread only waits, tries the empty lock, or signals, when it holds no lock; it
\* is sure to hold one before it locks again without a look at the count; and it
\* has room for one more lock while it is getting it.
CallsFit ==
  \A t \in Threads:
    /\ pc[t] \in {"waiting", "try_load", "try_exchange", "signal"} => depth[t] = 0
    /\ pc[t] = "try_add" => depth[t] > 0
    /\ pc[t] \in {"lock", "check_owner", "waiting", "enter", "try", "try_add",
                  "try_load", "try_exchange"} => depth[t] < MaxDepth

IInv == TypeOK /\ OwnerHolds /\ OneBaton /\ CallsFit

Steps == {"idle", "lock", "check_owner", "waiting", "enter", "try", "try_add",
          "try_load", "try_exchange", "unlock_sub", "check_recursion", "signal"}

LEMMA Finite ==
  ASSUME RecursiveAssumption
  PROVE  /\ IsFiniteSet(Baton) /\ Cardinality(Baton) \in Nat
         /\ IsFiniteSet(Counted) /\ Cardinality(Counted) \in Nat
<1>1. Baton \in SUBSET Threads /\ Counted \in SUBSET Threads
  BY DEF Baton, Counted
<1>. QED
  BY <1>1, FS_Subset, CountMembers DEF RecursiveAssumption

\* What OneBaton says, with names for its sets.
LEMMA BatonFacts ==
  ASSUME RecursiveAssumption, TypeOK, OneBaton
  PROVE  /\ contention = recursion + Cardinality(Counted)
         /\ contention > 0 => Cardinality(Baton) + semaphore = 1
         /\ contention = 0 => Cardinality(Baton) = 0 /\ semaphore = 0
         /\ \A t, u \in Threads: HasBaton(t) /\ HasBaton(u) => t = u
         /\ \A t \in Threads: HasBaton(t) => contention > 0 /\ semaphore = 0
<1>1. /\ Cardinality(Baton) \in Nat /\ semaphore \in Nat /\ contention \in Nat
      /\ Cardinality(Baton) + semaphore = IF contention > 0 THEN 1 ELSE 0
      /\ contention = recursion + Cardinality(Counted)
  BY Finite DEF OneBaton, Baton, Counted, TypeOK
<1>2. Cardinality(Baton) <= 1
  BY <1>1
<1>3. ASSUME NEW t \in Threads, NEW u \in Threads, HasBaton(t), HasBaton(u)
      PROVE  t = u
  <2>1. t \in Baton /\ u \in Baton
    BY <1>3 DEF Baton
  <2>. QED
    BY <2>1, <1>2, Finite, CountMembers
<1>4. ASSUME NEW t \in Threads, HasBaton(t)
      PROVE  contention > 0 /\ semaphore = 0
  <2>1. Baton # {}
    BY <1>4 DEF Baton
  <2>2. Cardinality(Baton) # 0
    BY <2>1, Finite, CountMembers
  <2>. QED
    BY <2>2, <1>1
<1>. QED
  BY <1>1, <1>3, <1>4

\* How a step of one thread changes the two counts.
LEMMA Counts ==
  ASSUME RecursiveAssumption, TypeOK, NEW t \in Threads, NEW from, NEW to, Goto(t, from, to),
         \A u \in Threads: u # t => depth'[u] = depth[u]
  PROVE  /\ Cardinality(Counted') \in Nat /\ Cardinality(Baton') \in Nat
         /\ Cardinality(Counted') = Cardinality(Counted)
              + (IF to \in {"check_owner", "waiting", "enter", "unlock_sub"} THEN 1 ELSE 0)
              - (IF from \in {"check_owner", "waiting", "enter", "unlock_sub"} THEN 1 ELSE 0)
         /\ Cardinality(Baton') = Cardinality(Baton)
              + (IF HasBaton(t)' THEN 1 ELSE 0) - (IF HasBaton(t) THEN 1 ELSE 0)
<1>1. /\ pc[t] = from /\ pc'[t] = to
      /\ \A u \in Threads: u # t => pc'[u] = pc[u]
  BY DEF Goto, TypeOK
<1>2. /\ \A u: u # t => (u \in Counted <=> u \in Counted')
      /\ t \in Counted <=> from \in {"check_owner", "waiting", "enter", "unlock_sub"}
      /\ t \in Counted' <=> to \in {"check_owner", "waiting", "enter", "unlock_sub"}
  BY <1>1 DEF Counted
<1>3. /\ \A u: u # t => (u \in Baton <=> u \in Baton')
      /\ t \in Baton <=> HasBaton(t)
      /\ t \in Baton' <=> HasBaton(t)'
  BY <1>1 DEF Baton, HasBaton
<1>4. /\ Cardinality(Counted') \in Nat
      /\ Cardinality(Counted') = Cardinality(Counted)
              + (IF to \in {"check_owner", "waiting", "enter", "unlock_sub"} THEN 1 ELSE 0)
              - (IF from \in {"check_owner", "waiting", "enter", "unlock_sub"} THEN 1 ELSE 0)
  <2>1. Cardinality(Counted) \in Nat
    BY Finite
  <2>. QED
    BY <1>2, <2>1, Finite, CountMoves
<1>5. /\ Cardinality(Baton') \in Nat
      /\ Cardinality(Baton') = Cardinality(Baton)
              + (IF HasBaton(t)' THEN 1 ELSE 0) - (IF HasBaton(t) THEN 1 ELSE 0)
  <2>1. Cardinality(Baton) \in Nat
    BY Finite
  <2>. QED
    BY <1>3, <2>1, Finite, CountMoves
<1>. QED
  BY <1>4, <1>5

\* OneBaton after a step, from the counts.
LEMMA BatonStays ==
  ASSUME TypeOK', 
         contention' = recursion' + Cardinality(Counted'),
         contention' > 0 => Cardinality(Baton') + semaphore' = 1,
         contention' = 0 => Cardinality(Baton') + semaphore' = 0
  PROVE  OneBaton'
BY DEF OneBaton, Baton, Counted, TypeOK

LEMMA InitIInv ==
  ASSUME RecursiveAssumption, Init
  PROVE  IInv
<1>1. TypeOK /\ OwnerHolds /\ CallsFit
  BY DEF Init, TypeOK, OwnerHolds, CallsFit, RecursiveAssumption
<1>2. Baton = {} /\ Counted = {}
  BY DEF Init, Baton, Counted, HasBaton
<1>3. OneBaton
  BY <1>2, FS_EmptySet DEF Init, OneBaton, Baton, Counted
<1>. QED
  BY <1>1, <1>3 DEF IInv

---------------------------------------------------------------------------
\* A step that leaves the counts, the owner and the locks held as they are: only
\* what it says of the thread that takes it is to be shown.
LEMMA QuietStep ==
  ASSUME RecursiveAssumption, IInv, NEW t \in Threads, NEW from \in Steps, NEW to \in Steps,
         Goto(t, from, to), UNCHANGED <<owner, contention, recursion, semaphore, depth>>,
         to \in {"check_owner", "waiting", "enter", "unlock_sub"}
           <=> from \in {"check_owner", "waiting", "enter", "unlock_sub"},
         HasBaton(t)' <=> HasBaton(t),
         to \in {"waiting", "try_load", "try_exchange", "signal"} => depth[t] = 0,
         to = "try_add" => depth[t] > 0,
         to \in {"lock", "check_owner", "waiting", "enter", "try", "try_add",
                 "try_load", "try_exchange"} => depth[t] < MaxDepth
  PROVE  IInv'
<1>1. TypeOK'
  BY DEF IInv, TypeOK, Goto, Steps
<1>2. OwnerHolds'
  BY DEF IInv, OwnerHolds
<1>3. CallsFit'
  BY DEF IInv, TypeOK, CallsFit, Goto
<1>4. Cardinality(Counted') = Cardinality(Counted) /\ Cardinality(Baton') = Cardinality(Baton)
  BY Counts, Finite DEF IInv
<1>5. OneBaton'
  BY <1>1, <1>4, BatonFacts, BatonStays DEF IInv
<1>. QED
  BY <1>1, <1>2, <1>3, <1>5 DEF IInv

LEMMA CallStep ==
  ASSUME RecursiveAssumption, IInv, NEW t \in Threads, NEW op \in {"lock", "try"}, Call(t, op)
  PROVE  IInv'
<1>1. Goto(t, "idle", op) /\ "idle" \in Steps /\ op \in Steps
  BY DEF Call, Steps
<1>2. HasBaton(t)' <=> HasBaton(t)
  BY <1>1 DEF Call, HasBaton, Goto, IInv, TypeOK
<1>. QED
  BY <1>1, <1>2, QuietStep DEF Call

LEMMA CheckOwnerStep ==
  ASSUME RecursiveAssumption, IInv, NEW t \in Threads, CheckOwner(t)
  PROVE  IInv'
<1>1. PICK to \in {"enter", "waiting"}:
        Goto(t, "check_owner", to) /\ to = IF owner = t THEN "enter" ELSE "waiting"
  BY DEF CheckOwner
<1>2. pc[t] = "check_owner" /\ pc'[t] = to /\ depth' = depth
  BY <1>1 DEF CheckOwner, Goto, IInv, TypeOK
<1>3. depth[t] \in Nat /\ depth[t] < MaxDepth
  BY <1>2 DEF IInv, CallsFit, TypeOK
<1>4. IF owner = t THEN depth[t] > 0 ELSE depth[t] = 0
  BY <1>3 DEF IInv, OwnerHolds
<1>5. HasBaton(t)' <=> HasBaton(t)
  BY <1>1, <1>2, <1>3, <1>4 DEF HasBaton
<1>. QED
  BY <1>1, <1>2, <1>3, <1>4, <1>5, QuietStep DEF CheckOwner, Steps

LEMMA TryOwnerStep ==
  ASSUME RecursiveAssumption, IInv, NEW t \in Threads, TryOwner(t)
  PROVE  IInv'
<1>1. PICK to \in {"try_add", "try_load"}:
        Goto(t, "try", to) /\ to = IF owner = t THEN "try_add" ELSE "try_load"
  BY DEF TryOwner
<1>2. pc[t] = "try" /\ pc'[t] = to /\ depth' = depth
  BY <1>1 DEF TryOwner, Goto, IInv, TypeOK
<1>3. depth[t] \in Nat /\ depth[t] < MaxDepth
  BY <1>2 DEF IInv, CallsFit, TypeOK
<1>4. IF owner = t THEN depth[t] > 0 ELSE depth[t] = 0
  BY <1>3 DEF IInv, OwnerHolds
<1>5. HasBaton(t)' <=> HasBaton(t)
  BY <1>1, <1>2 DEF HasBaton
<1>. QED
  BY <1>1, <1>2, <1>3, <1>4, <1>5, QuietStep DEF TryOwner, Steps

LEMMA TryLoadStep ==
  ASSUME RecursiveAssumption, IInv, NEW t \in Threads, TryLoad(t)
  PROVE  IInv'
<1>1. PICK to \in {"idle", "try_exchange"}: Goto(t, "try_load", to)
  BY DEF TryLoad
<1>2. pc[t] = "try_load" /\ pc'[t] = to /\ depth' = depth
  BY <1>1 DEF TryLoad, Goto, IInv, TypeOK
<1>3. depth[t] = 0 /\ depth[t] < MaxDepth
  BY <1>2 DEF IInv, CallsFit
<1>4. HasBaton(t)' <=> HasBaton(t)
  BY <1>1, <1>2 DEF HasBaton
<1>. QED
  BY <1>1, <1>2, <1>3, <1>4, QuietStep DEF TryLoad, Steps

LEMMA CheckRecursionStep ==
  ASSUME RecursiveAssumption, IInv, NEW t \in Threads, CheckRecursion(t)
  PROVE  IInv'
<1>1. PICK to \in {"signal", "idle"}:
        Goto(t, "check_recursion", to) /\ to = IF recursion = 0 THEN "signal" ELSE "idle"
  BY DEF CheckRecursion
<1>2. pc[t] = "check_recursion" /\ pc'[t] = to /\ depth' = depth
  BY <1>1 DEF CheckRecursion, Goto, IInv, TypeOK
<1>3. HasBaton(t)
  BY <1>2 DEF HasBaton
\* Nobody else can have the lock: so recursion is what this thread left.
<1>4. IF recursion = 0 THEN depth[t] = 0 ELSE depth[t] > 0
  <2>1. depth[t] \in Nat /\ owner \in Threads \cup {NoThread}
    BY DEF IInv, TypeOK
  <2>2. CASE recursion = 0
    BY <2>1, <2>2 DEF IInv, OwnerHolds
  <2>3. CASE recursion # 0
    <3>1. owner \in Threads /\ depth[owner] > 0
      BY <2>1, <2>3 DEF IInv, OwnerHolds
    <3>2. HasBaton(owner)
      BY <3>1 DEF HasBaton
    <3>3. owner = t
      BY <1>3, <3>1, <3>2, BatonFacts DEF IInv
    <3>. QED
      BY <2>3, <3>1, <3>3
  <2>. QED
    BY <2>2, <2>3
<1>5. HasBaton(t)'
  BY <1>1, <1>2, <1>4 DEF HasBaton
<1>. QED
  BY <1>1, <1>2, <1>3, <1>4, <1>5, QuietStep DEF CheckRecursion, Steps

---------------------------------------------------------------------------
LEMMA LockAddStep ==
  ASSUME RecursiveAssumption, IInv, NEW t \in Threads, LockAdd(t)
  PROVE  IInv'
<1>1. PICK to \in {"check_owner", "enter"}:
        Goto(t, "lock", to) /\ to = IF contention > 0 THEN "check_owner" ELSE "enter"
  BY DEF LockAdd
<1>2. /\ pc[t] = "lock" /\ pc'[t] = to /\ depth' = depth /\ contention' = contention + 1
      /\ recursion' = recursion /\ semaphore' = semaphore /\ owner' = owner
      /\ contention \in Nat /\ depth[t] \in Nat /\ recursion \in Nat
  BY <1>1 DEF LockAdd, Goto, IInv, TypeOK
<1>3. TypeOK' /\ OwnerHolds' /\ CallsFit'
  BY <1>1, <1>2 DEF IInv, TypeOK, OwnerHolds, CallsFit, Goto
<1>4. /\ Cardinality(Counted) \in Nat /\ Cardinality(Baton) \in Nat
      /\ Cardinality(Counted') = Cardinality(Counted) + 1
      /\ Cardinality(Baton') = Cardinality(Baton)
           + (IF HasBaton(t)' THEN 1 ELSE 0) - (IF HasBaton(t) THEN 1 ELSE 0)
  BY <1>1, <1>2, Counts, Finite DEF IInv
<1>5. Cardinality(Baton') + semaphore' = 1
  <2>1. CASE contention > 0
    <3>1. HasBaton(t)' <=> HasBaton(t)
      BY <1>1, <1>2, <2>1 DEF HasBaton
    <3>. QED
      BY <1>2, <1>4, <2>1, <3>1, BatonFacts DEF IInv
  <2>2. CASE contention = 0
    <3>1. ~ HasBaton(t)
      BY <2>2, BatonFacts DEF IInv
    <3>2. HasBaton(t)'
      BY <1>1, <1>2, <2>2 DEF HasBaton
    <3>. QED
      BY <1>2, <1>4, <2>2, <3>1, <3>2, BatonFacts DEF IInv
  <2>. QED
    BY <1>2, <2>1, <2>2
<1>6. contention' = recursion' + Cardinality(Counted')
  BY <1>2, <1>4, BatonFacts DEF IInv
<1>. QED
  BY <1>2, <1>3, <1>5, <1>6, BatonStays DEF IInv

LEMMA SemaphoreWaitStep ==
  ASSUME RecursiveAssumption, IInv, NEW t \in Threads, SemaphoreWait(t)
  PROVE  IInv'
<1>1. /\ Goto(t, "waiting", "enter") /\ pc[t] = "waiting" /\ pc'[t] = "enter"
      /\ depth' = depth /\ contention' = contention
      /\ recursion' = recursion /\ semaphore' = semaphore - 1 /\ owner' = owner
      /\ semaphore \in Nat /\ semaphore > 0
  BY DEF SemaphoreWait, Goto, IInv, TypeOK
<1>2. TypeOK' /\ OwnerHolds' /\ CallsFit'
  BY <1>1 DEF IInv, TypeOK, OwnerHolds, CallsFit, Goto
<1>3. ~ HasBaton(t) /\ HasBaton(t)'
  BY <1>1, BatonFacts DEF HasBaton, IInv
<1>4. /\ Cardinality(Counted) \in Nat /\ Cardinality(Baton) \in Nat
      /\ Cardinality(Counted') = Cardinality(Counted)
      /\ Cardinality(Baton') = Cardinality(Baton) + 1
  BY <1>1, <1>3, Counts, Finite DEF IInv
<1>5. contention > 0 /\ Cardinality(Baton) + semaphore = 1
  BY <1>1, BatonFacts DEF IInv, TypeOK
<1>. QED
  BY <1>1, <1>2, <1>4, <1>5, BatonFacts, BatonStays DEF IInv

LEMMA EnterStep ==
  ASSUME RecursiveAssumption, IInv, NEW t \in Threads, Enter(t)
  PROVE  IInv'
<1>1. /\ Goto(t, "enter", "idle") /\ pc[t] = "enter" /\ pc'[t] = "idle"
      /\ depth' = [depth EXCEPT ![t] = @ + 1] /\ contention' = contention
      /\ recursion' = recursion + 1 /\ semaphore' = semaphore /\ owner' = t
      /\ recursion \in Nat /\ depth[t] \in Nat /\ depth[t] < MaxDepth
  BY DEF Enter, Goto, IInv, TypeOK, CallsFit
<1>2. HasBaton(t) /\ HasBaton(t)'
  BY <1>1 DEF HasBaton, IInv, TypeOK
\* Nobody else can have the lock.
<1>3. owner \in {t, NoThread} /\ \A u \in Threads: u # t => depth[u] = 0
  <2>1. ASSUME NEW u \in Threads, u # t
        PROVE  depth[u] = 0
    <3>1. ~ HasBaton(u)
      BY <1>2, <2>1, BatonFacts DEF IInv
    <3>. QED
      BY <3>1 DEF HasBaton, IInv, TypeOK
  <2>. QED
    BY <2>1 DEF IInv, TypeOK, OwnerHolds
<1>4. recursion = depth[t]
  BY <1>1, <1>3 DEF IInv, OwnerHolds
<1>5. /\ depth'[t] = depth[t] + 1
      /\ \A u \in Threads: u # t => depth'[u] = depth[u] /\ pc'[u] = pc[u]
  BY <1>1 DEF IInv, TypeOK, Goto
<1>6. TypeOK' /\ CallsFit'
  BY <1>1, <1>5 DEF IInv, TypeOK, CallsFit, Goto, RecursiveAssumption
<1>7. OwnerHolds'
  BY <1>1, <1>3, <1>4, <1>5 DEF OwnerHolds, RecursiveAssumption
<1>8. /\ Cardinality(Counted) \in Nat /\ Cardinality(Baton) \in Nat
      /\ Cardinality(Counted') = Cardinality(Counted) - 1
      /\ Cardinality(Baton') = Cardinality(Baton)
  BY <1>1, <1>2, <1>5, Counts, Finite DEF IInv
<1>. QED
  BY <1>1, <1>6, <1>7, <1>8, BatonFacts, BatonStays DEF IInv

LEMMA TryAddStep ==
  ASSUME RecursiveAssumption, IInv, NEW t \in Threads, TryAdd(t)
  PROVE  IInv'
<1>1. /\ Goto(t, "try_add", "idle") /\ pc[t] = "try_add" /\ pc'[t] = "idle"
      /\ depth' = [depth EXCEPT ![t] = @ + 1] /\ contention' = contention + 1
      /\ recursion' = recursion + 1 /\ semaphore' = semaphore /\ owner' = owner
      /\ recursion \in Nat /\ contention \in Nat
      /\ depth[t] \in Nat /\ depth[t] > 0 /\ depth[t] < MaxDepth
  BY DEF TryAdd, Goto, IInv, TypeOK, CallsFit
<1>2. HasBaton(t) /\ HasBaton(t)'
  BY <1>1 DEF HasBaton, IInv, TypeOK
<1>3. owner = t /\ recursion = depth[t]
  BY <1>1 DEF IInv, OwnerHolds
<1>4. /\ depth'[t] = depth[t] + 1
      /\ \A u \in Threads: u # t => depth'[u] = depth[u] /\ pc'[u] = pc[u]
  BY <1>1 DEF IInv, TypeOK, Goto
<1>5. TypeOK' /\ CallsFit'
  BY <1>1, <1>4 DEF IInv, TypeOK, CallsFit, Goto, RecursiveAssumption
<1>6. OwnerHolds'
  BY <1>1, <1>3, <1>4 DEF IInv, OwnerHolds, RecursiveAssumption
<1>7. /\ Cardinality(Counted) \in Nat /\ Cardinality(Baton) \in Nat
      /\ Cardinality(Counted') = Cardinality(Counted)
      /\ Cardinality(Baton') = Cardinality(Baton)
  BY <1>1, <1>2, <1>4, Counts, Finite DEF IInv
<1>8. contention > 0 /\ Cardinality(Baton) + semaphore = 1
  BY <1>2, BatonFacts DEF IInv
<1>9. contention' = recursion' + Cardinality(Counted')
  BY <1>1, <1>7, BatonFacts DEF IInv
<1>. QED
  BY <1>1, <1>5, <1>6, <1>7, <1>8, <1>9, BatonStays DEF IInv

LEMMA TryExchangeStep ==
  ASSUME RecursiveAssumption, IInv, NEW t \in Threads, TryExchange(t)
  PROVE  IInv'
<1>1. /\ pc[t] = "try_exchange" /\ depth[t] = 0 /\ depth[t] < MaxDepth
      /\ UNCHANGED <<owner, recursion, semaphore, depth>>
  BY DEF TryExchange, Goto, IInv, CallsFit
<1>2. CASE contention = 0
  <2>1. Goto(t, "try_exchange", "enter") /\ pc'[t] = "enter" /\ contention' = 1
    BY <1>2 DEF TryExchange, Goto, IInv, TypeOK
  <2>2. TypeOK' /\ OwnerHolds' /\ CallsFit'
    BY <1>1, <2>1 DEF IInv, TypeOK, OwnerHolds, CallsFit, Goto
  <2>3. ~ HasBaton(t) /\ HasBaton(t)'
    BY <1>1, <2>1 DEF HasBaton
  <2>4. /\ Cardinality(Counted) \in Nat /\ Cardinality(Baton) \in Nat
        /\ Cardinality(Counted') = Cardinality(Counted) + 1
        /\ Cardinality(Baton') = Cardinality(Baton) + 1
    BY <1>1, <2>1, <2>3, Counts, Finite DEF IInv
  <2>5. contention = recursion + Cardinality(Counted) /\ recursion \in Nat
    BY BatonFacts DEF IInv, TypeOK
  <2>6. Cardinality(Baton) = 0 /\ semaphore = 0
    BY <1>2, BatonFacts DEF IInv
  <2>. QED
    BY <1>1, <1>2, <2>1, <2>2, <2>4, <2>5, <2>6, BatonStays DEF IInv
<1>3. CASE contention # 0
  <2>1. Goto(t, "try_exchange", "idle") /\ pc'[t] = "idle" /\ contention' = contention
    BY <1>3 DEF TryExchange, Goto, IInv, TypeOK
  <2>2. HasBaton(t)' <=> HasBaton(t)
    BY <1>1, <2>1 DEF HasBaton
  <2>. QED
    BY <1>1, <2>1, <2>2, QuietStep DEF Steps
<1>. QED
  BY <1>2, <1>3

LEMMA UnlockStep ==
  ASSUME RecursiveAssumption, IInv, NEW t \in Threads, Unlock(t)
  PROVE  IInv'
<1>1. /\ Goto(t, "idle", "unlock_sub") /\ pc[t] = "idle" /\ pc'[t] = "unlock_sub"
      /\ depth' = [depth EXCEPT ![t] = @ - 1] /\ contention' = contention
      /\ recursion' = recursion - 1 /\ semaphore' = semaphore
      /\ owner' = IF recursion = 1 THEN NoThread ELSE owner
      /\ depth[t] \in Nat /\ depth[t] > 0 /\ recursion \in Nat
  BY DEF Unlock, Goto, IInv, TypeOK
<1>2. HasBaton(t) /\ HasBaton(t)'
  BY <1>1 DEF HasBaton
<1>3. owner = t /\ recursion = depth[t]
  BY <1>1 DEF IInv, OwnerHolds
<1>4. /\ depth'[t] = depth[t] - 1
      /\ \A u \in Threads: u # t => depth'[u] = depth[u] /\ pc'[u] = pc[u]
  BY <1>1 DEF IInv, TypeOK, Goto
<1>5. TypeOK' /\ CallsFit'
  BY <1>1, <1>3, <1>4 DEF IInv, TypeOK, CallsFit, Goto, RecursiveAssumption
<1>6. OwnerHolds'
  <2>1. \A u \in Threads: u # t => ~ depth[u] > 0
    BY <1>3 DEF IInv, OwnerHolds
  <2>. QED
    BY <1>1, <1>3, <1>4, <2>1 DEF OwnerHolds, RecursiveAssumption
<1>7. /\ Cardinality(Counted) \in Nat /\ Cardinality(Baton) \in Nat
      /\ Cardinality(Counted') = Cardinality(Counted) + 1
      /\ Cardinality(Baton') = Cardinality(Baton)
  BY <1>1, <1>2, <1>4, Counts, Finite DEF IInv
<1>. QED
  BY <1>1, <1>5, <1>6, <1>7, BatonFacts, BatonStays DEF IInv

LEMMA UnlockSubStep ==
  ASSUME RecursiveAssumption, IInv, NEW t \in Threads, UnlockSub(t)
  PROVE  IInv'
<1>1. PICK to \in {"check_recursion", "idle"}:
        Goto(t, "unlock_sub", to) /\ to = IF contention > 1 THEN "check_recursion" ELSE "idle"
  BY DEF UnlockSub
<1>2. /\ pc[t] = "unlock_sub" /\ pc'[t] = to /\ depth' = depth /\ contention' = contention - 1
      /\ recursion' = recursion /\ semaphore' = semaphore /\ owner' = owner
      /\ contention \in Nat /\ depth[t] \in Nat /\ recursion \in Nat
  BY <1>1 DEF UnlockSub, Goto, IInv, TypeOK
<1>3. HasBaton(t)
  BY <1>2 DEF HasBaton
<1>4. contention > 0 /\ semaphore = 0 /\ Cardinality(Baton) + semaphore = 1
  BY <1>3, BatonFacts DEF IInv
<1>5. /\ Cardinality(Counted) \in Nat /\ Cardinality(Baton) \in Nat
      /\ Cardinality(Counted') \in Nat
      /\ Cardinality(Counted') = Cardinality(Counted) - 1
      /\ Cardinality(Baton') = Cardinality(Baton)
           + (IF HasBaton(t)' THEN 1 ELSE 0) - (IF HasBaton(t) THEN 1 ELSE 0)
  BY <1>1, <1>2, Counts, Finite DEF IInv
<1>6. TypeOK' /\ OwnerHolds' /\ CallsFit'
  BY <1>1, <1>2, <1>4 DEF IInv, TypeOK, OwnerHolds, CallsFit, Goto
<1>7. contention' = recursion' + Cardinality(Counted')
  BY <1>2, <1>5, BatonFacts DEF IInv
<1>8. CASE contention > 1
  <2>1. HasBaton(t)'
    BY <1>1, <1>2, <1>8 DEF HasBaton
  <2>. QED
    BY <1>2, <1>3, <1>4, <1>5, <1>6, <1>7, <1>8, <2>1, BatonStays DEF IInv
\* The last count was this thread's own: it has no lock left, and no duty.
<1>9. CASE ~ contention > 1
  <2>1. contention = 1 /\ recursion = 0
    BY <1>2, <1>4, <1>5, <1>7, <1>9, BatonFacts DEF IInv
  <2>2. depth[t] = 0
    BY <1>2, <2>1 DEF IInv, OwnerHolds
  <2>3. ~ HasBaton(t)'
    BY <1>1, <1>2, <1>9, <2>2 DEF HasBaton
  <2>. QED
    BY <1>2, <1>3, <1>4, <1>5, <1>6, <1>7, <2>1, <2>3, BatonStays DEF IInv
<1>. QED
  BY <1>8, <1>9

LEMMA SemaphoreSignalStep ==
  ASSUME RecursiveAssumption, IInv, NEW t \in Threads, SemaphoreSignal(t)
  PROVE  IInv'
<1>1. /\ Goto(t, "signal", "idle") /\ pc[t] = "signal" /\ pc'[t] = "idle"
      /\ depth' = depth /\ contention' = contention
      /\ recursion' = recursion /\ semaphore' = semaphore + 1 /\ owner' = owner
      /\ semaphore \in Nat /\ depth[t] = 0
  BY DEF SemaphoreSignal, Goto, IInv, TypeOK, CallsFit
<1>2. TypeOK' /\ OwnerHolds' /\ CallsFit'
  BY <1>1 DEF IInv, TypeOK, OwnerHolds, CallsFit, Goto
<1>3. HasBaton(t) /\ ~ HasBaton(t)'
  BY <1>1 DEF HasBaton
<1>4. /\ Cardinality(Counted) \in Nat /\ Cardinality(Baton) \in Nat
      /\ Cardinality(Counted') = Cardinality(Counted)
      /\ Cardinality(Baton') = Cardinality(Baton) - 1
  BY <1>1, <1>3, Counts, Finite DEF IInv
<1>5. contention > 0 /\ Cardinality(Baton) + semaphore = 1
  BY <1>3, BatonFacts DEF IInv
<1>. QED
  BY <1>1, <1>2, <1>4, <1>5, BatonFacts, BatonStays DEF IInv

LEMMA NextIInv ==
  ASSUME RecursiveAssumption, IInv, [Next]_vars
  PROVE  IInv'
<1>1. CASE UNCHANGED vars
  BY <1>1 DEF vars, IInv, TypeOK, OwnerHolds, OneBaton, HasBaton, CallsFit
<1>2. ASSUME NEW t \in Threads, InCall(t)
      PROVE  IInv'
  BY <1>2, LockAddStep, CheckOwnerStep, SemaphoreWaitStep, EnterStep, TryOwnerStep, TryAddStep,
     TryLoadStep, TryExchangeStep, UnlockSubStep, CheckRecursionStep, SemaphoreSignalStep
  DEF InCall
<1>. QED
  BY <1>1, <1>2, CallStep, UnlockStep DEF Next

---------------------------------------------------------------------------
\* Whatever threads lock, try and unlock a RecursiveBenaphore, and however deep:
\* the assertion of Unlock (threading.h:362) holds, its counts agree, and there is
\* one permit for whoever comes next.
THEOREM RecursiveCorrect ==
  ASSUME RecursiveAssumption
  PROVE  Spec => []RecursiveOneBaton
<1>1. Init => IInv
  BY InitIInv
<1>2. IInv /\ [Next]_vars => IInv'
  BY NextIInv
<1>3. IInv => RecursiveOneBaton
  BY DEF IInv, RecursiveOneBaton
<1>. QED
  BY <1>1, <1>2, <1>3, PTL DEF Spec

\* Two threads never hold the lock at once.
THEOREM RecursiveMutualExclusion ==
  ASSUME RecursiveAssumption
  PROVE  Spec => [](\A t, u \in Threads: depth[t] > 0 /\ depth[u] > 0 => t = u)
<1>1. RecursiveOneBaton => \A t, u \in Threads: depth[t] > 0 /\ depth[u] > 0 => t = u
  BY DEF RecursiveOneBaton, OwnerHolds
<1>. QED
  BY <1>1, RecursiveCorrect, PTL

---------------------------------------------------------------------------
\* Refinement: who holds the lock, as ReentrantLock sees it, and how often.
LEMMA HolderIs ==
  ASSUME RecursiveAssumption, IInv
  PROVE  /\ Holders = {} => Holder = NoThread /\ HeldDepth = 0
         /\ \A t \in Threads: Held(t) \in Nat
         /\ \A t \in Threads: Held(t) > 0 => Holders = {t} /\ Holder = t /\ HeldDepth = Held(t)
         /\ \A t \in Threads: Held(t) = 0 => Holder # t
         /\ \A t \in Threads: Held(t) > 0 => HasBaton(t)
<1>1. \A t \in Threads: depth[t] \in Nat
  BY DEF IInv, TypeOK
<1>2. ASSUME NEW t \in Threads
      PROVE  Held(t) \in Nat /\ (Held(t) > 0 => HasBaton(t))
  BY <1>1, <1>2 DEF Held, HasBaton
<1>3. ASSUME NEW t \in Threads, Held(t) > 0
      PROVE  Holders = {t} /\ Holder = t /\ HeldDepth = Held(t)
  <2>1. \A u \in Threads: Held(u) > 0 => u = t
    BY <1>2, <1>3, BatonFacts DEF IInv
  <2>2. Holders = {t}
    BY <1>3, <2>1 DEF Holders
  <2>. QED
    BY <2>2 DEF Holder, HeldDepth
<1>4. Holders = {} => Holder = NoThread /\ HeldDepth = 0
  BY DEF Holder, HeldDepth
<1>5. ASSUME NEW t \in Threads, Held(t) = 0
      PROVE  Holder # t
  <2>1. CASE Holders = {}
    BY <1>4, <2>1 DEF RecursiveAssumption
  <2>2. CASE Holders # {}
    <3>1. PICK u \in Threads: Held(u) > 0
      BY <2>2 DEF Holders
    <3>2. Holder = u /\ u # t
      BY <1>3, <1>5, <3>1
    <3>. QED
      BY <3>2
  <2>. QED
    BY <2>1, <2>2
<1>. QED
  BY <1>2, <1>3, <1>4, <1>5

\* What a step of one thread makes of the calls that are seen, and of what the
\* others hold.
LEMMA CallsChange ==
  ASSUME TypeOK, NEW t \in Threads, NEW from, NEW to, Goto(t, from, to),
         \A u \in Threads: u # t => depth'[u] = depth[u]
  PROVE  /\ pc[t] = from /\ pc'[t] = to
         /\ Calls[t] = CallSeen(t) /\ Calls' = [Calls EXCEPT ![t] = CallSeen(t)']
         /\ CallSeen(t)' = CallSeen(t) => Calls' = Calls
         /\ \A u \in Threads: u # t => Held(u)' = Held(u)
<1>1. \A u \in Threads: u # t => CallSeen(u)' = CallSeen(u) /\ Held(u)' = Held(u)
  BY DEF Goto, TypeOK, CallSeen, Held
<1>2. pc[t] = from /\ pc'[t] = to
  BY DEF Goto, TypeOK
<1>. QED
  BY <1>1, <1>2 DEF Calls

\* A step that does not change what is held.
LEMMA HeldStays ==
  ASSUME \A u \in Threads: Held(u)' = Held(u)
  PROVE  Holder' = Holder /\ HeldDepth' = HeldDepth
<1>1. Holders' = Holders
  BY DEF Holders
<1>2. Holder' = Holder
  BY <1>1 DEF Holder
<1>3. CASE Holders = {}
  BY <1>1, <1>2, <1>3 DEF HeldDepth
<1>4. CASE Holders # {}
  <2>1. Holder \in Holders
    BY <1>4 DEF Holder
  <2>2. Held(Holder)' = Held(Holder)
    BY <1>2, <2>1 DEF Holders
  <2>. QED
    BY <1>1, <1>2, <2>2 DEF HeldDepth
<1>. QED
  BY <1>2, <1>3, <1>4

LEMMA UnseenStep ==
  ASSUME TypeOK, NEW t \in Threads, NEW from, NEW to, Goto(t, from, to),
         \A u \in Threads: u # t => depth'[u] = depth[u],
         Held(t)' = Held(t), CallSeen(t)' = CallSeen(t)
  PROVE  UNCHANGED Lock!vars
<1>1. Holder' = Holder /\ HeldDepth' = HeldDepth
  BY CallsChange, HeldStays
<1>2. Calls' = Calls
  BY CallsChange
<1>. QED
  BY <1>1, <1>2 DEF Lock!vars

\* A thread gets the lock, or gets it again, when nobody else has it.
LEMMA AcquireStep ==
  ASSUME RecursiveAssumption, IInv, IInv',
         NEW t \in Threads, NEW op \in {"lock", "try"}, NEW from, NEW to, Goto(t, from, to),
         \A u \in Threads: u # t => depth'[u] = depth[u],
         CallSeen(t) = op, CallSeen(t)' = "idle",
         Held(t)' = Held(t) + 1, Held(t) > 0 \/ Holders = {}
  PROVE  Lock!Next
<1>1. Held(t) \in Nat
  BY HolderIs
<1>2. Held(t)' > 0
  BY <1>1
<1>3. Holder' = t /\ HeldDepth' = Held(t)'
  <2>1. \A u \in Threads: Held(u)' > 0 => HasBaton(u)'
    BY DEF Held, HasBaton, IInv, TypeOK
  <2>2. \A u \in Threads: Held(u)' > 0 => u = t
    <3>1. ASSUME NEW u \in Threads, u # t, Held(u)' > 0
          PROVE  FALSE
      <4>1. Held(u) > 0
        BY <3>1, CallsChange DEF IInv
      <4>2. CASE Holders = {}
        BY <4>1, <4>2, <3>1 DEF Holders
      <4>3. CASE Held(t) > 0
        <5>1. HasBaton(u) /\ HasBaton(t)
          BY <4>1, <4>3, HolderIs
        <5>. QED
          BY <3>1, <5>1, BatonFacts DEF IInv
      <4>. QED
        BY <4>2, <4>3
    <3>. QED
      BY <3>1
  <2>3. Holders' = {t}
    BY <1>2, <2>2 DEF Holders
  <2>. QED
    BY <2>3 DEF Holder, HeldDepth
<1>4. Holder \in {NoThread, t} /\ HeldDepth = Held(t)
  <2>1. CASE Held(t) > 0
    BY <2>1, HolderIs
  <2>2. CASE ~ Held(t) > 0
    <3>1. Held(t) = 0 /\ Holders = {}
      BY <1>1, <2>2
    <3>. QED
      BY <3>1, HolderIs
  <2>. QED
    BY <2>1, <2>2
<1>5. Calls[t] = op /\ Calls' = [Calls EXCEPT ![t] = "idle"]
  BY CallsChange DEF IInv
<1>6. Lock!Acquire(t, op)
  BY <1>3, <1>4, <1>5 DEF Lock!Acquire, Lock!Become
<1>. QED
  BY <1>6 DEF Lock!Next

\* Nobody has the permit when nobody is counted, or when it lies in the semaphore.
LEMMA NobodyHolds ==
  ASSUME RecursiveAssumption, IInv, contention = 0 \/ semaphore > 0
  PROVE  Holders = {}
<1>1. ASSUME NEW t \in Threads, Held(t) > 0
      PROVE  FALSE
  <2>1. HasBaton(t)
    BY <1>1, HolderIs
  <2>. QED
    BY <2>1, BatonFacts DEF IInv, TypeOK
<1>. QED
  BY <1>1 DEF Holders

\* TryLock fails: somebody else has the lock or waits for it.
LEMMA FailStep ==
  ASSUME RecursiveAssumption, IInv, NEW t \in Threads, NEW from \in {"try_load", "try_exchange"},
         Goto(t, from, "idle"), depth' = depth, contention # 0
  PROVE  Lock!Next
<1>1. pc[t] = from /\ pc'[t] = "idle" /\ depth[t] = 0
  BY CallsChange DEF IInv, CallsFit
<1>2. Held(t) = 0 /\ Held(t)' = 0 /\ CallSeen(t) = "try" /\ CallSeen(t)' = "idle"
  BY <1>1 DEF Held, CallSeen
<1>3. Holder' = Holder /\ HeldDepth' = HeldDepth
  BY <1>2, CallsChange, HeldStays DEF IInv
<1>4. Holder # t
  BY <1>2, HolderIs
<1>5. Holder # NoThread \/ \E u \in Threads: Calls[u] = "lock"
  <2>1. \A u \in Threads: Held(u) > 0 => Holder # NoThread
    BY HolderIs DEF RecursiveAssumption
  <2>2. recursion # 0 \/ Counted # {}
    <3>1. contention = recursion + Cardinality(Counted) /\ recursion \in Nat
      BY BatonFacts DEF IInv, TypeOK
    <3>2. recursion # 0 \/ Cardinality(Counted) # 0
      BY <3>1
    <3>. QED
      BY <3>2, Finite, CountMembers
  <2>3. CASE recursion # 0
    <3>1. owner \in Threads /\ depth[owner] > 0 /\ depth[owner] \in Nat
      BY <2>3 DEF IInv, OwnerHolds, TypeOK
    <3>2. Held(owner) > 0
      BY <3>1 DEF Held
    <3>. QED
      BY <2>1, <3>1, <3>2
  <2>4. CASE Counted # {}
    <3>1. PICK u \in Threads: pc[u] \in {"check_owner", "waiting", "enter", "unlock_sub"}
      BY <2>4 DEF Counted
    <3>2. CASE pc[u] \in {"check_owner", "waiting"}
      <4>1. Calls[u] = "lock"
        BY <3>2 DEF Calls, CallSeen
      <4>. QED
        BY <4>1
    <3>3. CASE pc[u] \in {"enter", "unlock_sub"}
      <4>1. depth[u] \in Nat
        BY DEF IInv, TypeOK
      <4>2. Held(u) > 0
        BY <3>3, <4>1 DEF Held
      <4>. QED
        BY <2>1, <4>2
    <3>. QED
      BY <3>1, <3>2, <3>3
  <2>. QED
    BY <2>2, <2>3, <2>4
<1>6. Calls[t] = "try" /\ Calls' = [Calls EXCEPT ![t] = "idle"]
  BY <1>2, CallsChange DEF IInv
<1>7. Lock!Fail(t)
  BY <1>3, <1>4, <1>5, <1>6 DEF Lock!Fail, Lock!Become
<1>. QED
  BY <1>7 DEF Lock!Next

\* The count is given back, and with the last one the lock.
LEMMA ReleaseStep ==
  ASSUME RecursiveAssumption, IInv, NEW t \in Threads, NEW to \in {"idle", "check_recursion"},
         Goto(t, "unlock_sub", to), depth' = depth
  PROVE  Lock!Next
<1>1. pc[t] = "unlock_sub" /\ pc'[t] = to /\ depth[t] \in Nat
  BY CallsChange DEF IInv, TypeOK
<1>2. Held(t) = depth[t] + 1 /\ Held(t)' = depth[t]
  BY <1>1 DEF Held
<1>3. Holders = {t} /\ Holder = t /\ HeldDepth = Held(t)
  BY <1>1, <1>2, HolderIs
<1>4. \A u \in Threads: u # t => Held(u)' = Held(u) /\ ~ Held(u) > 0
  <2>1. \A u \in Threads: u # t => u \notin Holders
    BY <1>3
  <2>. QED
    BY <2>1, CallsChange DEF IInv, Holders
<1>5. CASE depth[t] = 0
  <2>1. Holders' = {}
    BY <1>2, <1>4, <1>5 DEF Holders
  <2>2. Holder' = NoThread /\ HeldDepth' = 0
    BY <2>1 DEF Holder, HeldDepth
  <2>. QED
    BY <1>1, <1>2, <1>3, <1>5, <2>2, CallsChange
    DEF Lock!Next, Lock!Release, Lock!Become, CallSeen, IInv
<1>6. CASE depth[t] # 0
  <2>1. Holders' = {t}
    BY <1>1, <1>2, <1>4, <1>6 DEF Holders
  <2>2. Holder' = t /\ HeldDepth' = Held(t)'
    BY <2>1 DEF Holder, HeldDepth
  <2>. QED
    BY <1>1, <1>2, <1>3, <1>6, <2>2, CallsChange
    DEF Lock!Next, Lock!Release, Lock!Become, CallSeen, IInv
<1>. QED
  BY <1>5, <1>6

LEMMA LockRefines ==
  ASSUME RecursiveAssumption, IInv, IInv', NEW t \in Threads,
         LockAdd(t) \/ CheckOwner(t) \/ SemaphoreWait(t) \/ Enter(t)
  PROVE  [Lock!Next]_(Lock!vars)
<1>0. depth[t] \in Nat
  BY DEF IInv, TypeOK
<1>1. CASE LockAdd(t)
  <2>1. CASE contention > 0
    <3>1. Goto(t, "lock", "check_owner") /\ depth' = depth
      BY <1>1, <2>1 DEF LockAdd
    <3>2. CallSeen(t)' = CallSeen(t) /\ Held(t)' = Held(t)
      BY <3>1, CallsChange DEF CallSeen, Held, IInv
    <3>. QED
      BY <3>1, <3>2, UnseenStep DEF IInv
  <2>2. CASE ~ contention > 0
    <3>1. Goto(t, "lock", "enter") /\ depth' = depth /\ contention = 0
      BY <1>1, <2>2 DEF LockAdd, IInv, TypeOK
    <3>2. CallSeen(t) = "lock" /\ CallSeen(t)' = "idle" /\ Held(t)' = Held(t) + 1
      BY <1>0, <3>1, CallsChange DEF CallSeen, Held, IInv
    <3>. QED
      BY <3>1, <3>2, NobodyHolds, AcquireStep
  <2>. QED
    BY <2>1, <2>2
<1>2. CASE CheckOwner(t)
  <2>1. CASE owner = t
    <3>1. Goto(t, "check_owner", "enter") /\ depth' = depth
      BY <1>2, <2>1 DEF CheckOwner
    <3>2. CallSeen(t) = "lock" /\ CallSeen(t)' = "idle" /\ Held(t)' = Held(t) + 1
      BY <1>0, <3>1, CallsChange DEF CallSeen, Held, IInv
    <3>3. Held(t) > 0
      BY <1>0, <2>1, <3>1, CallsChange DEF IInv, OwnerHolds, Held
    <3>. QED
      BY <3>1, <3>2, <3>3, AcquireStep
  <2>2. CASE owner # t
    <3>1. Goto(t, "check_owner", "waiting") /\ depth' = depth
      BY <1>2, <2>2 DEF CheckOwner
    <3>2. CallSeen(t)' = CallSeen(t) /\ Held(t)' = Held(t)
      BY <3>1, CallsChange DEF CallSeen, Held, IInv
    <3>. QED
      BY <3>1, <3>2, UnseenStep DEF IInv
  <2>. QED
    BY <2>1, <2>2
<1>3. CASE SemaphoreWait(t)
  <2>1. Goto(t, "waiting", "enter") /\ depth' = depth /\ semaphore > 0
    BY <1>3 DEF SemaphoreWait
  <2>2. CallSeen(t) = "lock" /\ CallSeen(t)' = "idle" /\ Held(t)' = Held(t) + 1
    BY <1>0, <2>1, CallsChange DEF CallSeen, Held, IInv
  <2>. QED
    BY <2>1, <2>2, NobodyHolds, AcquireStep
<1>4. CASE Enter(t)
  <2>1. /\ Goto(t, "enter", "idle") /\ depth'[t] = depth[t] + 1
        /\ \A u \in Threads: u # t => depth'[u] = depth[u]
    BY <1>4 DEF Enter, IInv, TypeOK
  <2>2. CallSeen(t)' = CallSeen(t) /\ Held(t)' = Held(t)
    BY <1>0, <2>1, CallsChange DEF CallSeen, Held, IInv
  <2>. QED
    BY <2>1, <2>2, UnseenStep DEF IInv
<1>. QED
  BY <1>1, <1>2, <1>3, <1>4

LEMMA TryRefines ==
  ASSUME RecursiveAssumption, IInv, IInv', NEW t \in Threads,
         TryOwner(t) \/ TryAdd(t) \/ TryLoad(t) \/ TryExchange(t)
  PROVE  [Lock!Next]_(Lock!vars)
<1>0. depth[t] \in Nat
  BY DEF IInv, TypeOK
<1>1. CASE TryOwner(t)
  <2>1. PICK to \in {"try_add", "try_load"}: Goto(t, "try", to) /\ depth' = depth
    BY <1>1 DEF TryOwner
  <2>2. CallSeen(t)' = CallSeen(t) /\ Held(t)' = Held(t)
    BY <2>1, CallsChange DEF CallSeen, Held, IInv
  <2>. QED
    BY <2>1, <2>2, UnseenStep DEF IInv
<1>2. CASE TryAdd(t)
  <2>1. /\ Goto(t, "try_add", "idle") /\ depth'[t] = depth[t] + 1 /\ depth[t] > 0
        /\ \A u \in Threads: u # t => depth'[u] = depth[u]
    BY <1>2 DEF TryAdd, IInv, TypeOK, CallsFit, Goto
  <2>2. CallSeen(t) = "try" /\ CallSeen(t)' = "idle" /\ Held(t)' = Held(t) + 1 /\ Held(t) > 0
    BY <1>0, <2>1, CallsChange DEF CallSeen, Held, IInv
  <2>. QED
    BY <2>1, <2>2, AcquireStep
<1>3. CASE TryLoad(t)
  <2>1. CASE contention # 0
    BY <1>3, <2>1, FailStep DEF TryLoad
  <2>2. CASE contention = 0
    <3>1. Goto(t, "try_load", "try_exchange") /\ depth' = depth
      BY <1>3, <2>2 DEF TryLoad
    <3>2. CallSeen(t)' = CallSeen(t) /\ Held(t)' = Held(t)
      BY <3>1, CallsChange DEF CallSeen, Held, IInv
    <3>. QED
      BY <3>1, <3>2, UnseenStep DEF IInv
  <2>. QED
    BY <2>1, <2>2
<1>4. CASE TryExchange(t)
  <2>1. CASE contention # 0
    BY <1>4, <2>1, FailStep DEF TryExchange
  <2>2. CASE contention = 0
    <3>1. Goto(t, "try_exchange", "enter") /\ depth' = depth
      BY <1>4, <2>2 DEF TryExchange
    <3>2. CallSeen(t) = "try" /\ CallSeen(t)' = "idle" /\ Held(t)' = Held(t) + 1
      BY <1>0, <3>1, CallsChange DEF CallSeen, Held, IInv
    <3>. QED
      BY <2>2, <3>1, <3>2, NobodyHolds, AcquireStep
  <2>. QED
    BY <2>1, <2>2
<1>. QED
  BY <1>1, <1>2, <1>3, <1>4

LEMMA UnlockRefines ==
  ASSUME RecursiveAssumption, IInv, IInv', NEW t \in Threads,
         Unlock(t) \/ UnlockSub(t) \/ CheckRecursion(t) \/ SemaphoreSignal(t)
  PROVE  [Lock!Next]_(Lock!vars)
<1>0. depth[t] \in Nat
  BY DEF IInv, TypeOK
<1>1. CASE Unlock(t)
  <2>1. /\ Goto(t, "idle", "unlock_sub") /\ depth'[t] = depth[t] - 1 /\ depth[t] > 0
        /\ \A u \in Threads: u # t => depth'[u] = depth[u]
    BY <1>1 DEF Unlock, IInv, TypeOK
  <2>2. CallSeen(t)' = CallSeen(t) /\ Held(t)' = Held(t)
    BY <1>0, <2>1, CallsChange DEF CallSeen, Held, IInv
  <2>. QED
    BY <2>1, <2>2, UnseenStep DEF IInv
<1>2. CASE UnlockSub(t)
  BY <1>2, ReleaseStep DEF UnlockSub
<1>3. ASSUME NEW from \in {"check_recursion", "signal"}, Goto(t, from, "idle"), depth' = depth
      PROVE  Lock!Next
  <2>1. /\ CallSeen(t) = "unlocked" /\ CallSeen(t)' = "idle" /\ Held(t)' = Held(t)
    BY <1>3, CallsChange DEF CallSeen, Held, IInv
  <2>2. Holder' = Holder /\ HeldDepth' = HeldDepth
    BY <1>3, <2>1, CallsChange, HeldStays DEF IInv
  <2>3. Lock!Return(t)
    BY <1>3, <2>1, <2>2, CallsChange DEF Lock!Return, Lock!Become, IInv
  <2>. QED
    BY <2>3 DEF Lock!Next
<1>4. CASE CheckRecursion(t)
  <2>1. CASE recursion = 0
    <3>1. Goto(t, "check_recursion", "signal") /\ depth' = depth
      BY <1>4, <2>1 DEF CheckRecursion
    <3>2. CallSeen(t)' = CallSeen(t) /\ Held(t)' = Held(t)
      BY <3>1, CallsChange DEF CallSeen, Held, IInv
    <3>. QED
      BY <3>1, <3>2, UnseenStep DEF IInv
  <2>2. CASE recursion # 0
    BY <1>3, <1>4, <2>2 DEF CheckRecursion
  <2>. QED
    BY <2>1, <2>2
<1>5. CASE SemaphoreSignal(t)
  BY <1>3, <1>5 DEF SemaphoreSignal
<1>. QED
  BY <1>1, <1>2, <1>4, <1>5

LEMMA NextRefines ==
  ASSUME RecursiveAssumption, IInv, IInv', [Next]_vars
  PROVE  [Lock!Next]_(Lock!vars)
<1>1. CASE UNCHANGED vars
  <2>1. (\A t \in Threads: Held(t)' = Held(t)) /\ Calls' = Calls
    BY <1>1 DEF vars, Held, Calls, CallSeen
  <2>. QED
    BY <2>1, HeldStays DEF Lock!vars
<1>2. ASSUME NEW t \in Threads, NEW op \in {"lock", "try"}, Call(t, op)
      PROVE  Lock!Next
  <2>1. Goto(t, "idle", op) /\ depth' = depth /\ depth[t] \in Nat /\ depth[t] < MaxDepth
    BY <1>2 DEF Call, IInv, TypeOK
  <2>2. /\ CallSeen(t) = "idle" /\ CallSeen(t)' = op
        /\ Held(t)' = Held(t) /\ Held(t) = depth[t]
    BY <2>1, CallsChange DEF CallSeen, Held, IInv
  <2>3. Holder' = Holder /\ HeldDepth' = HeldDepth
    BY <2>1, <2>2, CallsChange, HeldStays DEF IInv
  <2>4. Holder = t => HeldDepth < MaxDepth
    <3>1. Held(t) = 0 => Holder # t
      BY HolderIs
    <3>2. Held(t) > 0 => HeldDepth = Held(t)
      BY HolderIs
    <3>. QED
      BY <2>1, <2>2, <3>1, <3>2
  <2>5. Lock!Call(t, op)
    BY <2>1, <2>2, <2>3, <2>4, CallsChange DEF Lock!Call, Lock!Become, IInv
  <2>. QED
    BY <2>5 DEF Lock!Next
<1>. QED
  BY <1>1, <1>2, LockRefines, TryRefines, UnlockRefines DEF Next, InCall

\* A RecursiveBenaphore is a lock that its holder may take again: what its threads
\* see of it is a behaviour of ReentrantLock, whose steps are indivisible.
THEOREM RecursiveIsLock ==
  ASSUME RecursiveAssumption
  PROVE  Spec => ImplementsLock
<1>1. Init => Lock!Init
  <2>. SUFFICES ASSUME Init PROVE Lock!Init
    OBVIOUS
  <2>1. Holders = {} /\ Calls = [t \in Threads |-> "idle"]
    BY DEF Init, Holders, Held, Calls, CallSeen
  <2>. QED
    BY <2>1 DEF Lock!Init, Holder, HeldDepth
<1>2. IInv /\ IInv' /\ [Next]_vars => [Lock!Next]_(Lock!vars)
  BY NextRefines
<1>3. Spec => []IInv
  <2>1. Init => IInv
    BY InitIInv
  <2>2. IInv /\ [Next]_vars => IInv'
    BY NextIInv
  <2>. QED
    BY <2>1, <2>2, PTL DEF Spec
<1>. QED
  BY <1>1, <1>2, <1>3, PTL DEF Spec, ImplementsLock, Lock!Spec

---------------------------------------------------------------------------
\* PreshingSemaphore, for every finite set of threads, every amounts and every bound.
\* The invariant needs, besides, that a thread about to exchange the count has read
\* one that is positive, so that the exchange does not count a sleeper.
PreExchanging == {"try_exchange", "wait_exchange", "spin_exchange"}

\* The sleepers that have a permit in the system's semaphore, and those without one.
PreOwed == pSemaphore + (IF pSignalCount < 0 THEN -pSignalCount ELSE 0)

PreInv ==
  /\ Pre!TypeOK /\ Pre!SleepersAccountedFor
  /\ IsFiniteSet(Pre!OnTheWay)
  /\ \A t \in Threads: pPc[t] \in PreExchanging => pOldCount[t] > 0

\* The numbers SleepersAccountedFor is about.
LEMMA PreNumbers ==
  ASSUME ThreadingAssumptions, Pre!TypeOK
  PROVE  /\ IsFiniteSet(Pre!Asleep) /\ Cardinality(Pre!Asleep) \in Nat
         /\ Pre!Permits = pSignalCount + Cardinality(Pre!Asleep)
         /\ PreOwed \in Nat
         /\ IsFiniteSet(Pre!OnTheWay) => (Pre!SleepersAccountedFor <=>
              Cardinality(Pre!Asleep) = Cardinality(Pre!OnTheWay) + PreOwed)
<1>1. \A S: Pre!Cardinality(S) = Cardinality(S)
  BY DEF Pre!Cardinality, Cardinality
<1>2. IsFiniteSet(Threads) /\ Pre!Asleep \in SUBSET Threads
  BY ThreadingAssumptions DEF RecursiveAssumption, Pre!Asleep
<1>. QED
  BY <1>1, <1>2, FS_Subset, CountMembers
     DEF Pre!SleepersAccountedFor, Pre!Permits, PreOwed, Pre!TypeOK

\* What a step of one thread makes of the sleepers and of the permits on their way.
LEMMA PreMoves ==
  ASSUME ThreadingAssumptions, PreInv, NEW t \in Threads, NEW from, NEW to, Pre!Goto(t, from, to)
  PROVE  /\ pPc[t] = from /\ pPc'[t] = to
         /\ \A u \in Threads: u # t => pPc'[u] = pPc[u]
         /\ IsFiniteSet(Pre!Asleep') /\ Cardinality(Pre!Asleep') \in Nat
         /\ Cardinality(Pre!Asleep') = Cardinality(Pre!Asleep)
              + (IF to = "asleep" THEN 1 ELSE 0) - (IF from = "asleep" THEN 1 ELSE 0)
         /\ Cardinality(Pre!OnTheWay) \in Nat
         /\ "release" \notin {from, to} /\ UNCHANGED pToRelease => Pre!OnTheWay' = Pre!OnTheWay
<1>1. /\ pPc[t] = from /\ pPc'[t] = to
      /\ \A u \in Threads: u # t => pPc'[u] = pPc[u]
  BY DEF PreInv, Pre!TypeOK, Pre!Goto
<1>2. /\ \A u: u # t => (u \in Pre!Asleep <=> u \in Pre!Asleep')
      /\ t \in Pre!Asleep <=> from = "asleep"
      /\ t \in Pre!Asleep' <=> to = "asleep"
  BY <1>1 DEF Pre!Asleep
<1>3. IsFiniteSet(Pre!Asleep) /\ Cardinality(Pre!Asleep) \in Nat
  BY PreNumbers DEF PreInv
<1>4. /\ IsFiniteSet(Pre!Asleep') /\ Cardinality(Pre!Asleep') \in Nat
      /\ Cardinality(Pre!Asleep') = Cardinality(Pre!Asleep)
              + (IF to = "asleep" THEN 1 ELSE 0) - (IF from = "asleep" THEN 1 ELSE 0)
  BY <1>2, <1>3, CountMoves
<1>5. Cardinality(Pre!OnTheWay) \in Nat
  BY CountMembers DEF PreInv
<1>6. ASSUME "release" \notin {from, to}, UNCHANGED pToRelease
      PROVE  Pre!OnTheWay' = Pre!OnTheWay
  <2>1. Pre!Releasing' = Pre!Releasing
    BY <1>1, <1>6 DEF Pre!Releasing
  <2>. QED
    BY <1>6, <2>1 DEF Pre!OnTheWay
<1>. QED
  BY <1>1, <1>4, <1>5, <1>6

\* PreInv from the types, the numbers and what the thread that moved has read.
LEMMA PreStays ==
  ASSUME ThreadingAssumptions, PreInv, NEW t \in Threads, NEW from, NEW to, Pre!Goto(t, from, to),
         Pre!TypeOK', IsFiniteSet(Pre!OnTheWay'),
         \A u \in Threads: u # t => pOldCount'[u] = pOldCount[u],
         to \in PreExchanging => pOldCount'[t] > 0,
         Cardinality(Pre!Asleep') = Cardinality(Pre!OnTheWay') + PreOwed'
  PROVE  PreInv'
<1>1. (Pre!SleepersAccountedFor)'
  <2>1. \A S: Pre!Cardinality(S) = Cardinality(S)
    BY DEF Pre!Cardinality, Cardinality
  <2>2. pSemaphore' \in Nat /\ pSignalCount' \in Int /\ Cardinality(Pre!OnTheWay') \in Nat
    BY CountMembers DEF Pre!TypeOK
  <2>. QED
    BY <2>1, <2>2 DEF Pre!SleepersAccountedFor, PreOwed
<1>2. \A u \in Threads: pPc'[u] \in PreExchanging => pOldCount'[u] > 0
  BY PreMoves DEF PreInv
<1>. QED
  BY <1>1, <1>2 DEF PreInv, PreExchanging

\* A set of n pairs of one thread.
LEMMA Pairs ==
  ASSUME NEW t, NEW n \in Nat
  PROVE  IsFiniteSet({t} \X (1..n)) /\ Cardinality({t} \X (1..n)) = n
<1>1. IsFiniteSet({t}) /\ Cardinality({t}) = 1
  BY FS_Singleton
<1>2. IsFiniteSet(1..n) /\ Cardinality(1..n) = n
  BY FS_Interval
<1>3. /\ IsFiniteSet({t} \X (1..n))
      /\ Cardinality({t} \X (1..n)) = Cardinality({t}) * Cardinality(1..n)
  BY <1>1, <1>2, FS_Product
<1>. QED
  BY <1>1, <1>2, <1>3

\* A Signal puts permits aside for sleepers, and gives them to the system's semaphore.
LEMMA PreFetchAdd ==
  ASSUME ThreadingAssumptions, PreInv, NEW t \in Threads, NEW n \in Amounts, Pre!FetchAdd(t, n)
  PROVE  PreInv'
<1>. DEFINE release == IF -pSignalCount < n THEN -pSignalCount ELSE n
            to == IF release > 0 THEN "release" ELSE "done"
            aside == IF release > 0 THEN release ELSE 0
<1>0. /\ n \in Nat /\ n > 0 /\ pSignalCount \in Int /\ PreshingMax \in Nat /\ pSemaphore \in Nat
      /\ pPc \in [Threads -> {"idle", "wait", "try", "try_exchange", "wait_exchange",
                         "spin", "spin_exchange", "asleep", "release", "done", "failed"}]
      /\ pToRelease \in [Threads -> Nat]
  BY ThreadingAssumptions DEF PreInv, Pre!TypeOK, Pre!PreshingAssumption
<1>1. /\ Pre!Permits + n <= PreshingMax /\ pSignalCount' = pSignalCount + n
      /\ Pre!Goto(t, "idle", to)
      /\ pToRelease' = [pToRelease EXCEPT ![t] = aside]
      /\ UNCHANGED <<pSemaphore, pOldCount>>
  BY DEF Pre!FetchAdd
<1>2. aside \in Nat /\ to \in {"release", "done"} /\ (to = "release" <=> aside > 0)
  BY <1>0
<1>. HIDE DEF to
<1>3. Cardinality(Pre!Asleep) \in Nat /\ Cardinality(Pre!Asleep') = Cardinality(Pre!Asleep)
  BY <1>1, <1>2, PreMoves, PreNumbers DEF PreInv
<1>4. (Pre!TypeOK)'
  <2>1. pSignalCount' \in Int /\ pSignalCount' <= PreshingMax
    BY <1>0, <1>1, <1>3, PreNumbers DEF PreInv
  <2>2. pPc' \in [Threads -> {"idle", "wait", "try", "try_exchange", "wait_exchange",
                         "spin", "spin_exchange", "asleep", "release", "done", "failed"}]
    BY <1>0, <1>1, <1>2 DEF Pre!Goto
  <2>3. pToRelease' \in [Threads -> Nat]
    BY <1>0, <1>1, <1>2
  <2>. QED
    BY <1>0, <1>1, <2>1, <2>2, <2>3 DEF PreInv, Pre!TypeOK
<1>5. Pre!OnTheWay' = Pre!OnTheWay \cup ({t} \X (1..aside))
  <2>1. /\ \A u \in Threads: u # t => pToRelease'[u] = pToRelease[u] /\ pPc'[u] = pPc[u]
        /\ pPc[t] = "idle" /\ pPc'[t] = to /\ pToRelease'[t] = aside
    BY <1>0, <1>1, <1>2, PreMoves
  <2>2. Pre!Releasing' = IF to = "release" THEN Pre!Releasing \cup {t} ELSE Pre!Releasing
    BY <1>2, <2>1 DEF Pre!Releasing
  <2>3. t \notin Pre!Releasing /\ \A u \in Pre!Releasing: u \in Threads
    BY <2>1 DEF Pre!Releasing
  <2>4. to # "release" => 1..aside = {}
    BY <1>2
  <2>5. \A u \in Pre!Releasing: pToRelease'[u] = pToRelease[u]
    BY <2>1, <2>3
  <2>6. CASE to = "release"
    BY <2>1, <2>2, <2>5, <2>6 DEF Pre!OnTheWay
  <2>7. CASE to # "release"
    BY <2>2, <2>4, <2>5, <2>7 DEF Pre!OnTheWay
  <2>. QED
    BY <2>6, <2>7
<1>6. /\ IsFiniteSet(Pre!OnTheWay')
      /\ Cardinality(Pre!OnTheWay') = Cardinality(Pre!OnTheWay) + aside
  <2>1. IsFiniteSet({t} \X (1..aside)) /\ Cardinality({t} \X (1..aside)) = aside
    BY <1>2, Pairs
  <2>2. Pre!OnTheWay \cap ({t} \X (1..aside)) = {}
    <3>1. t \notin Pre!Releasing
      BY <1>1, PreMoves DEF Pre!Releasing
    <3>. QED
      BY <3>1 DEF Pre!OnTheWay
  <2>3. IsFiniteSet(Pre!OnTheWay) /\ Cardinality(Pre!OnTheWay) \in Nat
    BY CountMembers DEF PreInv
  <2>. HIDE DEF aside
  <2>4. Cardinality(Pre!OnTheWay \cap ({t} \X (1..aside))) = 0
    BY <2>2, FS_EmptySet
  <2>5. /\ IsFiniteSet(Pre!OnTheWay \cup ({t} \X (1..aside)))
        /\ Cardinality(Pre!OnTheWay \cup ({t} \X (1..aside))) =
             Cardinality(Pre!OnTheWay) + Cardinality({t} \X (1..aside))
               - Cardinality(Pre!OnTheWay \cap ({t} \X (1..aside)))
    BY <2>1, <2>3, FS_Union
  <2>. QED
    BY <1>2, <1>5, <2>1, <2>3, <2>4, <2>5
<1>7. Cardinality(Pre!Asleep') = Cardinality(Pre!OnTheWay') + PreOwed'
  <2>1. Cardinality(Pre!Asleep) = Cardinality(Pre!OnTheWay) + PreOwed
    BY PreNumbers DEF PreInv
  <2>2. Cardinality(Pre!OnTheWay) \in Nat
    BY CountMembers DEF PreInv
  <2>. QED
    BY <1>0, <1>1, <1>3, <1>6, <2>1, <2>2 DEF PreOwed
<1>8. to \notin PreExchanging
  BY <1>2 DEF PreExchanging
<1>. QED
  BY <1>1, <1>4, <1>6, <1>7, <1>8, PreStays

LEMMA PreSemaphoreSignal ==
  ASSUME ThreadingAssumptions, PreInv, NEW t \in Threads, Pre!SemaphoreSignal(t)
  PROVE  PreInv'
<1>0. pSignalCount \in Int /\ pSemaphore \in Nat /\ pToRelease \in [Threads -> Nat]
  BY DEF PreInv, Pre!TypeOK
<1>1. /\ Pre!Goto(t, "release", "done") /\ pSemaphore' = pSemaphore + pToRelease[t]
      /\ pToRelease' = [pToRelease EXCEPT ![t] = 0] /\ UNCHANGED <<pSignalCount, pOldCount>>
  BY DEF Pre!SemaphoreSignal
<1>2. (Pre!TypeOK)'
  BY <1>0, <1>1 DEF PreInv, Pre!TypeOK, Pre!Goto
<1>3. /\ pPc[t] = "release" /\ pPc'[t] = "done"
      /\ \A u \in Threads: u # t => pToRelease'[u] = pToRelease[u] /\ pPc'[u] = pPc[u]
      /\ Cardinality(Pre!Asleep') = Cardinality(Pre!Asleep)
      /\ Cardinality(Pre!Asleep) \in Nat
  BY <1>0, <1>1, PreMoves, PreNumbers DEF PreInv
<1>. DEFINE given == {t} \X (1..pToRelease[t])
<1>4. Pre!OnTheWay = Pre!OnTheWay' \cup given /\ Pre!OnTheWay' \cap given = {}
  <2>1. Pre!Releasing = Pre!Releasing' \cup {t} /\ t \notin Pre!Releasing'
    BY <1>3 DEF Pre!Releasing
  <2>2. \A u \in Pre!Releasing': pToRelease'[u] = pToRelease[u]
    BY <1>3, <2>1 DEF Pre!Releasing
  <2>. QED
    BY <2>1, <2>2 DEF Pre!OnTheWay
<1>5. /\ IsFiniteSet(Pre!OnTheWay')
      /\ Cardinality(Pre!OnTheWay') \in Nat
      /\ Cardinality(Pre!OnTheWay) = Cardinality(Pre!OnTheWay') + pToRelease[t]
  <2>1. IsFiniteSet(given) /\ Cardinality(given) = pToRelease[t]
    BY <1>0, Pairs
  <2>. HIDE DEF given
  <2>2. IsFiniteSet(Pre!OnTheWay)
    BY DEF PreInv
  <2>3. IsFiniteSet(Pre!OnTheWay')
    BY <1>4, <2>2, FS_Subset
  <2>4. Cardinality(Pre!OnTheWay' \cap given) = 0
    BY <1>4, FS_EmptySet
  <2>5. Cardinality(Pre!OnTheWay' \cup given) =
          Cardinality(Pre!OnTheWay') + Cardinality(given) - Cardinality(Pre!OnTheWay' \cap given)
    BY <2>1, <2>3, FS_Union
  <2>6. Cardinality(Pre!OnTheWay') \in Nat
    BY <2>3, CountMembers
  <2>. QED
    BY <1>0, <1>4, <2>1, <2>3, <2>4, <2>5, <2>6
<1>6. Cardinality(Pre!Asleep') = Cardinality(Pre!OnTheWay') + PreOwed'
  <2>1. Cardinality(Pre!Asleep) = Cardinality(Pre!OnTheWay) + PreOwed
    BY PreNumbers DEF PreInv
  <2>. QED
    BY <1>0, <1>1, <1>3, <1>5, <2>1 DEF PreOwed
<1>. QED
  BY <1>1, <1>2, <1>5, <1>6, PreStays DEF PreExchanging

\* The steps of a wait, and the end of a call.
LEMMA PreWaitStep ==
  ASSUME ThreadingAssumptions, PreInv, NEW t \in Threads,
         \/ Pre!Load(t) \/ Pre!CompareExchange(t) \/ Pre!FetchSub(t)
         \/ Pre!SemaphoreWait(t) \/ Pre!Return(t) \/ \E op \in {"wait", "try"}: Pre!Call(t, op)
  PROVE  PreInv'
<1>0. /\ pSignalCount \in Int /\ pSignalCount <= PreshingMax /\ pSemaphore \in Nat
      /\ pOldCount \in [Threads -> 0..PreshingMax] /\ PreshingMax \in Nat
      /\ Cardinality(Pre!OnTheWay) \in Nat /\ Cardinality(Pre!Asleep) \in Nat /\ PreOwed \in Nat
      /\ Cardinality(Pre!Asleep) = Cardinality(Pre!OnTheWay) + PreOwed
  BY ThreadingAssumptions, CountMembers, PreNumbers
  DEF PreInv, Pre!TypeOK, Pre!PreshingAssumption
<1>. DEFINE Places == {"idle", "wait", "try", "try_exchange", "wait_exchange",
                       "spin", "spin_exchange", "asleep", "done", "failed"}
\* All of them leave the permits on their way as they are.
<1>1. ASSUME NEW from \in Places, NEW to \in Places, Pre!Goto(t, from, to), UNCHANGED pToRelease,
             pSignalCount' \in Int, pSignalCount' <= PreshingMax, pSemaphore' \in Nat,
             pOldCount' \in [Threads -> 0..PreshingMax],
             \A u \in Threads: u # t => pOldCount'[u] = pOldCount[u],
             to \in PreExchanging => pOldCount'[t] > 0,
             PreOwed' \in Nat,
             PreOwed' = PreOwed + (IF to = "asleep" THEN 1 ELSE 0) - (IF from = "asleep" THEN 1 ELSE 0)
      PROVE  PreInv'
  <2>1. (Pre!TypeOK)'
    BY <1>1 DEF PreInv, Pre!TypeOK, Pre!Goto
  <2>2. "release" \notin {from, to}
    BY <1>1
  <2>3. /\ Pre!OnTheWay' = Pre!OnTheWay /\ Cardinality(Pre!Asleep') \in Nat
        /\ Cardinality(Pre!Asleep') = Cardinality(Pre!Asleep)
              + (IF to = "asleep" THEN 1 ELSE 0) - (IF from = "asleep" THEN 1 ELSE 0)
    BY <1>1, <2>2, PreMoves
  <2>4. Cardinality(Pre!Asleep') = Cardinality(Pre!OnTheWay') + PreOwed'
    <3>1. Cardinality(Pre!OnTheWay') = Cardinality(Pre!OnTheWay)
      BY <2>3
    <3>. QED
      BY <1>0, <1>1, <2>3, <3>1
  <2>5. IsFiniteSet(Pre!OnTheWay')
    BY <2>3 DEF PreInv
  <2>. QED
    BY <1>1, <2>1, <2>4, <2>5, PreStays
<1>2. ASSUME NEW from \in Places \ {"asleep"}, NEW to \in Places \ {"asleep"},
             Pre!Goto(t, from, to), UNCHANGED <<pToRelease, pSignalCount, pSemaphore>>,
             \/ pOldCount' = pOldCount /\ to \notin PreExchanging
             \/ pOldCount' = [pOldCount EXCEPT ![t] = 0] /\ to \notin PreExchanging
             \/ pOldCount' = [pOldCount EXCEPT ![t] = pSignalCount] /\ pSignalCount > 0
      PROVE  PreInv'
  <2>1. /\ pOldCount' \in [Threads -> 0..PreshingMax]
        /\ \A u \in Threads: u # t => pOldCount'[u] = pOldCount[u]
        /\ to \in PreExchanging => pOldCount'[t] > 0
    BY <1>0, <1>2
  <2>. QED
    BY <1>0, <1>1, <1>2, <2>1 DEF PreOwed
<1>3. CASE Pre!Load(t)
  <2>1. CASE pSignalCount > 0
    <3>1. /\ pPc[t] \in {"try", "wait", "spin"} /\ Pre!Exchange[pPc[t]] \in PreExchanging
          /\ Pre!Goto(t, pPc[t], Pre!Exchange[pPc[t]])
          /\ UNCHANGED <<pToRelease, pSignalCount, pSemaphore>>
          /\ pOldCount' = [pOldCount EXCEPT ![t] = pSignalCount]
      BY <1>3, <2>1 DEF Pre!Load, Pre!Exchange, PreExchanging
    <3>. QED
      BY <1>2, <2>1, <3>1 DEF PreExchanging
  <2>2. CASE ~ pSignalCount > 0
    <3>1. /\ pPc[t] \in {"try", "wait", "spin"} /\ Pre!Missed[pPc[t]] \in {"failed", "spin"}
          /\ Pre!Goto(t, pPc[t], Pre!Missed[pPc[t]])
          /\ UNCHANGED <<pToRelease, pSignalCount, pSemaphore>>
          /\ pOldCount' = [pOldCount EXCEPT ![t] = 0]
      BY <1>3, <2>2 DEF Pre!Load, Pre!Exchange, Pre!Missed
    <3>. QED
      BY <1>2, <3>1 DEF PreExchanging
  <2>. QED
    BY <2>1, <2>2
<1>4. CASE Pre!CompareExchange(t)
  <2>0. /\ pPc[t] \in PreExchanging /\ pOldCount' = [pOldCount EXCEPT ![t] = 0]
        /\ UNCHANGED <<pSemaphore, pToRelease>> /\ pOldCount[t] > 0
        /\ Pre!Missed[pPc[t]] \in {"failed", "spin"}
    BY <1>4 DEF Pre!CompareExchange, PreExchanging, PreInv, Pre!Missed
  <2>1. CASE pSignalCount = pOldCount[t]
    <3>1. pSignalCount' = pSignalCount - 1 /\ Pre!Goto(t, pPc[t], "done") /\ pSignalCount > 0
      BY <1>4, <2>0, <2>1 DEF Pre!CompareExchange
    <3>. QED
      BY <1>0, <1>1, <2>0, <3>1 DEF PreExchanging, PreOwed
  <2>2. CASE pSignalCount # pOldCount[t]
    <3>1. pSignalCount' = pSignalCount /\ Pre!Goto(t, pPc[t], Pre!Missed[pPc[t]])
      BY <1>4, <2>2 DEF Pre!CompareExchange
    <3>. QED
      BY <1>2, <2>0, <3>1 DEF PreExchanging
  <2>. QED
    BY <2>1, <2>2
<1>5. CASE Pre!FetchSub(t)
  <2>1. /\ Pre!Goto(t, "spin", IF pSignalCount <= 0 THEN "asleep" ELSE "done")
        /\ pSignalCount' = pSignalCount - 1 /\ UNCHANGED <<pSemaphore, pOldCount, pToRelease>>
    BY <1>5 DEF Pre!FetchSub
  <2>2. CASE pSignalCount <= 0
    <3>1. Pre!Goto(t, "spin", "asleep")
      BY <2>1, <2>2
    <3>. QED
      BY <1>0, <1>1, <2>1, <2>2, <3>1 DEF PreExchanging, PreOwed
  <2>3. CASE ~ pSignalCount <= 0
    <3>1. Pre!Goto(t, "spin", "done")
      BY <2>1, <2>3
    <3>. QED
      BY <1>0, <1>1, <2>1, <2>3, <3>1 DEF PreExchanging, PreOwed
  <2>. QED
    BY <2>2, <2>3
<1>6. CASE Pre!SemaphoreWait(t)
  <2>1. /\ Pre!Goto(t, "asleep", "done") /\ pSemaphore > 0 /\ pSemaphore' = pSemaphore - 1
        /\ UNCHANGED <<pSignalCount, pOldCount, pToRelease>>
    BY <1>6 DEF Pre!SemaphoreWait
  <2>. QED
    BY <1>0, <1>1, <2>1 DEF PreExchanging, PreOwed
<1>7. CASE Pre!Return(t)
  BY <1>2, <1>7 DEF Pre!Return, PreExchanging
<1>8. CASE \E op \in {"wait", "try"}: Pre!Call(t, op)
  BY <1>2, <1>8 DEF Pre!Call, PreExchanging
<1>. QED
  BY <1>3, <1>4, <1>5, <1>6, <1>7, <1>8

LEMMA PreInductive ==
  ASSUME ThreadingAssumptions
  PROVE  Pre!Spec => []PreInv
<1>1. Pre!Init => PreInv
  <2>. SUFFICES ASSUME Pre!Init PROVE PreInv
    OBVIOUS
  <2>1. Pre!TypeOK /\ \A t \in Threads: pPc[t] = "idle"
    BY ThreadingAssumptions DEF Pre!Init, Pre!TypeOK, Pre!PreshingAssumption
  <2>2. Pre!Asleep = {} /\ Pre!OnTheWay = {}
    BY <2>1 DEF Pre!Asleep, Pre!OnTheWay, Pre!Releasing
  <2>3. pSemaphore = 0 /\ pSignalCount = 0
    BY DEF Pre!Init
  <2>4. IsFiniteSet(Pre!OnTheWay) /\ Cardinality(Pre!OnTheWay) = 0 /\ Cardinality(Pre!Asleep) = 0
    BY <2>2, FS_EmptySet
  <2>5. Pre!SleepersAccountedFor
    BY <2>1, <2>3, <2>4, PreNumbers DEF PreOwed
  <2>. QED
    BY <2>1, <2>4, <2>5 DEF PreInv, PreExchanging
<1>2. PreInv /\ [Pre!Next]_(Pre!vars) => PreInv'
  <2>. SUFFICES ASSUME PreInv, [Pre!Next]_(Pre!vars) PROVE PreInv'
    OBVIOUS
  <2>1. CASE UNCHANGED Pre!vars
    BY <2>1 DEF Pre!vars, PreInv, Pre!TypeOK, Pre!SleepersAccountedFor, Pre!Asleep,
                Pre!OnTheWay, Pre!Releasing
  <2>2. CASE Pre!Next
    BY <2>2, PreWaitStep, PreFetchAdd, PreSemaphoreSignal DEF Pre!Next, Pre!Step
  <2>. QED
    BY <2>1, <2>2
<1>. QED
  BY <1>1, <1>2, PTL DEF Pre!Spec


---------------------------------------------------------------------------
\* Refinement: what a step of one thread makes of the call that is seen.
LEMMA PreSeen ==
  ASSUME ThreadingAssumptions, PreInv, NEW t \in Threads, NEW from, NEW to, Pre!Goto(t, from, to)
  PROVE  /\ pPc[t] = from /\ pPc'[t] = to
         /\ [u \in Threads |-> Pre!CallSeen(u)][t] = Pre!CallSeen(t)
         /\ [u \in Threads |-> Pre!CallSeen(u)]' =
              [[u \in Threads |-> Pre!CallSeen(u)] EXCEPT ![t] = Pre!CallSeen(t)']
         /\ Pre!CallSeen(t)' = Pre!CallSeen(t) =>
              UNCHANGED [u \in Threads |-> Pre!CallSeen(u)]
<1>1. \A u \in Threads: u # t => Pre!CallSeen(u)' = Pre!CallSeen(u)
  BY PreMoves DEF Pre!CallSeen
<1>2. pPc[t] = from /\ pPc'[t] = to
  BY PreMoves
<1>3. /\ [u \in Threads |-> Pre!CallSeen(u)]' =
           [[u \in Threads |-> Pre!CallSeen(u)] EXCEPT ![t] = Pre!CallSeen(t)']
      /\ Pre!CallSeen(t)' = Pre!CallSeen(t) => UNCHANGED [u \in Threads |-> Pre!CallSeen(u)]
  BY <1>1
<1>. QED
  BY <1>2, <1>3

\* What it makes of the permits.
LEMMA PrePermits ==
  ASSUME ThreadingAssumptions, PreInv, NEW t \in Threads, NEW from, NEW to, Pre!Goto(t, from, to),
         pSignalCount' \in Int
  PROVE  /\ Pre!Permits \in Int /\ Pre!Permits' \in Int
         /\ Pre!Permits' - pSignalCount' = Pre!Permits - pSignalCount
              + (IF to = "asleep" THEN 1 ELSE 0) - (IF from = "asleep" THEN 1 ELSE 0)
         /\ pSignalCount' = pSignalCount /\ from # "asleep" /\ to # "asleep" =>
              Pre!Permits' = Pre!Permits
<1>1. /\ Pre!Permits = pSignalCount + Cardinality(Pre!Asleep)
      /\ Pre!Permits' = pSignalCount' + Cardinality(Pre!Asleep')
  <2>1. \A S: Pre!Cardinality(S) = Cardinality(S)
    BY DEF Pre!Cardinality, Cardinality
  <2>. QED
    BY <2>1 DEF Pre!Permits
<1>2. /\ Cardinality(Pre!Asleep) \in Nat /\ Cardinality(Pre!Asleep') \in Nat
      /\ Cardinality(Pre!Asleep') = Cardinality(Pre!Asleep)
           + (IF to = "asleep" THEN 1 ELSE 0) - (IF from = "asleep" THEN 1 ELSE 0)
      /\ pSignalCount \in Int
  BY PreMoves, PreNumbers DEF PreInv, Pre!TypeOK
<1>. QED
  BY <1>1, <1>2

\* A thread that takes the count, or finds a permit in the system's semaphore.
LEMMA PreTakes ==
  ASSUME ThreadingAssumptions, PreInv, NEW t \in Threads, NEW from, NEW to, Pre!Goto(t, from, to),
         Pre!CallSeen(t) \in {"wait", "try"}, Pre!CallSeen(t)' = "done",
         Pre!Permits > 0, Pre!Permits' = Pre!Permits - 1
  PROVE  Pre!CountingSpec!Next
<1>1. Pre!CountingSpec!Take(t, Pre!CallSeen(t))
  BY PreSeen DEF Pre!CountingSpec!Take, Pre!CountingSpec!Become
<1>. QED
  BY <1>1 DEF Pre!CountingSpec!Next

\* A TryWait that fails, and a step that is not seen.
LEMMA PreMisses ==
  ASSUME ThreadingAssumptions, PreInv, NEW t \in Threads, NEW from, NEW to, Pre!Goto(t, from, to),
         \/ Pre!CallSeen(t) = "try" /\ Pre!CallSeen(t)' = "failed"
         \/ Pre!CallSeen(t)' = Pre!CallSeen(t),
         Pre!Permits' = Pre!Permits
  PROVE  [Pre!CountingSpec!Next]_(Pre!CountingSpec!vars)
<1>1. CASE Pre!CallSeen(t) = "try" /\ Pre!CallSeen(t)' = "failed"
  <2>1. Pre!CountingSpec!Fail(t, "try")
    BY <1>1, PreSeen DEF Pre!CountingSpec!Fail, Pre!CountingSpec!Become
  <2>. QED
    BY <2>1 DEF Pre!CountingSpec!Next
<1>2. CASE Pre!CallSeen(t)' = Pre!CallSeen(t)
  BY <1>2, PreSeen DEF Pre!CountingSpec!vars
<1>. QED
  BY <1>1, <1>2

LEMMA PreRefines ==
  ASSUME ThreadingAssumptions, PreInv, [Pre!Next]_(Pre!vars)
  PROVE  [Pre!CountingSpec!Next]_(Pre!CountingSpec!vars)
<1>0. /\ pSignalCount \in Int /\ pSemaphore \in Nat
      /\ Pre!Permits = pSignalCount + Cardinality(Pre!Asleep) /\ Cardinality(Pre!Asleep) \in Nat
      /\ Cardinality(Pre!Asleep) = Cardinality(Pre!OnTheWay) + PreOwed
      /\ Cardinality(Pre!OnTheWay) \in Nat
  BY PreNumbers, CountMembers DEF PreInv, Pre!TypeOK
<1>1. CASE UNCHANGED Pre!vars
  BY <1>1 DEF Pre!vars, Pre!CountingSpec!vars, Pre!Permits, Pre!Asleep, Pre!CallSeen
<1>2. ASSUME NEW t \in Threads, NEW op \in {"wait", "try"}, Pre!Call(t, op)
      PROVE  Pre!CountingSpec!Next
  <2>1. Pre!Goto(t, "idle", op) /\ pSignalCount' = pSignalCount
    BY <1>2 DEF Pre!Call
  <2>2. /\ Pre!CallSeen(t) = "idle" /\ Pre!CallSeen(t)' = op
        /\ Pre!Permits' = Pre!Permits
    <3>1. Pre!Permits' = Pre!Permits
      BY <1>0, <2>1, PrePermits
    <3>2. Pre!CallSeen(t) = "idle" /\ Pre!CallSeen(t)' = op
      BY <2>1, PreMoves DEF Pre!CallSeen
    <3>. QED
      BY <3>1, <3>2
  <2>3. Pre!CountingSpec!Call(t, op)
    BY <2>1, <2>2, PreSeen DEF Pre!CountingSpec!Call, Pre!CountingSpec!Become
  <2>. QED
    BY <2>3 DEF Pre!CountingSpec!Next
<1>3. ASSUME NEW t \in Threads, NEW n \in Amounts, Pre!FetchAdd(t, n)
      PROVE  Pre!CountingSpec!Next
  <2>0. n \in Nat
    BY ThreadingAssumptions DEF Pre!PreshingAssumption
  <2>1. PICK to \in {"release", "done"}: Pre!Goto(t, "idle", to)
    BY <1>3 DEF Pre!FetchAdd
  <2>2. pSignalCount' = pSignalCount + n /\ Pre!Permits + n <= PreshingMax
    BY <1>3 DEF Pre!FetchAdd
  <2>3. /\ Pre!CallSeen(t) = "idle" /\ Pre!CallSeen(t)' = "done"
        /\ Pre!Permits' = Pre!Permits + n
    <3>1. Pre!Permits' = Pre!Permits + n
      BY <1>0, <2>0, <2>1, <2>2, PrePermits
    <3>2. Pre!CallSeen(t) = "idle" /\ Pre!CallSeen(t)' = "done"
      BY <2>0, <2>1, <2>2, PreMoves DEF Pre!CallSeen
    <3>. QED
      BY <3>1, <3>2
  <2>4. Pre!CountingSpec!Signal(t, n)
    BY <2>1, <2>2, <2>3, PreSeen DEF Pre!CountingSpec!Signal, Pre!CountingSpec!Become
  <2>. QED
    BY <2>4 DEF Pre!CountingSpec!Next
<1>4. ASSUME NEW t \in Threads, Pre!Load(t)
      PROVE  [Pre!CountingSpec!Next]_(Pre!CountingSpec!vars)
  <2>1. PICK to: /\ Pre!Goto(t, pPc[t], to)
                 /\ \/ pPc[t] = "try" /\ to \in {"try_exchange", "failed"}
                    \/ pPc[t] \in {"wait", "spin"} /\ to \in {"wait_exchange", "spin_exchange", "spin"}
    BY <1>4 DEF Pre!Load, Pre!Exchange, Pre!Missed
  <2>2. pSignalCount' = pSignalCount
    BY <1>4 DEF Pre!Load
  <2>3. /\ Pre!Permits' = Pre!Permits
        /\ \/ Pre!CallSeen(t) = "try" /\ Pre!CallSeen(t)' = "failed"
           \/ Pre!CallSeen(t)' = Pre!CallSeen(t)
    <3>1. Pre!Permits' = Pre!Permits
      BY <1>0, <2>1, <2>2, PrePermits
    <3>2. \/ Pre!CallSeen(t) = "try" /\ Pre!CallSeen(t)' = "failed"
          \/ Pre!CallSeen(t)' = Pre!CallSeen(t)
      BY <2>1, <2>2, PreMoves DEF Pre!CallSeen
    <3>. QED
      BY <3>1, <3>2
  <2>. QED
    BY <2>1, <2>3, PreMisses
<1>5. ASSUME NEW t \in Threads, Pre!CompareExchange(t)
      PROVE  [Pre!CountingSpec!Next]_(Pre!CountingSpec!vars)
  <2>0. pPc[t] \in PreExchanging /\ pOldCount[t] > 0
    BY <1>5 DEF Pre!CompareExchange, PreInv, PreExchanging
  <2>1. CASE pSignalCount = pOldCount[t]
    <3>1. /\ Pre!Goto(t, pPc[t], "done") /\ pSignalCount' = pSignalCount - 1 /\ pSignalCount > 0
      BY <1>5, <2>0, <2>1 DEF Pre!CompareExchange
    <3>2. /\ Pre!CallSeen(t) \in {"wait", "try"} /\ Pre!CallSeen(t)' = "done"
          /\ Pre!Permits' = Pre!Permits - 1 /\ Pre!Permits > 0
      <4>1. Pre!Permits' = Pre!Permits - 1 /\ Pre!Permits > 0
        BY <1>0, <2>0, <3>1, PrePermits DEF PreExchanging
      <4>2. Pre!CallSeen(t) \in {"wait", "try"} /\ Pre!CallSeen(t)' = "done"
        BY <2>0, <3>1, PreMoves DEF Pre!CallSeen, PreExchanging
      <4>. QED
        BY <4>1, <4>2
    <3>. QED
      BY <3>1, <3>2, PreTakes
  <2>2. CASE pSignalCount # pOldCount[t]
    <3>1. PICK to: /\ Pre!Goto(t, pPc[t], to)
                   /\ \/ pPc[t] = "try_exchange" /\ to = "failed"
                      \/ pPc[t] # "try_exchange" /\ to = "spin"
      BY <1>5, <2>0, <2>2 DEF Pre!CompareExchange, Pre!Missed, PreExchanging
    <3>2. pSignalCount' = pSignalCount
      BY <1>5, <2>2 DEF Pre!CompareExchange
    <3>3. /\ Pre!Permits' = Pre!Permits
          /\ \/ Pre!CallSeen(t) = "try" /\ Pre!CallSeen(t)' = "failed"
             \/ Pre!CallSeen(t)' = Pre!CallSeen(t)
      <4>1. Pre!Permits' = Pre!Permits
        BY <1>0, <2>0, <3>1, <3>2, PrePermits DEF PreExchanging
      <4>2. \/ Pre!CallSeen(t) = "try" /\ Pre!CallSeen(t)' = "failed"
            \/ Pre!CallSeen(t)' = Pre!CallSeen(t)
        BY <2>0, <3>1, <3>2, PreMoves DEF Pre!CallSeen, PreExchanging
      <4>. QED
        BY <4>1, <4>2
    <3>. QED
      BY <3>1, <3>3, PreMisses
  <2>. QED
    BY <2>1, <2>2
<1>6. ASSUME NEW t \in Threads, Pre!FetchSub(t)
      PROVE  [Pre!CountingSpec!Next]_(Pre!CountingSpec!vars)
  <2>1. pSignalCount' = pSignalCount - 1
    BY <1>6 DEF Pre!FetchSub
  <2>2. CASE pSignalCount <= 0
    <3>1. Pre!Goto(t, "spin", "asleep")
      BY <1>6, <2>2 DEF Pre!FetchSub
    <3>2. Pre!Permits' = Pre!Permits /\ Pre!CallSeen(t)' = Pre!CallSeen(t)
      <4>1. Pre!Permits' = Pre!Permits
        BY <1>0, <2>1, <3>1, PrePermits
      <4>2. Pre!CallSeen(t)' = Pre!CallSeen(t)
        BY <2>1, <3>1, PreMoves DEF Pre!CallSeen
      <4>. QED
        BY <4>1, <4>2
    <3>. QED
      BY <3>1, <3>2, PreMisses
  <2>3. CASE ~ pSignalCount <= 0
    <3>1. Pre!Goto(t, "spin", "done")
      BY <1>6, <2>3 DEF Pre!FetchSub
    <3>2. /\ Pre!CallSeen(t) = "wait" /\ Pre!CallSeen(t)' = "done"
          /\ Pre!Permits' = Pre!Permits - 1 /\ Pre!Permits > 0
      <4>1. Pre!Permits' = Pre!Permits - 1 /\ Pre!Permits > 0
        BY <1>0, <2>1, <2>3, <3>1, PrePermits
      <4>2. Pre!CallSeen(t) = "wait" /\ Pre!CallSeen(t)' = "done"
        BY <2>1, <2>3, <3>1, PreMoves DEF Pre!CallSeen
      <4>. QED
        BY <4>1, <4>2
    <3>. QED
      BY <3>1, <3>2, PreTakes
  <2>. QED
    BY <2>2, <2>3
<1>7. ASSUME NEW t \in Threads, Pre!SemaphoreWait(t)
      PROVE  Pre!CountingSpec!Next
  <2>1. Pre!Goto(t, "asleep", "done") /\ pSemaphore > 0 /\ pSignalCount' = pSignalCount
    BY <1>7 DEF Pre!SemaphoreWait
  <2>2. Pre!Permits > 0
    BY <1>0, <2>1 DEF PreOwed
  <2>3. /\ Pre!CallSeen(t) = "wait" /\ Pre!CallSeen(t)' = "done"
        /\ Pre!Permits' = Pre!Permits - 1
    <3>1. Pre!Permits' = Pre!Permits - 1
      BY <1>0, <2>1, PrePermits
    <3>2. Pre!CallSeen(t) = "wait" /\ Pre!CallSeen(t)' = "done"
      BY <2>1, PreMoves DEF Pre!CallSeen
    <3>. QED
      BY <3>1, <3>2
  <2>. QED
    BY <2>1, <2>2, <2>3, PreTakes
<1>8. ASSUME NEW t \in Threads, Pre!SemaphoreSignal(t)
      PROVE  [Pre!CountingSpec!Next]_(Pre!CountingSpec!vars)
  <2>1. Pre!Goto(t, "release", "done") /\ pSignalCount' = pSignalCount
    BY <1>8 DEF Pre!SemaphoreSignal
  <2>2. Pre!Permits' = Pre!Permits /\ Pre!CallSeen(t)' = Pre!CallSeen(t)
    <3>1. Pre!Permits' = Pre!Permits
      BY <1>0, <2>1, PrePermits
    <3>2. Pre!CallSeen(t)' = Pre!CallSeen(t)
      BY <2>1, PreMoves DEF Pre!CallSeen
    <3>. QED
      BY <3>1, <3>2
  <2>. QED
    BY <2>1, <2>2, PreMisses
<1>9. ASSUME NEW t \in Threads, Pre!Return(t)
      PROVE  Pre!CountingSpec!Next
  <2>1. PICK from \in {"done", "failed"}: Pre!Goto(t, from, "idle")
    BY <1>9 DEF Pre!Return
  <2>2. pSignalCount' = pSignalCount
    BY <1>9 DEF Pre!Return
  <2>3. /\ Pre!CallSeen(t) = from /\ Pre!CallSeen(t)' = "idle"
        /\ Pre!Permits' = Pre!Permits
    <3>1. Pre!Permits' = Pre!Permits
      BY <1>0, <2>1, <2>2, PrePermits
    <3>2. Pre!CallSeen(t) = from /\ Pre!CallSeen(t)' = "idle"
      BY <2>1, <2>2, PreMoves DEF Pre!CallSeen
    <3>. QED
      BY <3>1, <3>2
  <2>4. Pre!CountingSpec!Return(t)
    BY <2>1, <2>3, PreSeen DEF Pre!CountingSpec!Return, Pre!CountingSpec!Become
  <2>. QED
    BY <2>4 DEF Pre!CountingSpec!Next
<1>. QED
  BY <1>1, <1>2, <1>3, <1>4, <1>5, <1>6, <1>7, <1>8, <1>9 DEF Pre!Next, Pre!Step

\* The two counts of a PreshingSemaphore are one counting semaphore, whatever the
\* interleaving of their two atomic operations.
LEMMA PreIsCounting ==
  ASSUME ThreadingAssumptions
  PROVE  Pre!Spec => Pre!ImplementsPermits
<1>1. Pre!Init => Pre!CountingSpec!Init
  <2>. SUFFICES ASSUME Pre!Init PROVE Pre!CountingSpec!Init
    OBVIOUS
  <2>1. Pre!Permits = 0
    <3>1. Pre!Asleep = {} /\ pSignalCount = 0
      BY DEF Pre!Init, Pre!Asleep
    <3>2. Pre!Cardinality(Pre!Asleep) = Cardinality(Pre!Asleep)
      BY DEF Pre!Cardinality, Cardinality
    <3>. QED
      BY <3>1, <3>2, FS_EmptySet DEF Pre!Permits
  <2>2. [t \in Threads |-> Pre!CallSeen(t)] = [t \in Threads |-> "idle"]
    BY DEF Pre!Init, Pre!CallSeen
  <2>. QED
    BY <2>1, <2>2 DEF Pre!CountingSpec!Init
<1>2. PreInv /\ [Pre!Next]_(Pre!vars) => [Pre!CountingSpec!Next]_(Pre!CountingSpec!vars)
  BY PreRefines
<1>. QED
  BY <1>1, <1>2, PreInductive, PTL DEF Pre!Spec, Pre!ImplementsPermits, Pre!CountingSpec!Spec

---------------------------------------------------------------------------
(* The thread table.  An entry is taken out by the handle in it, so it is  *)
(* never the entry of a thread that is still to be joined; and one that is *)
(* given out again makes its thread an overtaken one.  Whatever else the   *)
(* table holds, every other thread keeps the entry it was given.           *)
Keepers == Table!Live \ tOvertaken
EntriesKept ==
  \A h \in Keepers : tLiveThreads[tInfo[h]] = [handle |-> h, job |-> tJob[h]]

TableCounts == tThreadCount = Cardinality(Table!Live) + tMissed

TableInv == Table!TypeOK /\ TableCounts /\ EntriesKept

\* A thread with an entry has a first one, which is what JoinThread takes out.
LEMMA FirstEntry ==
  ASSUME Table!TableAssumption, Table!TypeOK, EntriesKept, NEW h \in Keepers
  PROVE  Table!EntryOf(h) # {}
<1>. DEFINE found == {i \in Table!Entries : tLiveThreads[i].handle = h}
<1>1. found \in SUBSET Nat /\ tInfo[h] \in found
  <2>1. Table!Entries \in SUBSET Nat
    BY DEF Table!TableAssumption, Table!Entries
  <2>2. h \in Handles /\ tInfo[h] \in Table!Entries
    BY DEF Keepers, Table!Live, Table!TypeOK
  <2>3. tLiveThreads[tInfo[h]] = [handle |-> h, job |-> tJob[h]]
    BY DEF EntriesKept
  <2>4. tLiveThreads[tInfo[h]].handle = h
    BY <2>3
  <2>. QED
    BY <2>1, <2>2, <2>4
<1>2. PICK i \in found : \A k \in found : i <= k
  BY <1>1, LeastNumber
<1>3. \A k \in Table!Entries : k < i => tLiveThreads[k].handle # h
  <2>. SUFFICES ASSUME NEW k \in Table!Entries, k < i, tLiveThreads[k].handle = h PROVE FALSE
    OBVIOUS
  <2>. QED
    BY <1>1, <1>2
<1>4. i \in Table!EntryOf(h)
  BY <1>2, <1>3 DEF Table!EntryOf
<1>. QED
  BY <1>4

LEMMA TableNumbers ==
  ASSUME Table!TableAssumption
  PROVE  /\ IsFiniteSet(Table!Live) /\ Cardinality(Table!Live) \in Nat
         /\ TableCapacity \in Nat \ {0}
<1>1. Table!Live \in SUBSET Handles
  BY DEF Table!Live
<1>. QED
  <2>1. IsFiniteSet(Handles) /\ TableCapacity \in Nat \ {0}
    BY DEF Table!TableAssumption, Table!IsFiniteSet, IsFiniteSet
  <2>. QED
    BY <1>1, <2>1, FS_Subset, FS_CardinalityType

LEMMA TableInit ==
  ASSUME Table!TableAssumption, Table!Init
  PROVE  TableInv
<1>1. Table!Live = {}
  BY DEF Table!Init, Table!Live
<1>2. Table!TypeOK
  BY DEF Table!Init, Table!TypeOK, Table!Entries, Table!Cleared, Table!TableAssumption
<1>3. TableCounts
  BY <1>1, FS_EmptySet DEF Table!Init, TableCounts
<1>. QED
  BY <1>1, <1>2, <1>3 DEF TableInv, EntriesKept, Keepers

LEMMA CreateThreadStep ==
  ASSUME Table!TableAssumption, TableInv, NEW h \in Handles, NEW j \in Jobs,
         Table!CreateThread(h, j)
  PROVE  TableInv'
<1>. USE DEF TableInv
<1>1. Table!TypeOK'
  <2>1. tOvertaken' \subseteq Handles /\ tMissed' \in Nat
    BY DEF Table!TypeOK, Table!CreateThread, Table!Live
  <2>2. /\ tLiveThreads' \in [Table!Entries -> [handle : Handles \cup {NoHandle},
                                               job : Jobs \cup {NoJob, Garbage}]]
        /\ tThreadCount' \in 0..TableCapacity
        /\ tInfo' \in [Handles -> Table!Entries]
    BY TableNumbers DEF Table!TypeOK, Table!CreateThread, Table!Entries
  <2>3. /\ tState' \in [Handles -> {"none", "created", "running", "exited"}]
        /\ tJob' \in [Handles -> Jobs \cup {NoJob}]
        /\ UNCHANGED <<tRan, tJoining>>
    BY DEF Table!TypeOK, Table!CreateThread
  <2>. QED
    BY <2>1, <2>2, <2>3 DEF Table!TypeOK
<1>2. /\ h \notin Table!Live /\ h \in Table!Live'
      /\ \A g \in Handles : g # h => (g \in Table!Live <=> g \in Table!Live')
  BY DEF Table!CreateThread, Table!Live, Table!TypeOK, Table!TableAssumption
<1>3. TableCounts'
  <2>1. \A g : g # h => (g \in Table!Live <=> g \in Table!Live')
    BY <1>2 DEF Table!Live
  <2>2. Cardinality(Table!Live') = Cardinality(Table!Live) + 1
    BY <2>1, <1>2, TableNumbers, CountMoves
  <2>. QED
    BY <2>2, TableNumbers DEF TableCounts, Table!CreateThread, Table!TypeOK
<1>4. EntriesKept'
  <2>. SUFFICES ASSUME NEW g \in Keepers'
                PROVE  tLiveThreads'[tInfo'[g]] = [handle |-> g, job |-> tJob'[g]]
    BY DEF EntriesKept
  <2>. g \in Handles
    BY DEF Keepers, Table!Live
  <2>1. CASE g = h
    <3>1. tThreadCount \in Table!Entries
      BY TableNumbers DEF Table!CreateThread, Table!TypeOK, Table!Entries
    <3>2. /\ tLiveThreads'[tThreadCount] = [handle |-> h, job |-> j]
          /\ tInfo'[h] = tThreadCount /\ tJob'[h] = j
      BY <3>1 DEF Table!CreateThread, Table!TypeOK
    <3>. QED
      BY <2>1, <3>2
  <2>2. CASE g # h
    <3>1. /\ g \in Table!Live \ tOvertaken /\ tInfo[g] \in Table!Entries /\ tInfo[g] # tThreadCount
          /\ tInfo'[g] = tInfo[g] /\ tJob'[g] = tJob[g]
      BY <2>2, <1>2, TableNumbers
         DEF Keepers, Table!CreateThread, Table!TypeOK, Table!Entries
    <3>2. tLiveThreads'[tInfo[g]] = tLiveThreads[tInfo[g]]
      BY <3>1 DEF Table!CreateThread, Table!TypeOK
    <3>. QED
      BY <3>1, <3>2 DEF EntriesKept, Keepers
  <2>. QED
    BY <2>1, <2>2
<1>. QED
  BY <1>1, <1>3, <1>4

LEMMA JoinThreadStep ==
  ASSUME Table!TableAssumption, TableInv, NEW h \in Handles, Table!JoinThread(h)
  PROVE  TableInv'
<1>. USE DEF TableInv
<1>1. /\ h \in Table!Live /\ h \notin Table!Live'
      /\ \A g : g # h => (g \in Table!Live <=> g \in Table!Live')
  BY DEF Table!JoinThread, Table!Live, Table!TypeOK, Table!TableAssumption
<1>2. /\ Cardinality(Table!Live') = Cardinality(Table!Live) - 1
      /\ Cardinality(Table!Live') \in Nat /\ Cardinality(Table!Live) \in Nat
  BY <1>1, TableNumbers, CountMoves
<1>3. CASE Table!EntryOf(h) = {}
  <2>1. /\ UNCHANGED <<tLiveThreads, tThreadCount, tState, tInfo, tJob, tRan, tOvertaken>>
        /\ tJoining' = h /\ tMissed' = tMissed + 1
    BY <1>3 DEF Table!JoinThread
  <2>2. TableCounts'
    BY <1>2, <2>1 DEF TableCounts, Table!TypeOK
  <2>3. Table!TypeOK'
    BY <2>1 DEF Table!TypeOK
  <2>4. EntriesKept'
    BY <1>1, <2>1 DEF EntriesKept, Keepers
  <2>. QED
    BY <2>2, <2>3, <2>4
<1>. SUFFICES ASSUME Table!EntryOf(h) # {} PROVE TableInv'
  BY <1>3
<1>4. PICK i \in Table!EntryOf(h) :
        /\ tLiveThreads' = [tLiveThreads EXCEPT ![i] =
                              IF tThreadCount < TableCapacity THEN tLiveThreads[tThreadCount]
                              ELSE [handle |-> NoHandle, job |-> Garbage]]
        /\ tThreadCount' = tThreadCount - 1 /\ tMissed' = tMissed
  BY DEF Table!JoinThread
<1>5. i \in Table!Entries /\ tLiveThreads[i].handle = h
  BY <1>4 DEF Table!EntryOf
<1>6. TableCounts'
  BY <1>2, <1>4 DEF TableCounts, Table!TypeOK
<1>7. Table!TypeOK'
  <2>1. tThreadCount' \in 0..TableCapacity
    BY <1>2, <1>4, TableNumbers DEF TableCounts, Table!TypeOK
  <2>. DEFINE next == IF tThreadCount < TableCapacity THEN tLiveThreads[tThreadCount]
                      ELSE [handle |-> NoHandle, job |-> Garbage]
  <2>2. next \in [handle : Handles \cup {NoHandle}, job : Jobs \cup {NoJob, Garbage}]
    BY TableNumbers DEF Table!TypeOK, Table!Entries
  <2>3. tLiveThreads' \in [Table!Entries -> [handle : Handles \cup {NoHandle},
                                             job : Jobs \cup {NoJob, Garbage}]]
    BY <2>2, <1>4, <1>5 DEF Table!TypeOK
  <2>4. UNCHANGED <<tState, tInfo, tJob, tRan, tOvertaken, tMissed>> /\ tJoining' = h
    BY <1>4 DEF Table!JoinThread
  <2>. QED
    BY <2>1, <2>3, <2>4 DEF Table!TypeOK
<1>8. EntriesKept'
  <2>. SUFFICES ASSUME NEW g \in Keepers'
                PROVE  tLiveThreads'[tInfo'[g]] = [handle |-> g, job |-> tJob'[g]]
    BY DEF EntriesKept
  <2>1. g # h /\ g \in Table!Live \ tOvertaken /\ tInfo' = tInfo /\ tJob' = tJob
    BY <1>1 DEF Table!JoinThread, Keepers
  <2>2. tLiveThreads[tInfo[g]] = [handle |-> g, job |-> tJob[g]]
    BY <2>1 DEF EntriesKept, Keepers
  <2>3. tInfo[g] # i /\ tInfo[g] \in Table!Entries
    BY <2>1, <2>2, <1>5 DEF Table!Live, Table!TypeOK
  <2>4. tLiveThreads'[tInfo[g]] = tLiveThreads[tInfo[g]]
    BY <2>3, <1>4 DEF Table!TypeOK
  <2>. QED
    BY <2>1, <2>2, <2>4
<1>. QED
  BY <1>6, <1>7, <1>8

\* What the threads themselves do, and the end of a wait, leave the table alone.
LEMMA ThreadSteps ==
  ASSUME Table!TableAssumption, TableInv, NEW h \in Handles,
         Table!ThreadStarts(h) \/ Table!ThreadExits(h) \/ Table!JoinReturns(h)
  PROVE  TableInv'
<1>. USE DEF TableInv
<1>1. Table!TypeOK'
  <2>1. CASE Table!ThreadStarts(h)
    BY <2>1 DEF Table!ThreadStarts, Table!TypeOK
  <2>2. CASE Table!ThreadExits(h)
    BY <2>2 DEF Table!ThreadExits, Table!TypeOK
  <2>3. CASE Table!JoinReturns(h)
    BY <2>3 DEF Table!JoinReturns, Table!TypeOK, Table!Entries, Table!TableAssumption
  <2>. QED
    BY <2>1, <2>2, <2>3
<1>2. /\ Table!Live' = Table!Live
      /\ UNCHANGED <<tLiveThreads, tThreadCount, tMissed>>
      /\ \A g \in Table!Live : /\ tInfo'[g] = tInfo[g] /\ tJob'[g] = tJob[g]
                               /\ g \in tOvertaken <=> g \in tOvertaken'
  BY DEF Table!ThreadStarts, Table!ThreadExits, Table!JoinReturns, Table!Live, Table!TypeOK,
         Table!TableAssumption
<1>3. TableCounts'
  BY <1>2 DEF TableCounts
<1>4. EntriesKept'
  BY <1>2 DEF EntriesKept, Keepers
<1>. QED
  BY <1>1, <1>3, <1>4

LEMMA TableStep ==
  ASSUME Table!TableAssumption, TableInv, [Table!Next]_(Table!vars)
  PROVE  TableInv'
<1>1. CASE Table!Next
  BY <1>1, CreateThreadStep, JoinThreadStep, ThreadSteps DEF Table!Next
<1>2. CASE UNCHANGED Table!vars
  BY <1>2 DEF Table!vars, TableInv, TableCounts, EntriesKept, Keepers, Table!TypeOK, Table!Live
<1>. QED
  BY <1>1, <1>2

LEMMA TableInvCounts ==
  ASSUME Table!TableAssumption, TableInv
  PROVE  Table!TypeOK /\ Table!CountRight
<1>1. \A h \in Table!Live \ tOvertaken : Table!EntryOf(h) # {}
  BY FirstEntry DEF TableInv, Keepers
<1>2. Table!Cardinality(Table!Live) = Cardinality(Table!Live)
  BY DEF Table!Cardinality, Cardinality
<1>. QED
  BY <1>1, <1>2 DEF TableInv, TableCounts, Table!CountRight

LEMMA TableStarts ==
  ASSUME Table!TableAssumption, TableInv, [Table!Next]_(Table!vars),
         NEW h \in Handles \ tOvertaken,
         tState[h] = "created", tState'[h] = "running", h # tJoining
  PROVE  tRan'[h] = tJob[h]
<1>1. Table!ThreadStarts(h)
  <2>1. CASE UNCHANGED Table!vars
    BY <2>1 DEF Table!vars
  <2>2. ASSUME NEW g \in Handles,
               \/ \E j \in Jobs : Table!CreateThread(g, j)
               \/ Table!ThreadStarts(g) \/ Table!ThreadExits(g)
               \/ Table!JoinThread(g) \/ Table!JoinReturns(g)
        PROVE  Table!ThreadStarts(h)
    BY <2>2 DEF Table!CreateThread, Table!ThreadStarts, Table!ThreadExits, Table!JoinThread,
                Table!JoinReturns, TableInv, Table!TypeOK
  <2>. QED
    BY <2>1, <2>2 DEF Table!Next
<1>2. tLiveThreads[tInfo[h]] = [handle |-> h, job |-> tJob[h]]
  BY DEF Table!Live, TableInv, EntriesKept, Keepers
<1>3. tRan'[h] = tLiveThreads[tInfo[h]].job
  BY <1>1 DEF Table!ThreadStarts, TableInv, Table!TypeOK
<1>. QED
  BY <1>2, <1>3

---------------------------------------------------------------------------
(* The ring buffer.  The slots in use are those before the head index, as  *)
(* many as the count says, going round the end: written with the index and *)
(* the count of any word, so that two words can be compared.               *)
SlotsBefore(h, c) == [i \in 1..c |-> (h - c + i - 1) % RingCapacity]

LEMMA RingNumbers ==
  ASSUME Ring!CapacityAssumption
  PROVE  RingCapacity \in Nat \ {0}
BY DEF Ring!CapacityAssumption

\* The slot before an index, and the one that many slots on.
LEMMA IndexMoves ==
  ASSUME Ring!CapacityAssumption, NEW h \in Ring!Indices
  PROVE  /\ (h - 1) % RingCapacity = IF h = 0 THEN RingCapacity - 1 ELSE h - 1
         /\ h % RingCapacity = h
         /\ \A n \in 1..RingCapacity :
              (h + n) % RingCapacity = IF h + n < RingCapacity THEN h + n ELSE h + n - RingCapacity
<1>1. RingCapacity \in Nat \ {0} /\ h \in 0..RingCapacity-1 /\ h \in Int
  BY RingNumbers DEF Ring!Indices
<1>2. (h - 1) % RingCapacity = IF h = 0 THEN RingCapacity - 1 ELSE h - 1
  <2>1. CASE h = 0
    <3>1. h - 1 \in (-RingCapacity)..(-1)
      BY <1>1, <2>1
    <3>2. (h - 1) % RingCapacity = (h - 1) + RingCapacity
      BY <1>1, <3>1, Remainder
    <3>. QED
      BY <1>1, <2>1, <3>2
  <2>2. CASE h # 0
    <3>1. h - 1 \in 0..RingCapacity-1 /\ h - 1 \in Int
      BY <1>1, <2>2
    <3>. QED
      BY <1>1, <2>2, <3>1, Remainder
  <2>. QED
    BY <2>1, <2>2
<1>3. ASSUME NEW n \in 1..RingCapacity
      PROVE  (h + n) % RingCapacity = IF h + n < RingCapacity THEN h + n ELSE h + n - RingCapacity
  <2>1. CASE h + n < RingCapacity
    <3>1. h + n \in 0..RingCapacity-1 /\ h + n \in Int
      BY <1>1, <2>1
    <3>. QED
      BY <1>1, <2>1, <3>1, Remainder
  <2>2. CASE ~ (h + n < RingCapacity)
    <3>1. h + n \in RingCapacity..2*RingCapacity-1 /\ h + n \in Int
      BY <1>1, <2>2
    <3>2. (h + n) % RingCapacity = (h + n) - RingCapacity
      BY <1>1, <3>1, Remainder
    <3>. QED
      BY <1>1, <2>2, <3>2
  <2>. QED
    BY <2>1, <2>2
<1>. QED
  BY <1>1, <1>2, <1>3, Remainder

\* A sequence of slots that goes on where another ends.
LEMMA SlotsJoin ==
  ASSUME Ring!CapacityAssumption, NEW h \in Ring!Indices, NEW c \in 0..RingCapacity,
         NEW n \in Nat
  PROVE  SlotsBefore(h, c) \o Ring!Ring!Slots(h, n)
           = [i \in 1..c+n |-> (h - c + i - 1) % RingCapacity]
<1>. DEFINE f == SlotsBefore(h, c)
            g == Ring!Ring!Slots(h, n)
<1>1. /\ f \in Seq(Int) /\ g \in Seq(Int) /\ Len(f) = c /\ Len(g) = n
      /\ \A i \in 1..c : f[i] = (h - c + i - 1) % RingCapacity
      /\ \A i \in 1..n : g[i] = (h + i - 1) % RingCapacity
  <2>1. /\ \A i \in 1..c : (h - c + i - 1) % RingCapacity \in Int
        /\ \A i \in 1..n : (h + i - 1) % RingCapacity \in Int
    BY RingNumbers DEF Ring!Indices
  <2>2. f \in [1..c -> Int] /\ g \in [1..n -> Int] /\ c \in Nat
    BY <2>1, RingNumbers DEF SlotsBefore, Ring!Ring!Slots
  <2>3. f \in Seq(Int) /\ g \in Seq(Int)
    BY <2>2, SeqDef
  <2>4. Len(f) = c /\ Len(g) = n
    BY <2>2, <2>3
  <2>. QED
    BY <2>3, <2>4 DEF SlotsBefore, Ring!Ring!Slots
<1>. HIDE DEF f, g
<1>. DEFINE j == f \o g
<1>2. /\ j \in [1..c+n -> Int]
      /\ \A i \in 1..c+n : j[i] = IF i <= c THEN f[i] ELSE g[i - c]
  <2>1. /\ j \in Seq(Int) /\ Len(j) = Len(f) + Len(g)
        /\ \A i \in 1..Len(f)+Len(g) : j[i] = IF i <= Len(f) THEN f[i] ELSE g[i - Len(f)]
    BY <1>1, ConcatProperties
  <2>2. j \in [1..Len(j) -> Int]
    BY <2>1, LenProperties
  <2>. HIDE DEF j
  <2>. QED
    BY <1>1, <2>1, <2>2
<1>. HIDE DEF j
<1>3. \A i \in 1..c+n : j[i] = (h - c + i - 1) % RingCapacity
  <2>. SUFFICES ASSUME NEW i \in 1..c+n
                PROVE  j[i] = (h - c + i - 1) % RingCapacity
    OBVIOUS
  <2>1. CASE i <= c
    <3>1. i \in 1..c
      BY <2>1
    <3>. QED
      BY <1>1, <1>2, <2>1, <3>1
  <2>2. CASE ~ (i <= c)
    <3>1. i - c \in 1..n /\ h + (i - c) - 1 = h - c + i - 1
      BY <2>2, RingNumbers DEF Ring!Indices
    <3>2. g[i - c] = (h + (i - c) - 1) % RingCapacity
      BY <1>1, <3>1
    <3>. QED
      BY <1>2, <2>2, <3>1, <3>2
  <2>. QED
    BY <2>1, <2>2
<1>. QED
  <2>1. j = [i \in 1..c+n |-> (h - c + i - 1) % RingCapacity]
    BY <1>2, <1>3
  <2>. QED
    BY <2>1 DEF f, g, j

\* The indices that lie the buffer's length apart are one.
LEMMA SameSlot ==
  ASSUME Ring!CapacityAssumption, NEW z \in Int, NEW v \in Int,
         v = z \/ v = z + RingCapacity \/ z = v + RingCapacity
  PROVE  z % RingCapacity = v % RingCapacity
BY RingNumbers, GoesRound

\* Claiming n slots after the newest: the queue is that of the next word.
LEMMA ClaimedSlots ==
  ASSUME Ring!CapacityAssumption, NEW h \in Ring!Indices, NEW c \in 0..RingCapacity,
         NEW n \in 1..2*RingCapacity, NEW e \in Ring!Indices,
         e = h + n \/ e = h + n - RingCapacity
  PROVE  Ring!Ring!Newest(SlotsBefore(h, c) \o Ring!Ring!Slots(h, n))
           = SlotsBefore(e, Ring!AtMost(c + n, RingCapacity))
<1>1. /\ RingCapacity \in Nat \ {0} /\ h \in Int /\ c \in Nat /\ n \in Nat /\ e \in Int
      /\ c + n \in Nat
  BY RingNumbers DEF Ring!Indices
<1>. DEFINE q == [i \in 1..c+n |-> (h - c + i - 1) % RingCapacity]
<1>2. SlotsBefore(h, c) \o Ring!Ring!Slots(h, n) = q
  BY <1>1, SlotsJoin
<1>3. /\ q \in Seq(Int) /\ Len(q) = c + n
      /\ \A i \in 1..c+n : q[i] = (h - c + i - 1) % RingCapacity
  <2>1. \A i \in 1..c+n : (h - c + i - 1) % RingCapacity \in Int
    BY <1>1
  <2>2. q \in [1..c+n -> Int]
    BY <2>1
  <2>3. q \in Seq(Int)
    BY <1>1, <2>2, SeqDef
  <2>. HIDE DEF q
  <2>4. Len(q) = c + n
    BY <1>1, <2>2, <2>3
  <2>. QED
    BY <2>3, <2>4 DEF q
<1>. HIDE DEF q
<1>4. CASE c + n <= RingCapacity
  <2>1. Ring!AtMost(c + n, RingCapacity) = c + n
    BY <1>1, <1>4 DEF Ring!AtMost
  <2>2. \A i \in 1..c+n : (h - c + i - 1) % RingCapacity = (e - (c + n) + i - 1) % RingCapacity
    <3>. SUFFICES ASSUME NEW i \in 1..c+n
                  PROVE  (h - c + i - 1) % RingCapacity = (e - (c + n) + i - 1) % RingCapacity
      OBVIOUS
    <3>. DEFINE z == h - c + i - 1
                v == e - (c + n) + i - 1
    <3>1. z \in Int /\ v \in Int /\ (v = z \/ v = z - RingCapacity)
      BY <1>1
    <3>2. v = z \/ z = v + RingCapacity
      BY <1>1, <3>1
    <3>. HIDE DEF z, v
    <3>3. z % RingCapacity = v % RingCapacity
      BY <3>1, <3>2, SameSlot
    <3>. QED
      BY <3>3 DEF z, v
  <2>3. q = SlotsBefore(e, c + n)
    BY <2>2 DEF q, SlotsBefore
  <2>4. Ring!Ring!Newest(q) = q
    BY <1>1, <1>3, <1>4 DEF Ring!Ring!Newest
  <2>. QED
    BY <1>2, <2>1, <2>3, <2>4
<1>5. CASE ~ (c + n <= RingCapacity)
  <2>. DEFINE m == c + n - RingCapacity
              s == SubSeq(q, m + 1, c + n)
  <2>1. Ring!AtMost(c + n, RingCapacity) = RingCapacity
    BY <1>1, <1>5 DEF Ring!AtMost
  <2>2. m \in Nat /\ m + 1 \in Int /\ c + n = m + RingCapacity /\ m + 1 <= c + n
        /\ c + n - (m + 1) + 1 = RingCapacity
    BY <1>1, <1>5
  <2>3. Ring!Ring!Newest(q) = s
    BY <1>1, <1>3, <1>5 DEF Ring!Ring!Newest
  <2>. HIDE DEF m
  <2>4. /\ s \in Seq(Int) /\ Len(s) = RingCapacity
        /\ \A i \in 1..RingCapacity : s[i] = q[m + 1 + i - 1]
    <3>1. \A i \in m+1..c+n : q[i] \in Int
      BY <1>1, <1>3, <2>2
    <3>. QED
      BY <1>1, <2>2, <3>1, SubSeqProperties
  <2>5. \A i \in 1..RingCapacity : s[i] = (e - RingCapacity + i - 1) % RingCapacity
    <3>. SUFFICES ASSUME NEW i \in 1..RingCapacity
                  PROVE  s[i] = (e - RingCapacity + i - 1) % RingCapacity
      OBVIOUS
    <3>. DEFINE z == h - c + (m + i) - 1
                v == e - RingCapacity + i - 1
    <3>1. m + i \in 1..c+n /\ m + 1 + i - 1 = m + i
      BY <1>1, <2>2
    <3>2. s[i] = z % RingCapacity
      BY <2>4, <3>1, <1>3
    <3>3. z \in Int /\ v \in Int
      BY <1>1, <2>2
    <3>4. v = z \/ z = v + RingCapacity
      BY <1>1, <2>2 DEF m
    <3>. HIDE DEF z, v
    <3>5. z % RingCapacity = v % RingCapacity
      BY <3>3, <3>4, SameSlot
    <3>. QED
      BY <3>2, <3>5 DEF v
  <2>6. s \in [1..RingCapacity -> Int]
    BY <2>4, LenProperties
  <2>7. s = SlotsBefore(e, RingCapacity)
    <3>. HIDE DEF s
    <3>. QED
      BY <2>5, <2>6 DEF SlotsBefore
  <2>. QED
    BY <1>2, <2>1, <2>3, <2>7
<1>. QED
  BY <1>4, <1>5

\* What a sequence of slots is, and what is left of it without its first, or its last.
LEMMA SlotsAre ==
  ASSUME Ring!CapacityAssumption, NEW h \in Ring!Indices, NEW c \in 0..RingCapacity
  PROVE  /\ SlotsBefore(h, c) \in Seq(Int) /\ Len(SlotsBefore(h, c)) = c
         /\ (SlotsBefore(h, c) = <<>>) <=> (c = 0)
         /\ \A i \in 1..c : SlotsBefore(h, c)[i] = (h - c + i - 1) % RingCapacity
<1>1. RingCapacity \in Nat \ {0} /\ h \in Int /\ c \in Nat
  BY RingNumbers DEF Ring!Indices
<1>2. SlotsBefore(h, c) \in [1..c -> Int]
  <2>1. \A i \in 1..c : (h - c + i - 1) % RingCapacity \in Int
    BY <1>1
  <2>. QED
    BY <2>1 DEF SlotsBefore
<1>3. SlotsBefore(h, c) \in Seq(Int)
  BY <1>1, <1>2, SeqDef
<1>4. Len(SlotsBefore(h, c)) = c
  BY <1>1, <1>2, <1>3
<1>5. (SlotsBefore(h, c) = <<>>) <=> (c = 0)
  BY <1>3, <1>4, EmptySeq
<1>6. \A i \in 1..c : SlotsBefore(h, c)[i] = (h - c + i - 1) % RingCapacity
  BY DEF SlotsBefore
<1>. QED
  BY <1>3, <1>4, <1>5, <1>6

LEMMA PoppedOldest ==
  ASSUME Ring!CapacityAssumption, NEW h \in Ring!Indices, NEW c \in 1..RingCapacity
  PROVE  /\ SlotsBefore(h, c) # <<>>
         /\ Tail(SlotsBefore(h, c)) = SlotsBefore(h, c - 1)
         /\ Head(SlotsBefore(h, c)) = (h - c) % RingCapacity
<1>1. RingCapacity \in Nat \ {0} /\ h \in Int /\ c \in Nat /\ c \in 0..RingCapacity
      /\ c - 1 \in 0..RingCapacity /\ c - 1 \in Nat
  BY RingNumbers DEF Ring!Indices
<1>. DEFINE q == SlotsBefore(h, c)
            s == SlotsBefore(h, c - 1)
<1>2. /\ q \in Seq(Int) /\ Len(q) = c /\ q # <<>>
      /\ \A i \in 1..c : q[i] = (h - c + i - 1) % RingCapacity
  BY <1>1, SlotsAre
<1>3. /\ s \in Seq(Int) /\ Len(s) = c - 1
      /\ \A i \in 1..c-1 : s[i] = (h - (c - 1) + i - 1) % RingCapacity
  BY <1>1, SlotsAre
<1>. HIDE DEF q, s
<1>4. Tail(q) \in Seq(Int) /\ Len(Tail(q)) = c - 1 /\ \A i \in 1..c-1 : Tail(q)[i] = q[i+1]
  BY <1>2, HeadTailProperties
<1>5. \A i \in 1..c-1 : Tail(q)[i] = s[i]
  <2>. SUFFICES ASSUME NEW i \in 1..c-1 PROVE Tail(q)[i] = s[i]
    OBVIOUS
  <2>1. i+1 \in 1..c /\ h - c + (i+1) - 1 = h - (c - 1) + i - 1
    BY <1>1
  <2>2. q[i+1] = (h - c + (i+1) - 1) % RingCapacity
    BY <1>2, <2>1
  <2>. QED
    BY <1>3, <1>4, <2>1, <2>2
<1>6. Tail(q) = s
  BY <1>3, <1>4, <1>5, SeqEqual
<1>7. Head(q) = (h - c) % RingCapacity
  <2>1. 1 \in 1..c /\ h - c + 1 - 1 = h - c
    BY <1>1
  <2>2. Head(q) = q[1]
    BY <1>2
  <2>3. q[1] = (h - c + 1 - 1) % RingCapacity
    BY <1>2, <2>1
  <2>. QED
    BY <2>1, <2>2, <2>3
<1>. QED
  BY <1>2, <1>6, <1>7 DEF q, s

LEMMA PoppedNewest ==
  ASSUME Ring!CapacityAssumption, NEW h \in Ring!Indices, NEW c \in 1..RingCapacity,
         NEW e \in Ring!Indices, e = (h - 1) % RingCapacity
  PROVE  /\ SlotsBefore(h, c) # <<>>
         /\ Ring!Ring!Front(SlotsBefore(h, c)) = SlotsBefore(e, c - 1)
         /\ Ring!Ring!Last(SlotsBefore(h, c)) = e
<1>1. RingCapacity \in Nat \ {0} /\ h \in Int /\ c \in Nat /\ c \in 0..RingCapacity
      /\ c - 1 \in 0..RingCapacity /\ c - 1 \in Nat /\ e \in Int
  BY RingNumbers DEF Ring!Indices
<1>. DEFINE q == SlotsBefore(h, c)
            s == SlotsBefore(e, c - 1)
            f == SubSeq(q, 1, c - 1)
<1>2. /\ q \in Seq(Int) /\ Len(q) = c /\ q # <<>>
      /\ \A i \in 1..c : q[i] = (h - c + i - 1) % RingCapacity
  BY <1>1, SlotsAre
<1>3. /\ s \in Seq(Int) /\ Len(s) = c - 1
      /\ \A i \in 1..c-1 : s[i] = (e - (c - 1) + i - 1) % RingCapacity
  BY <1>1, SlotsAre
<1>4. Ring!Ring!Front(q) = f /\ Ring!Ring!Last(q) = q[c]
  BY <1>2 DEF Ring!Ring!Front, Ring!Ring!Last
<1>. HIDE DEF q, s
<1>5. f \in Seq(Int) /\ Len(f) = c - 1 /\ \A i \in 1..c-1 : f[i] = q[i]
  <2>1. \A i \in 1..c-1 : q[i] \in Int
    BY <1>1, <1>2, ElementOfSeq
  <2>2. /\ f \in Seq(Int) /\ Len(f) = IF 1 <= c - 1 THEN c - 1 - 1 + 1 ELSE 0
        /\ \A i \in 1..c-1-1+1 : f[i] = q[1 + i - 1]
    BY <1>1, <2>1, SubSeqProperties
  <2>. HIDE DEF f
  <2>3. \A i \in 1..c-1 : i \in 1..c-1-1+1 /\ 1 + i - 1 = i
    BY <1>1
  <2>. QED
    BY <1>1, <2>2, <2>3
<1>6. e = h - 1 \/ e = h - 1 + RingCapacity
  BY <1>1, IndexMoves
<1>7. \A i \in 1..c-1 : f[i] = s[i]
  <2>. SUFFICES ASSUME NEW i \in 1..c-1 PROVE f[i] = s[i]
    OBVIOUS
  <2>. DEFINE z == h - c + i - 1
              v == e - (c - 1) + i - 1
  <2>1. z \in Int /\ v \in Int /\ (v = z \/ v = z + RingCapacity) /\ i \in 1..c
    BY <1>1, <1>6
  <2>2. q[i] = z % RingCapacity /\ s[i] = v % RingCapacity
    BY <1>2, <1>3, <2>1
  <2>. HIDE DEF z, v, f
  <2>3. z % RingCapacity = v % RingCapacity
    BY <2>1, SameSlot
  <2>. QED
    BY <1>5, <2>2, <2>3
<1>8. f = s
  <2>. HIDE DEF f
  <2>. QED
    BY <1>3, <1>5, <1>7, SeqEqual
<1>9. q[c] = e
  <2>1. c \in 1..c /\ h - c + c - 1 = h - 1
    BY <1>1
  <2>2. q[c] = (h - c + c - 1) % RingCapacity
    BY <1>2, <2>1
  <2>. QED
    BY <2>1, <2>2
<1>. QED
  BY <1>2, <1>4, <1>8, <1>9 DEF q, s

---------------------------------------------------------------------------
(* What a thread inside an operation knows of it.                          *)
RingCalls ==
  \A t \in RingThreads :
    /\ gOp[t] # "range" => gLen[t] = 1
    /\ gOp[t] \in {"push", "range"} /\ gPc[t] # "idle" => gArg[t] \in RingItems
    /\ gPc[t] = "store" => gOp[t] \in {"push", "range"}
    /\ gPc[t] \in {"store", "read"} => gSlot[t] \in Ring!Indices

RingInv == Ring!TypeOK /\ RingCalls

RingOps == {"push", "range", "pop", "pop_head"}

LEMMA WordParts ==
  ASSUME Ring!CapacityAssumption, NEW w \in Ring!Words
  PROVE  /\ w.count \in 0..RingCapacity /\ w.onePastHeadIndex \in Ring!Indices
         /\ w = [count |-> w.count, onePastHeadIndex |-> w.onePastHeadIndex]
BY DEF Ring!Words

\* What an operation makes of a word is a word, and the slot it gets one of the buffer.
LEMMA PushedWord ==
  ASSUME Ring!CapacityAssumption, Ring!RingAssumption, NEW w \in Ring!Words,
         NEW n \in RangeLens \cup {1}
  PROVE  /\ Ring!Pushed(w) \in Ring!Words /\ Ring!RangePushed(w, n) \in Ring!Words
         /\ Ring!RangeSlot(w, n) \in Ring!Indices /\ Ring!RangeSlot(w, n) + n <= RingCapacity
         /\ w.onePastHeadIndex \in Ring!Indices /\ w.onePastHeadIndex + 1 <= RingCapacity
<1>. DEFINE h == w.onePastHeadIndex
            c == w.count
<1>1. /\ RingCapacity \in Nat \ {0} /\ h \in 0..RingCapacity-1 /\ c \in 0..RingCapacity
      /\ n \in 1..RingCapacity
  BY RingNumbers, WordParts DEF Ring!Indices, Ring!RingAssumption
<1>2. \A k \in Nat : Ring!AtMost(k, RingCapacity) \in 0..RingCapacity
  BY <1>1 DEF Ring!AtMost
<1>3. h \in Ring!Indices /\ c + 1 \in Nat /\ c + n \in Nat /\ c + RingCapacity - h + n \in Nat
  BY <1>1 DEF Ring!Indices
<1>4. (h + 1) % RingCapacity \in Ring!Indices /\ (h + n) % RingCapacity \in Ring!Indices
  <2>1. h + 1 \in Int /\ h + n \in Int
    BY <1>1
  <2>. QED
    BY <1>1, <2>1, GoesRound DEF Ring!Indices
<1>5. ~ Ring!Fits(w, n) => n \in Ring!Indices
  BY <1>1 DEF Ring!Fits, Ring!RingAssumption, Ring!Indices
<1>6. Ring!Fits(w, n) => h + n <= RingCapacity
  BY <1>1 DEF Ring!Fits
<1>7. Ring!Pushed(w) \in Ring!Words
  BY <1>2, <1>3, <1>4 DEF Ring!Pushed, Ring!Words
<1>8. Ring!RangePushed(w, n) \in Ring!Words
  BY <1>2, <1>3, <1>4, <1>5 DEF Ring!RangePushed, Ring!Words
<1>9. Ring!RangeSlot(w, n) \in Ring!Indices /\ Ring!RangeSlot(w, n) + n <= RingCapacity
  BY <1>1, <1>6 DEF Ring!RangeSlot, Ring!Indices
<1>. QED
  BY <1>1, <1>3, <1>7, <1>8, <1>9

LEMMA PoppedWord ==
  ASSUME Ring!CapacityAssumption, NEW w \in Ring!Words
  PROVE  /\ Ring!TailPopped(w) \in Ring!Words /\ Ring!HeadPopped(w) \in Ring!Words
         /\ Ring!TailSlot(w) \in Ring!Indices
         /\ Ring!HeadPopped(w).onePastHeadIndex \in Ring!Indices
<1>. DEFINE h == w.onePastHeadIndex
            c == w.count
<1>1. RingCapacity \in Nat \ {0} /\ h \in 0..RingCapacity-1 /\ c \in 0..RingCapacity
  BY RingNumbers, WordParts DEF Ring!Indices
<1>2. (h - 1) % RingCapacity \in Ring!Indices /\ (h - c) % RingCapacity \in Ring!Indices
  <2>1. h - 1 \in Int /\ h - c \in Int
    BY <1>1
  <2>. QED
    BY <1>1, <2>1, GoesRound DEF Ring!Indices
<1>3. c > 0 => c - 1 \in 0..RingCapacity
  BY <1>1
<1>4. Ring!TailPopped(w) \in Ring!Words
  BY <1>1, <1>3 DEF Ring!TailPopped, Ring!Words
<1>5. Ring!HeadPopped(w) \in Ring!Words
  BY <1>1, <1>2, <1>3 DEF Ring!HeadPopped, Ring!Words
<1>. QED
  BY <1>2, <1>4, <1>5, WordParts DEF Ring!TailSlot

LEMMA NextWord ==
  ASSUME Ring!CapacityAssumption, Ring!RingAssumption, NEW w \in Ring!Words,
         NEW n \in RangeLens \cup {1}, NEW o \in RingOps, o # "range" => n = 1
  PROVE  /\ Ring!NewData(o, w, n) \in Ring!Words
         /\ Ring!SlotOf(o, w, n) \in Ring!Indices \cup {NoSlot}
         /\ o \in {"push", "range"} \/ w.count > 0 => Ring!SlotOf(o, w, n) \in Ring!Indices
         /\ o \in {"push", "range"} => Ring!SlotOf(o, w, n) + n <= RingCapacity
BY PushedWord, PoppedWord DEF Ring!NewData, Ring!SlotOf, RingOps

LEMMA RingInit ==
  ASSUME Ring!CapacityAssumption, Ring!RingAssumption, Ring!Init
  PROVE  RingInv
<1>1. Ring!NothingIn \in Ring!Words
  BY RingNumbers DEF Ring!NothingIn, Ring!Words, Ring!Indices
<1>2. Ring!TypeOK
  BY <1>1 DEF Ring!Init, Ring!TypeOK
<1>3. RingCalls
  BY DEF Ring!Init, RingCalls
<1>. QED
  BY <1>2, <1>3 DEF RingInv

LEMMA RingCallStep ==
  ASSUME Ring!CapacityAssumption, Ring!RingAssumption, RingInv, NEW t \in RingThreads,
         \/ \E o \in RingOps, x \in RingItems \cup {NoItem}, n \in RangeLens \cup {1} :
              Ring!Call(t, o, x, n)
         \/ Ring!LoadIndex(t) \/ Ring!Read(t) \/ Ring!Return(t)
  PROVE  RingInv'
<1>. USE DEF RingInv
<1>1. ASSUME NEW o \in RingOps, NEW x \in RingItems \cup {NoItem},
             NEW n \in RangeLens \cup {1}, Ring!Call(t, o, x, n)
      PROVE  RingInv'
  <2>1. Ring!TypeOK'
    BY <1>1 DEF Ring!TypeOK, Ring!Call, Ring!Goto
  <2>2. RingCalls'
    BY <1>1 DEF Ring!TypeOK, Ring!Call, Ring!Goto, RingCalls
  <2>. QED
    BY <2>1, <2>2
<1>2. CASE Ring!LoadIndex(t)
  <2>1. Ring!TypeOK'
    BY <1>2 DEF Ring!TypeOK, Ring!LoadIndex, Ring!Goto
  <2>2. RingCalls'
    BY <1>2 DEF Ring!TypeOK, Ring!LoadIndex, Ring!Goto, RingCalls
  <2>. QED
    BY <2>1, <2>2
<1>3. CASE Ring!Read(t)
  <2>1. gSlot[t] \in Ring!Indices
    BY <1>3 DEF Ring!Read, Ring!Goto, RingCalls
  <2>2. Ring!TypeOK'
    BY <1>3, <2>1 DEF Ring!TypeOK, Ring!Read, Ring!Goto
  <2>3. RingCalls'
    BY <1>3 DEF Ring!TypeOK, Ring!Read, Ring!Goto, RingCalls
  <2>. QED
    BY <2>2, <2>3
<1>4. CASE Ring!Return(t)
  <2>1. Ring!NothingIn \in Ring!Words
    BY RingNumbers DEF Ring!NothingIn, Ring!Words, Ring!Indices
  <2>2. Ring!TypeOK'
    BY <1>4, <2>1 DEF Ring!TypeOK, Ring!Return, Ring!Goto
  <2>3. RingCalls'
    BY <1>4 DEF Ring!TypeOK, Ring!Return, Ring!Goto, RingCalls
  <2>. QED
    BY <2>2, <2>3
<1>. QED
  BY <1>1, <1>2, <1>3, <1>4

LEMMA RingStoreStep ==
  ASSUME Ring!CapacityAssumption, Ring!RingAssumption, RingInv, NEW t \in RingThreads,
         Ring!Store(t)
  PROVE  RingInv'
<1>. USE DEF RingInv
<1>1. gArg[t] \in RingItems
  BY DEF Ring!Store, Ring!Goto, RingCalls
<1>2. gBuffer' \in [Ring!Indices -> RingItems \cup {Unwritten}]
  BY <1>1 DEF Ring!Store, Ring!TypeOK
<1>3. Ring!TypeOK'
  BY <1>2 DEF Ring!TypeOK, Ring!Store, Ring!Goto
<1>4. RingCalls'
  BY DEF Ring!TypeOK, Ring!Store, Ring!Goto, RingCalls
<1>. QED
  BY <1>3, <1>4

LEMMA RingExchangeStep ==
  ASSUME Ring!CapacityAssumption, Ring!RingAssumption, RingInv, NEW t \in RingThreads,
         Ring!Exchange(t)
  PROVE  RingInv'
<1>. USE DEF RingInv
<1>1. CASE gIndexData = gCurData[t] /\ gPc' # gPc
  <2>. DEFINE s == Ring!SlotOf(gOp[t], gIndexData, gLen[t])
  <2>1. /\ gIndexData \in Ring!Words /\ gLen[t] \in RangeLens \cup {1} /\ gOp[t] \in RingOps
        /\ gOp[t] # "range" => gLen[t] = 1
    BY DEF Ring!TypeOK, RingCalls, RingOps
  <2>2. /\ gIndexData' \in Ring!Words /\ s \in Ring!Indices \cup {NoSlot}
        /\ gOp[t] \in {"push", "range"} \/ gIndexData.count > 0 => s \in Ring!Indices
        /\ gOp[t] \in {"push", "range"} => s + gLen[t] <= RingCapacity
    BY <1>1, <2>1, NextWord DEF Ring!Exchange
  <2>. HIDE DEF s
  <2>3. /\ gSlot' = [gSlot EXCEPT ![t] = s]
        /\ UNCHANGED <<gBuffer, gOp, gArg, gLen, gCurData, gOut>>
        /\ gPc[t] = "exchange"
        /\ \/ gOp[t] \in {"push", "range"} /\ gPc' = [gPc EXCEPT ![t] = "store"]
           \/ /\ gOp[t] \in {"pop", "pop_head"}
              /\ gPc' = [gPc EXCEPT ![t] = IF gIndexData.count > 0 THEN "read" ELSE "return"]
    BY <1>1 DEF Ring!Exchange, Ring!Goto, s
  <2>4. Ring!TypeOK'
    BY <2>2, <2>3 DEF Ring!TypeOK
  <2>5. RingCalls'
    BY <2>2, <2>3 DEF Ring!TypeOK, RingCalls
  <2>. QED
    BY <2>4, <2>5
<1>2. CASE gIndexData # gCurData[t]
  <2>1. Ring!TypeOK'
    BY <1>2 DEF Ring!TypeOK, Ring!Exchange, Ring!Goto
  <2>2. RingCalls'
    BY <1>2 DEF Ring!TypeOK, Ring!Exchange, Ring!Goto, RingCalls
  <2>. QED
    BY <2>1, <2>2
<1>3. gIndexData = gCurData[t] => gPc' # gPc
  BY DEF Ring!TypeOK, Ring!Exchange, Ring!Goto
<1>. QED
  BY <1>1, <1>2, <1>3

LEMMA RingStep ==
  ASSUME Ring!CapacityAssumption, Ring!RingAssumption, RingInv, [Ring!Next]_(Ring!vars)
  PROVE  RingInv'
<1>1. CASE Ring!Next
  BY <1>1, RingCallStep, RingStoreStep, RingExchangeStep DEF Ring!Next, RingOps
<1>2. CASE UNCHANGED Ring!vars
  BY <1>2 DEF Ring!vars, RingInv, RingCalls, Ring!TypeOK
<1>. QED
  BY <1>1, <1>2

---------------------------------------------------------------------------
(* The steps of the ring buffer are those of the lossy queue of slots.     *)

LEMMA SlotsSeenAre ==
  Ring!SlotsSeen = SlotsBefore(gIndexData.onePastHeadIndex, gIndexData.count)
BY DEF Ring!SlotsSeen, SlotsBefore

\* A claim of n slots, the skipped ones included, of which the slot s is the first.
LEMMA PushRefines ==
  ASSUME Ring!CapacityAssumption, Ring!RingAssumption, NEW w \in Ring!Words, gIndexData = w,
         NEW t \in RingThreads, NEW n \in RangeLens \cup {1},
         gIndexData' = Ring!RangePushed(w, n),
         gSlot' = [gSlot EXCEPT ![t] = Ring!RangeSlot(w, n)]
  PROVE  Ring!Ring!Claim(t, n)
<1>. DEFINE h == w.onePastHeadIndex
            c == w.count
            e == Ring!RangePushed(w, n).onePastHeadIndex
            k == Ring!Ring!Skipped(n)
<1>1. /\ RingCapacity \in Nat \ {0} /\ h \in 0..RingCapacity-1 /\ h \in Ring!Indices
      /\ c \in 0..RingCapacity /\ n \in 1..RingCapacity /\ h \in Int
  BY RingNumbers, WordParts DEF Ring!Indices, Ring!RingAssumption
<1>2. /\ k = IF h + n > RingCapacity THEN RingCapacity - h ELSE 0
      /\ Ring!Fits(w, n) <=> ~ (h + n > RingCapacity)
  BY <1>1 DEF Ring!Ring!Skipped, Ring!Fits
<1>3. Ring!RangePushed(w, n) \in Ring!Words /\ e \in Ring!Indices
  BY PushedWord, WordParts
<1>4. /\ k \in Nat /\ k + n \in 1..2*RingCapacity
      /\ e = h + (k + n) \/ e = h + (k + n) - RingCapacity
      /\ e = (h + k + n) % RingCapacity
      /\ Ring!RangeSlot(w, n) = (h + k) % RingCapacity
      /\ Ring!RangePushed(w, n).count = Ring!AtMost(c + (k + n), RingCapacity)
  <2>1. CASE h + n > RingCapacity
    <3>1. /\ k = RingCapacity - h /\ e = n /\ Ring!RangeSlot(w, n) = 0
          /\ Ring!RangePushed(w, n).count = Ring!AtMost(c + RingCapacity - h + n, RingCapacity)
      BY <1>2, <2>1 DEF Ring!RangePushed, Ring!RangeSlot
    <3>2. /\ n + RingCapacity = h + k + n /\ 0 + RingCapacity = h + k
          /\ c + RingCapacity - h + n = c + (k + n)
      BY <1>1, <3>1
    <3>3. n \in Ring!Indices /\ 0 \in Ring!Indices
      BY <1>1, <1>3, <3>1 DEF Ring!Indices
    <3>4. n % RingCapacity = n /\ 0 % RingCapacity = 0
      BY <3>3, IndexMoves
    <3>5. (n + RingCapacity) % RingCapacity = n % RingCapacity
      BY <1>1, GoesRound
    <3>6. (0 + RingCapacity) % RingCapacity = 0 % RingCapacity
      BY <1>1, GoesRound
    <3>7. k \in Nat /\ k + n \in 1..2*RingCapacity /\ e = h + (k + n) - RingCapacity
      BY <1>1, <3>1
    <3>8. e = (h + k + n) % RingCapacity /\ Ring!RangeSlot(w, n) = (h + k) % RingCapacity
      BY <3>1, <3>2, <3>4, <3>5, <3>6
    <3>. QED
      BY <3>1, <3>2, <3>7, <3>8
  <2>2. CASE ~ (h + n > RingCapacity)
    <3>1. /\ k = 0 /\ e = (h + n) % RingCapacity /\ Ring!RangeSlot(w, n) = h
          /\ Ring!RangePushed(w, n).count = Ring!AtMost(c + n, RingCapacity)
      BY <1>2, <2>2 DEF Ring!RangePushed, Ring!RangeSlot
    <3>2. h + k + n = h + n /\ h + k = h /\ c + (k + n) = c + n
      BY <1>1, <3>1
    <3>3. h % RingCapacity = h
      BY <1>1, IndexMoves
    <3>4. e = h + n \/ e = h + n - RingCapacity
      BY <1>1, <3>1, IndexMoves
    <3>5. k \in Nat /\ k + n \in 1..2*RingCapacity /\ h + (k + n) = h + n
          /\ h + (k + n) - RingCapacity = h + n - RingCapacity
      BY <1>1, <3>1
    <3>6. e = h + (k + n) \/ e = h + (k + n) - RingCapacity
      BY <3>4, <3>5
    <3>7. e = (h + k + n) % RingCapacity /\ Ring!RangeSlot(w, n) = (h + k) % RingCapacity
      BY <3>1, <3>2, <3>3
    <3>. QED
      BY <3>1, <3>2, <3>5, <3>6, <3>7
  <2>. QED
    BY <2>1, <2>2
<1>. HIDE DEF k, e
<1>5. Ring!SlotsSeen = SlotsBefore(h, c)
  BY SlotsSeenAre
<1>6. Ring!SlotsSeen' = SlotsBefore(e, Ring!AtMost(c + (k + n), RingCapacity))
  <2>1. Ring!SlotsSeen' = SlotsBefore(gIndexData'.onePastHeadIndex, gIndexData'.count)
    BY DEF Ring!SlotsSeen, SlotsBefore
  <2>. QED
    BY <1>4, <2>1 DEF e
<1>7. Ring!SlotsSeen' = Ring!Ring!Newest(Ring!SlotsSeen \o Ring!Ring!Slots(h, k + n))
  BY <1>1, <1>3, <1>4, <1>5, <1>6, ClaimedSlots
<1>8. gIndexData'.onePastHeadIndex = (h + k + n) % RingCapacity
  BY <1>4 DEF e
<1>9. gSlot' = [gSlot EXCEPT ![t] = (h + k) % RingCapacity]
  BY <1>4
<1>. QED
  BY <1>7, <1>8, <1>9 DEF Ring!Ring!Claim, k

LEMMA PopRefines ==
  ASSUME Ring!CapacityAssumption, Ring!RingAssumption, NEW w \in Ring!Words, gIndexData = w,
         NEW t \in RingThreads, NEW o \in {"pop", "pop_head"}, NEW n,
         gIndexData' = Ring!NewData(o, w, n),
         gSlot' = [gSlot EXCEPT ![t] = Ring!SlotOf(o, w, n)]
  PROVE  Ring!Ring!PopOldest(t) \/ Ring!Ring!PopNewest(t) \/ Ring!Ring!PopNothing(t)
<1>. DEFINE h == w.onePastHeadIndex
            c == w.count
<1>1. h \in Ring!Indices /\ c \in 0..RingCapacity /\ RingCapacity \in Nat \ {0}
  BY WordParts, RingNumbers
<1>2. /\ Ring!SlotsSeen = SlotsBefore(h, c)
      /\ Ring!SlotsSeen' = SlotsBefore(gIndexData'.onePastHeadIndex, gIndexData'.count)
  BY DEF Ring!SlotsSeen, SlotsBefore
<1>3. CASE c = 0
  <2>1. gIndexData' = w /\ gSlot' = [gSlot EXCEPT ![t] = NoSlot]
    <3>1. ~ (w.count > 0)
      BY <1>3
    <3>2. [w EXCEPT !.count = w.count] = w
      BY WordParts
    <3>3. Ring!TailPopped(w) = w /\ Ring!HeadPopped(w) = w
      BY <3>1, <3>2 DEF Ring!TailPopped, Ring!HeadPopped
    <3>. QED
      BY <3>1, <3>3 DEF Ring!NewData, Ring!SlotOf
  <2>2. Ring!SlotsSeen = <<>> /\ Ring!SlotsSeen' = Ring!SlotsSeen
    BY <1>1, <1>2, <1>3, <2>1, SlotsAre
  <2>. QED
    BY <2>1, <2>2 DEF Ring!Ring!PopNothing
<1>4. CASE c > 0 /\ o = "pop"
  <2>1. gIndexData'.count = c - 1 /\ gIndexData'.onePastHeadIndex = h
    BY <1>1, <1>4, WordParts DEF Ring!NewData, Ring!TailPopped
  <2>2. gSlot' = [gSlot EXCEPT ![t] = (h - c) % RingCapacity]
    BY <1>4 DEF Ring!SlotOf, Ring!TailSlot
  <2>3. c \in 1..RingCapacity
    BY <1>1, <1>4
  <2>. QED
    <3>1. /\ SlotsBefore(h, c) # <<>> /\ Tail(SlotsBefore(h, c)) = SlotsBefore(h, c - 1)
          /\ Head(SlotsBefore(h, c)) = (h - c) % RingCapacity
      BY <1>1, <2>3, PoppedOldest
    <3>2. /\ Ring!SlotsSeen = SlotsBefore(h, c) /\ Ring!SlotsSeen' = SlotsBefore(h, c - 1)
      BY <1>2, <2>1
    <3>3. Ring!SlotsSeen # <<>> /\ Ring!SlotsSeen' = Tail(Ring!SlotsSeen)
      BY <3>1, <3>2
    <3>4. gSlot' = [gSlot EXCEPT ![t] = Head(Ring!SlotsSeen)]
      BY <2>2, <3>1, <3>2
    <3>5. gIndexData'.onePastHeadIndex = gIndexData.onePastHeadIndex
      BY <2>1
    <3>. QED
      BY <3>3, <3>4, <3>5 DEF Ring!Ring!PopOldest
<1>5. CASE c > 0 /\ o = "pop_head"
  <2>. DEFINE e == (h - 1) % RingCapacity
  <2>1. gIndexData'.count = c - 1 /\ gIndexData'.onePastHeadIndex = e
    BY <1>1, <1>5, WordParts DEF Ring!NewData, Ring!HeadPopped
  <2>2. gSlot' = [gSlot EXCEPT ![t] = e]
    BY <1>5 DEF Ring!SlotOf, Ring!HeadPopped
  <2>3. c \in 1..RingCapacity /\ e \in Ring!Indices
    BY <1>1, <1>5, IndexMoves DEF Ring!Indices
  <2>4. /\ SlotsBefore(h, c) # <<>>
        /\ Ring!Ring!Front(SlotsBefore(h, c)) = SlotsBefore(e, c - 1)
        /\ Ring!Ring!Last(SlotsBefore(h, c)) = e
    BY <1>1, <2>3, PoppedNewest
  <2>. HIDE DEF e
  <2>. QED
    BY <1>2, <2>1, <2>2, <2>4 DEF Ring!Ring!PopNewest
<1>. QED
  BY <1>1, <1>3, <1>4, <1>5

LEMMA ExchangeRefines ==
  ASSUME Ring!CapacityAssumption, Ring!RingAssumption, RingInv, NEW t \in RingThreads,
         Ring!Exchange(t)
  PROVE  [Ring!Ring!Next]_(Ring!Ring!vars)
<1>1. /\ gIndexData \in Ring!Words /\ gLen[t] \in RangeLens \cup {1} /\ gOp[t] \in RingOps
      /\ gOp[t] # "range" => gLen[t] = 1
  BY DEF RingInv, Ring!TypeOK, RingCalls, RingOps
<1>2. CASE UNCHANGED <<gIndexData, gSlot>>
  BY <1>2 DEF Ring!Ring!vars, Ring!SlotsSeen
<1>3. CASE /\ gIndexData' = Ring!NewData(gOp[t], gIndexData, gLen[t])
           /\ gSlot' = [gSlot EXCEPT ![t] = Ring!SlotOf(gOp[t], gIndexData, gLen[t])]
  <2>1. CASE gOp[t] \in {"pop", "pop_head"}
    <3>1. Ring!Ring!PopOldest(t) \/ Ring!Ring!PopNewest(t) \/ Ring!Ring!PopNothing(t)
      BY <1>1, <1>3, <2>1, PopRefines
    <3>. QED
      BY <3>1 DEF Ring!Ring!Next
  <2>2. CASE gOp[t] \in {"push", "range"}
    <3>1. /\ gIndexData' = Ring!RangePushed(gIndexData, gLen[t])
          /\ gSlot' = [gSlot EXCEPT ![t] = Ring!RangeSlot(gIndexData, gLen[t])]
      <4>1. CASE gOp[t] = "range"
        BY <1>3, <4>1 DEF Ring!NewData, Ring!SlotOf
      <4>2. CASE gOp[t] = "push"
        <5>1. Ring!Fits(gIndexData, 1)
          BY <1>1, WordParts, RingNumbers DEF Ring!Fits, Ring!Indices
        <5>2. /\ Ring!RangePushed(gIndexData, 1) = Ring!Pushed(gIndexData)
              /\ Ring!RangeSlot(gIndexData, 1) = gIndexData.onePastHeadIndex
          BY <5>1 DEF Ring!RangePushed, Ring!Pushed, Ring!RangeSlot
        <5>. QED
          BY <1>1, <1>3, <4>2, <5>2 DEF Ring!NewData, Ring!SlotOf
      <4>. QED
        BY <2>2, <4>1, <4>2
    <3>2. Ring!Ring!Claim(t, gLen[t])
      BY <1>1, <3>1, PushRefines
    <3>3. gLen[t] \in 1..RingCapacity
      <4>1. RangeLens \subseteq 1..RingCapacity-1
        BY DEF Ring!RingAssumption
      <4>2. \A n \in RangeLens \cup {1} : n \in 1..RingCapacity
        BY <4>1, RingNumbers
      <4>. QED
        BY <1>1, <4>2
    <3>. QED
      BY <3>2, <3>3 DEF Ring!Ring!Next
  <2>. QED
    BY <1>1, <2>1, <2>2 DEF RingOps
<1>. QED
  BY <1>2, <1>3 DEF Ring!Exchange

LEMMA RingRefines ==
  ASSUME Ring!CapacityAssumption, Ring!RingAssumption, RingInv, [Ring!Next]_(Ring!vars)
  PROVE  [Ring!Ring!Next]_(Ring!Ring!vars)
<1>1. ASSUME NEW t \in RingThreads, Ring!Exchange(t)
      PROVE  [Ring!Ring!Next]_(Ring!Ring!vars)
  BY <1>1, ExchangeRefines
<1>2. CASE UNCHANGED <<gIndexData, gSlot>>
  BY <1>2 DEF Ring!Ring!vars, Ring!SlotsSeen
<1>3. (\E t \in RingThreads : Ring!Exchange(t)) \/ UNCHANGED <<gIndexData, gSlot>>
  BY DEF Ring!Next, Ring!vars, Ring!Call, Ring!LoadIndex, Ring!Store, Ring!Read, Ring!Return
<1>. QED
  BY <1>1, <1>2, <1>3

LEMMA RingRefinesInit ==
  ASSUME Ring!CapacityAssumption, Ring!Init
  PROVE  Ring!Ring!Init
<1>1. gIndexData.count = 0 /\ gIndexData.onePastHeadIndex = 0
  BY DEF Ring!Init, Ring!NothingIn
<1>2. 0 \in Ring!Indices /\ 0 \in 0..RingCapacity
  BY RingNumbers DEF Ring!Indices
<1>3. Ring!SlotsSeen = <<>>
  BY <1>1, <1>2, SlotsSeenAre, SlotsAre
<1>. QED
  BY <1>1, <1>3 DEF Ring!Init, Ring!Ring!Init

---------------------------------------------------------------------------
(* Files.                                                                  *)

\* The first n chunks of a list, one after another.
Beginning(list, n) == File!FlattenSeq(SubSeq(list, 1, n))

LEMMA FlattenFile ==
  ASSUME NEW ss PROVE File!FlattenSeq(ss) = FlattenSeq(ss)
BY DEF File!FlattenSeq, FlattenSeq

\* A chunk that follows a beginning makes the next one.
LEMMA BeginningGrows ==
  ASSUME File!FileAssumption, NEW list \in ChunkLists, NEW n \in 0..Len(list)
  PROVE  /\ Len(list) \in Nat /\ n = 0 => Beginning(list, n) = <<>>
         /\ n = Len(list) => Beginning(list, n) = File!FlattenSeq(list)
         /\ Beginning(list, n) \in Seq(Bytes)
         /\ n < Len(list) => Beginning(list, n+1) = Beginning(list, n) \o list[n+1]
<1>1. /\ list \in Seq(Seq(Bytes)) /\ Len(list) \in Nat /\ DOMAIN list = 1..Len(list)
      /\ \A k \in 1..Len(list) : list[k] \in Seq(Bytes)
  <2>1. list \in Seq(Seq(Bytes))
    BY DEF File!FileAssumption
  <2>. QED
    BY <2>1, LenProperties, ElementOfSeq
<1>. DEFINE Cut(m) == SubSeq(list, 1, m)
<1>2. ASSUME NEW m \in 0..Len(list)
      PROVE  Len(Cut(m)) = m /\ \A k \in 1..m : Cut(m)[k] = list[k]
  BY <1>1, SubSeqProperties
<1>3. ASSUME NEW m \in 0..Len(list) PROVE Beginning(list, m) = FlattenSeq(Cut(m))
  BY FlattenFile DEF Beginning
<1>4. Cut(Len(list)) = list
  BY <1>1, SubSeqFull
<1>5. Beginning(list, 0) = <<>>
  <2>1. 0 \in 0..Len(list)
    BY <1>1
  <2>2. Len(Cut(0)) = 0 /\ Cut(0) = <<>>
    BY <1>1
  <2>3. FlattenSeq(Cut(0)) = Cut(0)
    BY <2>2 DEF FlattenSeq
  <2>. QED
    BY <1>3, <2>1, <2>2, <2>3
<1>. HIDE DEF Cut
<1>6. Beginning(list, n) \in Seq(Bytes)
  <2>1. CASE n = 0
    BY <1>5, <2>1, EmptySeq
  <2>2. CASE n # 0
    <3>1. Len(Cut(n)) = n /\ n \in Nat \ {0} /\ n \in 1..n
      <4>1. Len(Cut(n)) = n
        BY <1>2
      <4>2. n \in Nat \ {0} /\ n \in 1..n
        BY <1>1, <2>2
      <4>. QED
        BY <4>1, <4>2
    <3>2. AllSeqs(Cut(n), Bytes, n)
      <4>1. \A k \in 1..n : k \in 1..Len(list)
        BY <1>1
      <4>2. \A k \in 1..n : Cut(n)[k] = list[k]
        BY <1>2
      <4>3. \A k \in 1..n : Cut(n)[k] \in Seq(Bytes)
        BY <1>1, <4>1, <4>2
      <4>. QED
        BY <4>3 DEF AllSeqs
    <3>3. PICK F : Flattens(F, Cut(n), n) /\ FlattenSeq(Cut(n)) = F[n]
      BY <3>1, FlattenIs
    <3>4. AllSeqs(F, Bytes, n)
      BY <3>1, <3>2, <3>3, FlattensTypes
    <3>. QED
      BY <1>3, <3>1, <3>3, <3>4 DEF AllSeqs
  <2>. QED
    BY <2>1, <2>2
<1>7. ASSUME n < Len(list) PROVE Beginning(list, n+1) = Beginning(list, n) \o list[n+1]
  <2>1. n+1 \in 0..Len(list) /\ n+1 \in 1..Len(list) /\ n+1 \in 1..n+1
    BY <1>1, <1>7
  <2>2. Len(Cut(n+1)) = n+1 /\ Len(Cut(n)) = n /\ Cut(n+1)[n+1] = list[n+1]
    BY <1>2, <2>1
  <2>3. CASE n = 0
    <3>1. FlattenSeq(Cut(1)) = Cut(1)[1]
      BY <2>2, <2>3, FlattenOne
    <3>2. Beginning(list, 1) = list[1] /\ list[1] \in Seq(Bytes)
      BY <1>1, <1>3, <2>1, <2>2, <2>3, <3>1
    <3>3. <<>> \o list[1] = list[1]
      BY <3>2, ConcatEmptySeq
    <3>. QED
      BY <1>5, <2>3, <3>2, <3>3
  <2>4. CASE n # 0
    <3>1. Alike(Cut(n), Cut(n+1), n)
      <4>1. \A k \in 1..n : k \in 1..n+1
        OBVIOUS
      <4>. QED
        BY <1>2, <2>1, <4>1 DEF Alike
    <3>2. FlattenSeq(Cut(n+1)) = FlattenSeq(Cut(n)) \o Cut(n+1)[n+1]
      BY <2>2, <2>4, <3>1, FlattenMore
    <3>. QED
      BY <1>3, <2>1, <2>2, <3>2
  <2>. QED
    BY <2>3, <2>4
<1>. QED
  BY <1>1, <1>3, <1>4, <1>5, <1>6, <1>7, FlattenFile

FileTypes ==
  /\ fPc \in [Callers -> {"idle", "writing", "written", "sizing", "reading", "closing"}]
  /\ fChunks \in [Callers -> ChunkLists \cup {<<>>}] /\ fI \in [Callers -> Nat]
  /\ \A c \in Callers : fI[c] \in 0..Len(fChunks[c])
  /\ fSize \in [Callers -> Nat] /\ fError \in [Callers -> BOOLEAN]
  /\ fData \in [Callers -> File!Contents \cup {Null}] /\ fBegun \in ChunkLists \cup {<<>>}

\* The one who writes has put there what is in the file, and one who reads has seen
\* nothing else.
FileHandleRight(c) ==
  /\ c \in File!Writing =>
       /\ fBegun \in ChunkLists /\ fChunks[c] = fBegun /\ fFile = Beginning(fBegun, fI[c])
       /\ fPc[c] = "written" /\ ~ fError[c] => fI[c] = Len(fBegun)
  /\ c \in File!Reading =>
       /\ fFile # NoFile
       /\ fPc[c] \in {"sizing", "reading"} => fData[c] = Null
       /\ fPc[c] = "reading" => fSize[c] = Len(fFile)
       /\ fPc[c] = "closing" => fData[c] \in {Null, fFile}

FileBegun ==
  fFile # NoFile => fBegun \in ChunkLists /\ \E n \in 0..Len(fBegun) : fFile = Beginning(fBegun, n)

WriterAlone == \A c, d \in Callers : c \in File!Writing /\ c # d => fPc[d] = "idle"

FileInv == FileTypes /\ (\A c \in Callers : FileHandleRight(c)) /\ FileBegun /\ WriterAlone

LEMMA FileFacts ==
  ASSUME File!FileAssumption, FileInv
  PROVE  /\ fFile # NoFile => fFile \in File!Contents /\ fFile \in Seq(Bytes)
         /\ \A c \in Callers : Len(fChunks[c]) \in Nat
<1>1. ASSUME fFile # NoFile PROVE fFile \in File!Contents /\ fFile \in Seq(Bytes)
  <2>1. PICK n \in 0..Len(fBegun) : fFile = Beginning(fBegun, n)
    BY <1>1 DEF FileInv, FileBegun
  <2>2. fBegun \in ChunkLists
    BY <1>1 DEF FileInv, FileBegun
  <2>3. fFile \in File!Contents
    BY <2>1, <2>2 DEF File!Contents, Beginning
  <2>. QED
    BY <2>1, <2>2, <2>3, BeginningGrows
<1>2. ASSUME NEW c \in Callers PROVE Len(fChunks[c]) \in Nat
  <2>1. fChunks[c] \in ChunkLists \cup {<<>>}
    BY DEF FileInv, FileTypes
  <2>2. fChunks[c] \in Seq(Seq(Bytes))
    BY <2>1, EmptySeq DEF File!FileAssumption
  <2>. QED
    BY <2>2, LenProperties
<1>. QED
  BY <1>1, <1>2

\* A step of one caller, which changes the file only when no one else has it open.
LEMMA FileStepBy ==
  ASSUME FileInv, NEW c \in Callers, FileTypes', FileHandleRight(c)', FileBegun',
         \A d \in Callers \ {c} :
           /\ fPc'[d] = fPc[d] /\ fChunks'[d] = fChunks[d] /\ fI'[d] = fI[d]
           /\ fError'[d] = fError[d] /\ fSize'[d] = fSize[d] /\ fData'[d] = fData[d],
         UNCHANGED <<fFile, fBegun>> \/ \A d \in Callers \ {c} : fPc[d] = "idle",
         fPc'[c] \in {"writing", "written"} => \A d \in Callers \ {c} : fPc[d] = "idle",
         fPc'[c] # "idle" => \A d \in Callers \ {c} : d \notin File!Writing
  PROVE  FileInv'
<1>1. ASSUME NEW d \in Callers, d # c PROVE FileHandleRight(d)'
  <2>1. FileHandleRight(d) /\ d \in Callers \ {c}
    BY <1>1 DEF FileInv
  <2>2. CASE fPc[d] = "idle"
    BY <2>1, <2>2 DEF FileHandleRight, File!Writing, File!Reading
  <2>3. CASE UNCHANGED <<fFile, fBegun>>
    BY <2>1, <2>3 DEF FileHandleRight, File!Writing, File!Reading
  <2>. QED
    BY <2>1, <2>2, <2>3
<1>2. WriterAlone'
  <2>. SUFFICES ASSUME NEW d \in Callers, NEW e \in Callers, d \in File!Writing', d # e
                PROVE  fPc'[e] = "idle"
    BY DEF WriterAlone
  <2>1. fPc'[d] \in {"writing", "written"}
    BY DEF File!Writing
  <2>2. CASE d = c
    BY <2>1, <2>2
  <2>3. CASE d # c
    <3>1. d \in File!Writing /\ d \in Callers \ {c}
      BY <2>1, <2>3 DEF File!Writing
    <3>2. fPc[e] = "idle"
      BY <3>1 DEF FileInv, WriterAlone
    <3>. QED
      BY <3>1, <3>2
  <2>. QED
    BY <2>2, <2>3
<1>. QED
  BY <1>1, <1>2 DEF FileInv

LEMMA FileInit ==
  ASSUME File!FileAssumption, File!Init
  PROVE  FileInv
<1>1. FileTypes
  BY DEF File!Init, FileTypes
<1>. QED
  BY <1>1 DEF File!Init, FileInv, FileHandleRight, FileBegun, WriterAlone, File!Writing, File!Reading

LEMMA OpenToWriteStep ==
  ASSUME File!FileAssumption, FileInv, NEW c \in Callers, NEW list \in ChunkLists,
         NEW overwrite \in BOOLEAN, File!OpenToWrite(c, list, overwrite)
  PROVE  FileInv'
<1>1. 0 \in 0..Len(list) /\ Beginning(list, 0) = <<>> /\ Len(list) \in Nat
  <2>1. Len(list) \in Nat
    BY LenProperties DEF File!FileAssumption
  <2>. QED
    BY <2>1, BeginningGrows
<1>2. FileTypes'
  BY <1>1 DEF FileInv, FileTypes, File!OpenToWrite, File!Goto
<1>3. FileHandleRight(c)'
  BY <1>1 DEF FileInv, FileTypes, FileHandleRight, File!OpenToWrite, File!Goto, File!Writing, File!Reading
<1>4. FileBegun'
  BY <1>1 DEF FileBegun, File!OpenToWrite
<1>5. \A d \in Callers \ {c} : fPc[d] = "idle"
  BY DEF FileInv, FileTypes, File!OpenToWrite, File!MayCreate, File!Writing, File!Reading
<1>6. \A d \in Callers \ {c} :
        /\ fPc'[d] = fPc[d] /\ fChunks'[d] = fChunks[d] /\ fI'[d] = fI[d]
        /\ fError'[d] = fError[d] /\ fSize'[d] = fSize[d] /\ fData'[d] = fData[d]
  BY DEF FileInv, FileTypes, File!OpenToWrite, File!Goto
<1>. QED
  BY <1>2, <1>3, <1>4, <1>5, <1>6, FileStepBy DEF File!Writing

\* The caller that writes is the only one, and the file is what it has written.
LEMMA WriterFacts ==
  ASSUME File!FileAssumption, FileInv, NEW c \in File!Writing
  PROVE  /\ \A d \in Callers \ {c} : fPc[d] = "idle"
         /\ fBegun \in ChunkLists /\ fChunks[c] = fBegun /\ fI[c] \in 0..Len(fBegun)
         /\ Len(fBegun) \in Nat /\ fFile = Beginning(fBegun, fI[c]) /\ c \in Callers
         /\ fPc[c] = "written" /\ ~ fError[c] => fI[c] = Len(fBegun)
<1>1. c \in Callers /\ FileHandleRight(c)
  BY DEF FileInv, File!Writing
<1>2. \A d \in Callers \ {c} : fPc[d] = "idle"
  BY <1>1 DEF FileInv, WriterAlone
<1>3. fI[c] \in 0..Len(fChunks[c])
  BY <1>1 DEF FileInv, FileTypes
<1>. QED
  BY <1>1, <1>2, <1>3, FileFacts DEF FileHandleRight

LEMMA WriteChunkStep ==
  ASSUME File!FileAssumption, FileInv, NEW c \in Callers, File!WriteChunk(c)
  PROVE  FileInv'
<1>. DEFINE n == fI[c]
<1>1. c \in File!Writing
  BY DEF File!WriteChunk, File!Writing
<1>2. /\ \A d \in Callers \ {c} : fPc[d] = "idle"
      /\ fBegun \in ChunkLists /\ fChunks[c] = fBegun /\ n \in 0..Len(fBegun)
      /\ Len(fBegun) \in Nat /\ fFile = Beginning(fBegun, n)
  BY <1>1, WriterFacts
<1>3. /\ fPc[c] = "writing" /\ n < Len(fBegun) /\ fFile' = fFile \o fBegun[n + 1]
      /\ fI' = [fI EXCEPT ![c] = n + 1]
      /\ UNCHANGED <<fPc, fChunks, fError, fSize, fData, fBegun>>
  BY <1>2 DEF File!WriteChunk
<1>4. n+1 \in 0..Len(fBegun) /\ fFile' = Beginning(fBegun, n+1)
  <2>1. n+1 \in 0..Len(fBegun)
    BY <1>2, <1>3
  <2>. HIDE DEF n
  <2>2. Beginning(fBegun, n+1) = Beginning(fBegun, n) \o fBegun[n+1]
    BY <1>2, <1>3, BeginningGrows
  <2>. QED
    BY <1>2, <1>3, <2>1, <2>2
<1>5. fI \in [Callers -> Nat] /\ fI'[c] = n+1 /\ \A d \in Callers \ {c} : fI'[d] = fI[d]
  BY <1>3 DEF FileInv, FileTypes
<1>6. FileTypes'
  <2>1. fI' \in [Callers -> Nat]
    BY <1>3, <1>4, <1>5
  <2>2. \A d \in Callers : fI'[d] \in 0..Len(fChunks'[d])
    BY <1>2, <1>3, <1>4, <1>5 DEF FileInv, FileTypes
  <2>. QED
    BY <1>3, <2>1, <2>2 DEF FileInv, FileTypes, File!Contents
<1>7. FileHandleRight(c)'
  BY <1>2, <1>3, <1>4, <1>5 DEF FileHandleRight, File!Writing, File!Reading
<1>8. FileBegun'
  BY <1>2, <1>3, <1>4 DEF FileBegun
<1>. QED
  BY <1>2, <1>3, <1>5, <1>6, <1>7, <1>8, FileStepBy DEF File!Writing

\* A step that leaves the file as it is.
LEMMA FileStays ==
  ASSUME FileInv, UNCHANGED <<fFile, fBegun>>
  PROVE  FileBegun'
BY DEF FileInv, FileBegun

LEMMA WriteEndsStep ==
  ASSUME File!FileAssumption, FileInv, NEW c \in Callers,
         File!WriteFails(c) \/ File!AllWritten(c) \/ File!CloseWritten(c)
  PROVE  FileInv'
<1>1. c \in File!Writing
  BY DEF File!WriteFails, File!AllWritten, File!CloseWritten, File!Goto, File!Writing
<1>2. /\ \A d \in Callers \ {c} : fPc[d] = "idle"
      /\ fBegun \in ChunkLists /\ fChunks[c] = fBegun /\ fI[c] \in 0..Len(fBegun)
      /\ fFile = Beginning(fBegun, fI[c])
  BY <1>1, WriterFacts
<1>3. UNCHANGED <<fFile, fBegun, fSize, fData>>
  BY DEF File!WriteFails, File!AllWritten, File!CloseWritten
<1>4. FileTypes'
  <2>1. fPc' \in [Callers -> {"idle", "writing", "written", "sizing", "reading", "closing"}]
    BY DEF FileInv, FileTypes, File!WriteFails, File!AllWritten, File!CloseWritten, File!Goto
  <2>2. fError' \in [Callers -> BOOLEAN]
    BY DEF FileInv, FileTypes, File!WriteFails, File!AllWritten, File!CloseWritten
  <2>3. /\ fChunks' \in [Callers -> ChunkLists \cup {<<>>}] /\ fI' \in [Callers -> Nat]
        /\ \A d \in Callers : fI'[d] \in 0..Len(fChunks'[d])
    <3>1. CASE File!CloseWritten(c)
      <4>1. \A d \in Callers : IF d = c THEN fChunks'[d] = <<>> /\ fI'[d] = 0
                                        ELSE fChunks'[d] = fChunks[d] /\ fI'[d] = fI[d]
        BY <3>1 DEF FileInv, FileTypes, File!CloseWritten
      <4>2. \A d \in Callers : fI'[d] \in 0..Len(fChunks'[d])
        BY <4>1 DEF FileInv, FileTypes
      <4>. QED
        BY <3>1, <4>2 DEF FileInv, FileTypes, File!CloseWritten
    <3>2. CASE File!WriteFails(c) \/ File!AllWritten(c)
      BY <3>2 DEF FileInv, FileTypes, File!WriteFails, File!AllWritten
    <3>. QED
      BY <3>1, <3>2
  <2>. QED
    BY <1>3, <2>1, <2>2, <2>3 DEF FileInv, FileTypes, File!Contents
<1>5. FileHandleRight(c)'
  <2>1. CASE File!CloseWritten(c)
    <3>1. fPc'[c] = "idle" /\ fI'[c] = 0 /\ fChunks'[c] = <<>> /\ c \notin File!Writing' /\ c \notin File!Reading'
      BY <2>1 DEF FileInv, FileTypes, File!CloseWritten, File!Goto, File!Writing, File!Reading
    <3>. QED
      BY <3>1 DEF FileHandleRight
  <2>2. CASE File!WriteFails(c) \/ File!AllWritten(c)
    <3>1. fPc'[c] = "written" /\ c \notin File!Reading' /\ UNCHANGED <<fChunks, fI, fBegun, fFile>>
      BY <2>2 DEF FileInv, FileTypes, File!WriteFails, File!AllWritten, File!Goto, File!Reading
    <3>2. ~fError'[c] => fI[c] = Len(fBegun)
      BY <2>2, <1>2 DEF FileInv, FileTypes, File!WriteFails, File!AllWritten
    <3>. QED
      BY <1>2, <3>1, <3>2 DEF FileHandleRight
  <2>. QED
    BY <2>1, <2>2
<1>6. \A d \in Callers \ {c} :
        /\ fPc'[d] = fPc[d] /\ fChunks'[d] = fChunks[d] /\ fI'[d] = fI[d]
        /\ fError'[d] = fError[d] /\ fSize'[d] = fSize[d] /\ fData'[d] = fData[d]
  BY DEF FileInv, FileTypes, File!WriteFails, File!AllWritten, File!CloseWritten, File!Goto
<1>. QED
  BY <1>2, <1>3, <1>4, <1>5, <1>6, FileStays, FileStepBy DEF File!Writing

LEMMA ReadStep ==
  ASSUME File!FileAssumption, FileInv, NEW c \in Callers,
         File!OpenToRead(c) \/ File!GetSize(c) \/ File!ReadAll(c) \/ File!ReadFails(c) \/ File!CloseRead(c)
  PROVE  FileInv'
<1>1. /\ fFile # NoFile /\ UNCHANGED <<fFile, fBegun, fChunks, fI, fError>>
      /\ \A d \in Callers \ {c} : d \notin File!Writing
      /\ fPc'[c] \notin {"writing", "written"}
  <2>1. CASE File!OpenToRead(c)
    BY <2>1 DEF File!OpenToRead, File!MayRead, File!Goto, FileInv, FileTypes
  <2>2. CASE c \in File!Reading
    <3>1. \A d \in Callers \ {c} : d \notin File!Writing
      BY <2>2 DEF FileInv, WriterAlone, File!Reading
    <3>2. fFile # NoFile
      BY <2>2 DEF FileInv, FileHandleRight, File!Reading
    <3>3. ~ File!OpenToRead(c)
      BY <2>2 DEF File!OpenToRead, File!Goto, File!Reading
    <3>. QED
      BY <3>1, <3>2, <3>3 DEF File!GetSize, File!ReadAll, File!ReadFails, File!CloseRead, File!Goto,
         FileInv, FileTypes
  <2>3. File!OpenToRead(c) \/ c \in File!Reading
    BY DEF File!GetSize, File!ReadAll, File!ReadFails, File!CloseRead, File!Goto, File!Reading
  <2>. QED
    BY <2>1, <2>2, <2>3
<1>2. fFile \in File!Contents /\ fFile \in Seq(Bytes) /\ Len(fFile) \in Nat
      /\ SubSeq(fFile, 1, Len(fFile)) = fFile
  BY <1>1, FileFacts, LenProperties, SubSeqFull
<1>3. ASSUME File!ReadAll(c)
      PROVE  /\ fData' = [fData EXCEPT ![c] = fFile] /\ fPc' = [fPc EXCEPT ![c] = "closing"]
             /\ UNCHANGED fSize
  <2>1. fPc[c] = "reading" /\ c \in File!Reading
    BY <1>3 DEF File!ReadAll, File!Goto, File!Reading
  <2>2. fSize[c] = Len(fFile)
    BY <2>1 DEF FileInv, FileHandleRight
  <2>. QED
    BY <1>2, <1>3, <2>2 DEF File!ReadAll, File!Goto
<1>4. FileTypes'
  <2>1. fPc' \in [Callers -> {"idle", "writing", "written", "sizing", "reading", "closing"}]
    BY DEF FileInv, FileTypes, File!OpenToRead, File!GetSize, File!ReadAll, File!ReadFails, File!CloseRead,
       File!Goto
  <2>2. fSize' \in [Callers -> Nat]
    BY <1>2, <1>3 DEF FileInv, FileTypes, File!OpenToRead, File!GetSize, File!ReadFails, File!CloseRead
  <2>3. fData' \in [Callers -> File!Contents \cup {Null}]
    <3>. HIDE DEF File!Contents
    <3>. QED
      BY <1>2, <1>3 DEF FileInv, FileTypes, File!OpenToRead, File!GetSize, File!ReadFails, File!CloseRead
  <2>. QED
    BY <1>1, <2>1, <2>2, <2>3 DEF FileInv, FileTypes, File!Contents
<1>5. FileHandleRight(c)'
  <2>1. FileHandleRight(c) /\ fPc \in [Callers -> {"idle", "writing", "written", "sizing", "reading", "closing"}]
        /\ fSize \in [Callers -> Nat] /\ DOMAIN fData = Callers
    BY DEF FileInv, FileTypes
  <2>2. CASE File!OpenToRead(c)
    BY <1>1, <2>1, <2>2 DEF FileHandleRight, File!OpenToRead, File!Goto, File!Writing, File!Reading
  <2>3. CASE File!GetSize(c)
    BY <1>1, <2>1, <2>3 DEF FileHandleRight, File!GetSize, File!Goto, File!Writing, File!Reading
  <2>4. CASE File!ReadAll(c)
    BY <1>1, <1>3, <2>1, <2>4 DEF FileHandleRight, File!Writing, File!Reading
  <2>5. CASE File!ReadFails(c)
    BY <1>1, <2>1, <2>5 DEF FileHandleRight, File!ReadFails, File!Goto, File!Writing, File!Reading
  <2>6. CASE File!CloseRead(c)
    BY <1>1, <2>1, <2>6 DEF FileHandleRight, File!CloseRead, File!Goto, File!Writing, File!Reading
  <2>. QED
    BY <2>2, <2>3, <2>4, <2>5, <2>6
<1>6. \A d \in Callers \ {c} :
        /\ fPc'[d] = fPc[d] /\ fChunks'[d] = fChunks[d] /\ fI'[d] = fI[d]
        /\ fError'[d] = fError[d] /\ fSize'[d] = fSize[d] /\ fData'[d] = fData[d]
  <2>1. \A d \in Callers \ {c} : fPc'[d] = fPc[d] /\ fSize'[d] = fSize[d]
    BY <1>3 DEF FileInv, FileTypes, File!OpenToRead, File!GetSize, File!ReadFails, File!CloseRead, File!Goto
  <2>2. \A d \in Callers \ {c} : fData'[d] = fData[d]
    BY <1>3 DEF FileInv, FileTypes, File!OpenToRead, File!GetSize, File!ReadFails, File!CloseRead
  <2>. QED
    BY <1>1, <2>1, <2>2
<1>. QED
  BY <1>1, <1>4, <1>5, <1>6, FileStays, FileStepBy

LEMMA KilledStep ==
  ASSUME File!FileAssumption, FileInv, NEW c \in Callers, File!Killed(c)
  PROVE  FileInv'
<1>1. FileTypes'
  BY EmptySeq DEF FileInv, FileTypes, File!Killed, File!Goto, File!Contents
<1>2. FileHandleRight(c)' /\ fPc'[c] = "idle"
  BY DEF FileInv, FileTypes, FileHandleRight, File!Killed, File!Goto, File!Writing, File!Reading
<1>3. \A d \in Callers \ {c} :
        /\ fPc'[d] = fPc[d] /\ fChunks'[d] = fChunks[d] /\ fI'[d] = fI[d]
        /\ fError'[d] = fError[d] /\ fSize'[d] = fSize[d] /\ fData'[d] = fData[d]
  BY DEF FileInv, FileTypes, File!Killed, File!Goto
<1>4. UNCHANGED <<fFile, fBegun>>
  BY DEF File!Killed
<1>. QED
  BY <1>1, <1>2, <1>3, <1>4, FileStays, FileStepBy

LEMMA FileStep ==
  ASSUME File!FileAssumption, FileInv, [File!Next]_(File!vars)
  PROVE  FileInv'
<1>1. CASE UNCHANGED File!vars
  BY <1>1 DEF File!vars, FileInv, FileTypes, FileHandleRight, FileBegun, WriterAlone,
     File!Writing, File!Reading, File!Contents
<1>2. CASE File!Next
  <2>1. PICK c \in Callers :
          \/ \E list \in ChunkLists, overwrite \in BOOLEAN : File!OpenToWrite(c, list, overwrite)
          \/ File!OpenToRead(c) \/ File!Step(c) \/ File!Killed(c)
    BY <1>2 DEF File!Next
  <2>2. ASSUME NEW list \in ChunkLists, NEW overwrite \in BOOLEAN, File!OpenToWrite(c, list, overwrite)
        PROVE  FileInv'
    BY <2>2, OpenToWriteStep
  <2>. QED
    BY <2>1, <2>2, WriteChunkStep, WriteEndsStep, ReadStep, KilledStep DEF File!Step
<1>. QED
  BY <1>1, <1>2

\* What the invariant says of the file, and of a write that succeeds.
LEMMA FileInvSays ==
  ASSUME File!FileAssumption, FileInv
  PROVE  /\ File!TypeOK /\ File!OneWritesChunks /\ File!ReadIsCurrent
         /\ \A c \in Callers : File!CloseWritten(c) /\ ~ fError[c] => fFile = File!FlattenSeq(fChunks[c])
<1>1. File!TypeOK
  BY FileFacts DEF FileInv, FileTypes, File!TypeOK
<1>2. File!OneWritesChunks
  BY DEF FileInv, FileBegun, Beginning, File!OneWritesChunks
<1>3. File!ReadIsCurrent
  BY DEF FileInv, FileHandleRight, File!ReadIsCurrent, File!Reading
<1>4. ASSUME NEW c \in Callers, File!CloseWritten(c), ~ fError[c]
      PROVE  fFile = File!FlattenSeq(fChunks[c])
  <2>1. c \in File!Writing /\ fPc[c] = "written"
    BY <1>4 DEF File!CloseWritten, File!Goto, File!Writing
  <2>2. /\ fBegun \in ChunkLists /\ fChunks[c] = fBegun /\ fI[c] \in 0..Len(fBegun)
        /\ fFile = Beginning(fBegun, fI[c]) /\ fI[c] = Len(fBegun)
    BY <1>4, <2>1, WriterFacts
  <2>. QED
    BY <2>2, BeginningGrows
<1>. QED
  BY <1>1, <1>2, <1>3, <1>4

---------------------------------------------------------------------------
\* The components of MCThreading: a step of the composite is a step of one of them,
\* or leaves it alone.
LEMMA StepOfOne ==
  /\ AllInit => Sem!Init /\ Pre!Init /\ Ben!Init /\ Init /\ Ring!Init /\ Table!Init /\ File!Init
  /\ [AllNext]_allVars => [Sem!Next]_(Sem!vars) /\ [Pre!Next]_(Pre!vars)
                           /\ [Ben!Next]_(Ben!vars) /\ [Next]_vars
                           /\ [Ring!Next]_(Ring!vars) /\ [Table!Next]_(Table!vars)
                           /\ [File!Next]_(File!vars)
<1>1. AllInit => Sem!Init /\ Pre!Init /\ Ben!Init /\ Init /\ Ring!Init /\ Table!Init /\ File!Init
  BY DEF AllInit
<1>2. [AllNext]_allVars => \/ RunSem \/ RunPre \/ RunBen \/ RunRec \/ RunRing \/ RunTable
                           \/ RunFile
                           \/ UNCHANGED <<semVars, preVars, benVars, vars, ringVars, tableVars, fileVars>>
  BY DEF AllNext, allVars
<1>3. RunSem => Sem!Next /\ UNCHANGED <<preVars, benVars, vars, ringVars, tableVars, fileVars>>
  BY DEF RunSem, OnlySem
<1>4. RunPre => Pre!Next /\ UNCHANGED <<semVars, benVars, vars, ringVars, tableVars, fileVars>>
  BY DEF RunPre, OnlyPre
<1>5. RunBen => Ben!Next /\ UNCHANGED <<semVars, preVars, vars, ringVars, tableVars, fileVars>>
  BY DEF RunBen, OnlyBen
<1>6. RunRec => Next /\ UNCHANGED <<semVars, preVars, benVars, ringVars, tableVars, fileVars>>
  BY DEF RunRec, OnlyRec
<1>7. RunRing => Ring!Next /\ UNCHANGED <<semVars, preVars, benVars, vars, tableVars, fileVars>>
  BY DEF RunRing, OnlyRing
<1>8. RunTable => Table!Next /\ UNCHANGED <<semVars, preVars, benVars, vars, ringVars, fileVars>>
  BY DEF RunTable, OnlyTable
<1>9. RunFile => File!Next /\ UNCHANGED <<semVars, preVars, benVars, vars, ringVars, tableVars>>
  BY DEF RunFile, OnlyFile
<1>10. ASSUME [AllNext]_allVars
      PROVE  /\ [Sem!Next]_(Sem!vars) /\ [Pre!Next]_(Pre!vars)
             /\ [Ben!Next]_(Ben!vars) /\ [Next]_vars
             /\ [Ring!Next]_(Ring!vars) /\ [Table!Next]_(Table!vars)
             /\ [File!Next]_(File!vars)
  <2>1. /\ Sem!Next \/ UNCHANGED semVars
        /\ Pre!Next \/ UNCHANGED preVars
        /\ Ben!Next \/ UNCHANGED benVars
        /\ Next \/ UNCHANGED vars
        /\ Ring!Next \/ UNCHANGED ringVars
        /\ Table!Next \/ UNCHANGED tableVars
        /\ File!Next \/ UNCHANGED fileVars
    BY <1>2, <1>3, <1>4, <1>5, <1>6, <1>7, <1>8, <1>9, <1>10
  <2>. QED
    BY <2>1 DEF semVars, Sem!vars, preVars, Pre!vars, benVars, Ben!vars,
                ringVars, Ring!vars, tableVars, Table!vars, fileVars, File!vars
<1>. QED
  BY <1>1, <1>10

\* Of the threads that use a Semaphore: none sleeps on a permit that nobody else is
\* about to take (Signal and the waits of threading.h).
THEOREM SemaphoreWakes == AllSpec => []SemaphoreNoLostWakeup
<1>1. Sem!Spec => []Sem!SemaphoreNoLostWakeup
  BY ThreadingAssumptions, Sem!SemaphoreCorrect
<1>. QED
  BY <1>1, StepOfOne, PTL DEF AllSpec, Sem!Spec, SemaphoreNoLostWakeup

\* Of the threads that use a PreshingSemaphore: the negative count is its sleepers
\* without a permit, and every other sleeper has one in the system's semaphore or on
\* its way there (Wait, TryWait and Signal of threading.h).
THEOREM PreshingWakes == AllSpec => []PreshingSleepersAccountedFor
<1>1. PreInv => Pre!PreshingSleepersAccountedFor
  BY DEF PreInv, Pre!PreshingSleepersAccountedFor
<1>2. Pre!Spec => []PreInv
  BY ThreadingAssumptions, PreInductive
<1>. QED
  BY <1>1, <1>2, StepOfOne, PTL DEF AllSpec, Pre!Spec, PreshingSleepersAccountedFor

\* Both kinds of semaphore are counting semaphores: a wait takes a permit of its own,
\* and the two counts of a PreshingSemaphore, changed one after the other, are one.
THEOREM SemaphoresCount == AllSpec => SemaphoresImplementPermits
<1>1. Sem!Spec => Sem!ImplementsPermits
  BY ThreadingAssumptions, Sem!SemaphoreIsCounting
<1>2. Pre!Spec => Pre!ImplementsPermits
  BY ThreadingAssumptions, PreIsCounting
<1>. QED
  BY <1>1, <1>2, StepOfOne, PTL DEF AllSpec, Sem!Spec, Pre!Spec, SemaphoresImplementPermits

\* Two threads are never inside a Benaphore, and its baton is neither lost nor
\* doubled (Lock, TryLock and Unlock of threading.h).
THEOREM BenaphoreHandsOver == AllSpec => []BenaphoreOneBaton
<1>1. Ben!Spec => []Ben!BenaphoreOneBaton
  BY ThreadingAssumptions, Ben!BenaphoreCorrect
<1>. QED
  BY <1>1, StepOfOne, PTL DEF AllSpec, Ben!Spec, BenaphoreOneBaton

\* Both kinds of benaphore are locks: each step is one of a lock that its holder may
\* take again (the one a Benaphore is may be taken once).
THEOREM BenaphoresAreLocks == AllSpec => BenaphoresImplementLocks
<1>1. Ben!Spec => Ben!ImplementsLock
  BY ThreadingAssumptions, Ben!BenaphoreIsLock
<1>2. Spec => ImplementsLock
  BY ThreadingAssumptions, RecursiveIsLock
<1>. QED
  BY <1>1, <1>2, StepOfOne, PTL DEF AllSpec, Ben!Spec, Spec, BenaphoresImplementLocks

\* Threads that push and pop a SyncRingBuffer get its slots in order: the indexes are a
\* lossy queue of slots, although the exchange cannot tell a word from an older one
\* that has come back (Push, PushEmptyRangeAdjacent, TryPop and TryPopHead of
\* datatypes.h).
THEOREM RingIsLossyQueue == AllSpec => RingSlotsInOrder
<1>1. Ring!CapacityAssumption /\ Ring!RingAssumption
  BY ThreadingAssumptions
<1>2. Ring!Spec => []RingInv
  BY <1>1, RingInit, RingStep, PTL DEF Ring!Spec
<1>3. RingInv => Ring!TypeOK
  BY DEF RingInv
<1>4. Ring!Init => Ring!Ring!Init
  BY <1>1, RingRefinesInit
<1>5. RingInv /\ [Ring!Next]_(Ring!vars) => [Ring!Ring!Next]_(Ring!Ring!vars)
  BY <1>1, RingRefines
<1>. QED
  BY <1>2, <1>3, <1>4, <1>5, StepOfOne, PTL
     DEF AllSpec, Ring!Spec, Ring!SlotsInOrder, Ring!Ring!Spec, RingSlotsInOrder

\* Although JoinThread fills the entry it frees from the wrong place, and CreateThread
\* may take the entry of another live thread: a thread that first runs before it is
\* joined, and before CreateThread gave its entry to a later one, runs what it was
\* created for (CreateThread, WorkerThreadProc and JoinThread of win32_platform.cpp).
THEOREM TableFindsThreads == AllSpec => TableStartsRight
<1>1. Table!Spec => []TableInv
  <2>1. Table!TableAssumption
    BY ThreadingAssumptions
  <2>. QED
    BY <2>1, TableInit, TableStep, PTL DEF Table!Spec
<1>2. TableInv => Table!TypeOK /\ Table!CountRight
  BY ThreadingAssumptions, TableInvCounts
<1>3. TableInv /\ [Table!Next]_(Table!vars)
        => [\A h \in Handles \ tOvertaken :
              tState[h] = "created" /\ tState'[h] = "running" /\ h # tJoining
                => tRan'[h] = tJob[h]]_(Table!vars)
  BY ThreadingAssumptions, TableStarts
<1>. QED
  BY <1>1, <1>2, <1>3, StepOfOne, PTL
     DEF AllSpec, Table!Spec, Table!StartsRight, TableStartsRight

\* A file is the beginning of the chunks of one write, and of all of them when that
\* write succeeds, whoever opens it, fails or is killed in between; and what was read
\* of it is its content until it is closed (WriteFileChunks and ReadEntireFile of
\* win32_platform.cpp).
THEOREM FilesKeptWhole == AllSpec => FilesAreWhole
<1>1. File!FileAssumption
  BY ThreadingAssumptions
<1>2. File!Spec => []FileInv
  BY <1>1, FileInit, FileStep, PTL DEF File!Spec
<1>3. FileInv => File!TypeOK /\ File!OneWritesChunks /\ File!ReadIsCurrent
  BY <1>1, FileInvSays
<1>4. FileInv /\ [File!Next]_(File!vars)
        => [\A c \in Callers :
              File!CloseWritten(c) /\ ~ fError[c] => fFile = File!FlattenSeq(fChunks[c])]_(File!vars)
  BY <1>1, FileInvSays
<1>. QED
  BY <1>2, <1>3, <1>4, StepOfOne, PTL
     DEF AllSpec, File!Spec, File!SuccessIsWhole, FilesAreWhole

=============================================================================
