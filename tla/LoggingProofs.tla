---------------------------- MODULE LoggingProofs ----------------------------
(***************************************************************************)
(* Proofs about the log, for any threads that log and any sizes.  A permit *)
(* stands for each entry until Shutdown adds one that does not, and what   *)
(* is printed is what was logged, as long as no more messages wait than    *)
(* the two buffers have room for.                                          *)
(*                                                                         *)
(* The first invariant counts: the entries in the queue against permits    *)
(* and loggers, with the bound of the backlog, without which the count of  *)
(* the queue stops and the permits go on, and with what thread says of     *)
(* main.  The second, Printing, says where everything is: the list of all  *)
(* messages begun, of which the printed ones are the beginning, the queue  *)
(* the middle and the message that a logger is at the end; and the         *)
(* positions of their texts, had the text buffer no end.                   *)
(***************************************************************************)
EXTENDS Logging, ThreadCounts, SequenceTheorems

(***************************************************************************)
(* The entries, the permits and the loggers.                               *)
(***************************************************************************)

Unsignalled == At({"clear", "fill", "write", "signal"})
InHand      == IF worker \in {"copy", "deliver", "zero"} THEN 1 ELSE 0
Popping     == IF worker = "pop" THEN 1 ELSE 0
BeforeStop  == main \in {"create", "store", "running", "signal"}

CountsTyped ==
  /\ permits \in Nat
  /\ entryWord \in [count : 0..EntryCapacity, onePastHeadIndex : Int]
  /\ pc \in [Producers -> {"idle", "entry", "clear", "fill", "write", "signal"}]
  /\ thread => main = "running"
  /\ main = "create" => worker = "none"

IInv ==
  /\ CountsTyped
  /\ Backlog <= MaxBacklog
  /\ BeforeStop => entryWord.count = permits + Popping + Cardinality(Unsignalled)

LEMMA CountsOfPlaces ==
  ASSUME LoggingAssumption, NEW places
  PROVE  IsFiniteSet(At(places)) /\ Cardinality(At(places)) \in Nat
<1>1. At(places) \in SUBSET Producers
  BY DEF At
<1>. QED
  BY <1>1, FS_Subset, CountMembers DEF LoggingAssumption

\* A step of one thread that logs: how it changes the number of those at a place.
LEMMA PlacesMove ==
  ASSUME LoggingAssumption, CountsTyped, NEW places, NEW p \in Producers, NEW from, NEW to,
         ProducerStep(p, from, to)
  PROVE  Cardinality(At(places)') = Cardinality(At(places))
           + (IF to \in places THEN 1 ELSE 0) - (IF from \in places THEN 1 ELSE 0)
<1>1. pc[p] = from /\ pc'[p] = to /\ \A q \in Producers : q # p => pc'[q] = pc[q]
  BY DEF ProducerStep, CountsTyped
<1>2. /\ \A q : q # p => (q \in At(places) <=> q \in At(places)')
      /\ (p \in At(places) <=> from \in places) /\ (p \in At(places)' <=> to \in places)
  BY <1>1 DEF At
<1>3. IsFiniteSet(At(places)) /\ Cardinality(At(places)) \in Nat
  BY CountsOfPlaces
<1>. HIDE DEF At
<1>. QED
  BY <1>2, <1>3, CountMoves

\* The threads that log stay where they are.
LEMMA PlacesStay ==
  ASSUME pc' = pc, NEW places
  PROVE  At(places)' = At(places)
BY DEF At

\* What the invariant looks at, in a step that a thread that logs does not take.
LEMMA OthersStep ==
  ASSUME LoggingAssumption, IInv, pc' = pc, CountsTyped',
         InHand' + entryWord'.count <= InHand + entryWord.count,
         BeforeStop' => BeforeStop /\ entryWord'.count - permits' - Popping'
                                      = entryWord.count - permits - Popping
  PROVE  IInv'
<1>1. /\ Cardinality(At({"entry"}))' = Cardinality(At({"entry"}))
      /\ Cardinality(Unsignalled)' = Cardinality(Unsignalled)
  BY PlacesStay DEF Unsignalled
<1>2. Cardinality(At({"entry"})) \in Nat /\ Cardinality(Unsignalled) \in Nat
  BY CountsOfPlaces DEF Unsignalled
<1>3. /\ entryWord.count \in Nat /\ entryWord'.count \in Nat /\ permits \in Nat /\ permits' \in Nat
      /\ EntryCapacity \in Nat /\ MaxBacklog \in Nat
  BY DEF IInv, CountsTyped, LoggingAssumption, PowerOfTwo
<1>4. /\ InHand \in {0, 1} /\ InHand' \in {0, 1} /\ Popping \in {0, 1} /\ Popping' \in {0, 1}
  BY DEF InHand, Popping
<1>5. Backlog = Cardinality(At({"entry"})) + entryWord.count + InHand
  BY DEF Backlog, InHand
<1>6. Backlog' = Cardinality(At({"entry"})) + entryWord'.count + InHand'
  BY <1>1 DEF Backlog, InHand
<1>7. Backlog' <= MaxBacklog
  BY <1>2, <1>3, <1>4, <1>5, <1>6 DEF IInv
<1>8. BeforeStop' => entryWord'.count = permits' + Popping' + Cardinality(Unsignalled)
  BY <1>2, <1>3, <1>4 DEF IInv
<1>. QED
  BY <1>1, <1>7, <1>8 DEF IInv

LEMMA ProducersStep ==
  ASSUME LoggingAssumption, MaxBacklog <= EntryCapacity, IInv, NEW p \in Producers, Log(p)
  PROVE  IInv'
<1>1. /\ entryWord.count \in Nat /\ entryWord.count <= EntryCapacity /\ permits \in Nat
      /\ EntryCapacity \in Nat /\ MaxBacklog \in Nat
  BY DEF IInv, CountsTyped, LoggingAssumption, PowerOfTwo
<1>2. Cardinality(At({"entry"})) \in Nat /\ Cardinality(Unsignalled) \in Nat
  BY CountsOfPlaces DEF Unsignalled
<1>3. InHand \in {0, 1} /\ Popping \in {0, 1}
  BY DEF InHand, Popping
<1>4. Backlog = Cardinality(At({"entry"})) + entryWord.count + InHand
  BY DEF Backlog, InHand
<1>5. ASSUME worker' = worker
      PROVE  InHand' = InHand /\ Popping' = Popping
             /\ Backlog' = Cardinality(At({"entry"})') + entryWord'.count + InHand
  BY <1>5 DEF InHand, Popping, Backlog
<1>6. ASSUME NEW len \in Lens, ClaimText(p, len)
      PROVE  IInv'
  <2>1. ProducerStep(p, "idle", "entry") /\ Backlog < MaxBacklog
        /\ UNCHANGED <<thread, main, permits, entryWord, worker>>
    BY <1>6 DEF ClaimText, init, cons
  <2>2. /\ Cardinality(At({"entry"})') = Cardinality(At({"entry"})) + 1
        /\ Cardinality(Unsignalled') = Cardinality(Unsignalled)
    BY <1>2, <2>1, PlacesMove DEF IInv, Unsignalled
  <2>3. CountsTyped'
    BY <2>1 DEF IInv, CountsTyped, ProducerStep
  <2>4. Backlog' <= MaxBacklog
    BY <1>1, <1>2, <1>3, <1>4, <1>5, <2>1, <2>2
  <2>5. BeforeStop' => entryWord'.count = permits' + Popping' + Cardinality(Unsignalled')
    BY <1>5, <2>1, <2>2 DEF IInv, BeforeStop
  <2>. QED
    BY <2>3, <2>4, <2>5 DEF IInv
<1>7. CASE ClaimEntry(p)
  <2>1. ProducerStep(p, "entry", "clear") /\ entryWord' = Entries!Pushed(entryWord)
        /\ UNCHANGED <<thread, main, permits, worker>>
    BY <1>7 DEF ClaimEntry, init, cons
  <2>2. /\ Cardinality(At({"entry"})') = Cardinality(At({"entry"})) - 1
        /\ Cardinality(Unsignalled') = Cardinality(Unsignalled) + 1
    BY <1>2, <2>1, PlacesMove DEF IInv, Unsignalled
  <2>3. Cardinality(At({"entry"})) >= 1
    <3>1. Cardinality(At({"entry"})') \in Nat
      <4>1. IsFiniteSet(At({"entry"})')
        <5>1. At({"entry"})' \in SUBSET Producers
          BY DEF At
        <5>. QED
          BY <5>1, FS_Subset DEF LoggingAssumption
      <4>. QED
        BY <4>1, CountMembers
    <3>. QED
      BY <1>2, <2>2, <3>1
  <2>4. entryWord'.count = entryWord.count + 1 /\ entryWord.count + 1 <= EntryCapacity
    <3>1. entryWord.count + 1 <= EntryCapacity
      BY <1>1, <1>2, <1>3, <1>4, <2>3 DEF IInv
    <3>2. entryWord'.count = Entries!AtMost(entryWord.count + 1, EntryCapacity)
      BY <2>1 DEF Entries!Pushed
    <3>. QED
      BY <1>1, <3>1, <3>2 DEF Entries!AtMost
  <2>5. CountsTyped'
    <3>1. entryWord' \in [count : 0..EntryCapacity, onePastHeadIndex : Int]
      <4>1. entryWord' = [count |-> entryWord'.count, onePastHeadIndex |-> entryWord'.onePastHeadIndex]
        BY <2>1 DEF Entries!Pushed
      <4>2. entryWord'.onePastHeadIndex = (entryWord.onePastHeadIndex + 1) % EntryCapacity
        BY <2>1 DEF Entries!Pushed
      <4>3. EntryCapacity \in Nat \ {0} /\ entryWord.onePastHeadIndex \in Int
        BY DEF IInv, CountsTyped, LoggingAssumption, PowerOfTwo
      <4>4. entryWord'.onePastHeadIndex \in Int
        BY <4>2, <4>3
      <4>. QED
        BY <1>1, <2>4, <4>1, <4>4
    <3>. QED
      BY <2>1, <3>1 DEF IInv, CountsTyped, ProducerStep
  <2>6. Backlog' <= MaxBacklog
    BY <1>1, <1>2, <1>3, <1>4, <1>5, <2>1, <2>2, <2>4 DEF IInv
  <2>7. BeforeStop' => entryWord'.count = permits' + Popping' + Cardinality(Unsignalled')
    BY <1>1, <1>2, <1>3, <1>5, <2>1, <2>2, <2>4 DEF IInv, BeforeStop
  <2>. QED
    BY <2>5, <2>6, <2>7 DEF IInv
<1>8. CASE ClearEntry(p) \/ FillEntry(p) \/ WriteText(p)
  <2>1. /\ \E from, to \in {"clear", "fill", "write", "signal"} : ProducerStep(p, from, to)
        /\ UNCHANGED <<thread, main, permits, entryWord, worker>>
    BY <1>8 DEF ClearEntry, FillEntry, WriteText, init, cons
  <2>2. /\ Cardinality(At({"entry"})') = Cardinality(At({"entry"}))
        /\ Cardinality(Unsignalled') = Cardinality(Unsignalled)
    BY <1>2, <2>1, PlacesMove DEF IInv, Unsignalled
  <2>3. CountsTyped'
    BY <2>1 DEF IInv, CountsTyped, ProducerStep
  <2>4. Backlog' <= MaxBacklog
    BY <1>4, <1>5, <2>1, <2>2 DEF IInv
  <2>5. BeforeStop' => entryWord'.count = permits' + Popping' + Cardinality(Unsignalled')
    BY <1>5, <2>1, <2>2 DEF IInv, BeforeStop
  <2>. QED
    BY <2>3, <2>4, <2>5 DEF IInv
<1>9. CASE SignalEntry(p)
  <2>1. /\ ProducerStep(p, "signal", "idle") /\ permits' = permits + 1
        /\ UNCHANGED <<thread, main, entryWord, worker>>
    BY <1>9 DEF SignalEntry, init, cons, ring
  <2>2. /\ Cardinality(At({"entry"})') = Cardinality(At({"entry"}))
        /\ Cardinality(Unsignalled') = Cardinality(Unsignalled) - 1
    BY <1>2, <2>1, PlacesMove DEF IInv, Unsignalled
  <2>3. CountsTyped'
    BY <2>1 DEF IInv, CountsTyped, ProducerStep
  <2>4. Backlog' <= MaxBacklog
    BY <1>4, <1>5, <2>1, <2>2 DEF IInv
  <2>5. BeforeStop' => entryWord'.count = permits' + Popping' + Cardinality(Unsignalled')
    BY <1>1, <1>2, <1>3, <1>5, <2>1, <2>2 DEF IInv, BeforeStop
  <2>. QED
    BY <2>3, <2>4, <2>5 DEF IInv
<1>. QED
  BY <1>6, <1>7, <1>8, <1>9 DEF Log

LEMMA WorkerSteps ==
  ASSUME LoggingAssumption, IInv, Worker
  PROVE  IInv'
<1>1. /\ entryWord.count \in Nat /\ entryWord.count <= EntryCapacity /\ permits \in Nat
      /\ EntryCapacity \in Nat /\ pc' = pc /\ UNCHANGED <<thread, main>> /\ main # "create"
  BY DEF IInv, CountsTyped, LoggingAssumption, PowerOfTwo, Worker, CheckThread, WaitEntry, PopIndex,
     CopyEntry, Deliver, ZeroText, Reclaim, WorkerStep, init, prod
<1>2. CASE WaitEntry
  <2>1. worker = "wait" /\ worker' = "pop" /\ permits > 0 /\ permits' = permits - 1
        /\ entryWord' = entryWord
    BY <1>2 DEF WaitEntry, WorkerStep, ring
  <2>2. InHand = 0 /\ InHand' = 0 /\ Popping = 0 /\ Popping' = 1
    BY <2>1 DEF InHand, Popping
  <2>3. CountsTyped'
    BY <1>1, <2>1 DEF IInv, CountsTyped
  <2>. QED
    BY <1>1, <2>1, <2>2, <2>3, OthersStep DEF BeforeStop
<1>3. CASE PopIndex
  <2>1. /\ worker = "pop" /\ worker' = IF entryWord.count > 0 THEN "copy" ELSE "check"
        /\ entryWord' = Entries!TailPopped(entryWord) /\ permits' = permits
    BY <1>3 DEF PopIndex, WorkerStep
  <2>2. entryWord' = [entryWord EXCEPT !.count = IF entryWord.count > 0 THEN entryWord.count - 1
                                                 ELSE entryWord.count]
    BY <2>1 DEF Entries!TailPopped
  <2>3. /\ entryWord'.count = IF entryWord.count > 0 THEN entryWord.count - 1 ELSE entryWord.count
        /\ entryWord' \in [count : 0..EntryCapacity, onePastHeadIndex : Int]
    BY <1>1, <2>2 DEF IInv, CountsTyped
  <2>4. CountsTyped'
    BY <1>1, <2>1, <2>3 DEF IInv, CountsTyped
  <2>5. InHand = 0 /\ Popping = 1 /\ Popping' = 0
        /\ InHand' = IF entryWord.count > 0 THEN 1 ELSE 0
    BY <2>1 DEF InHand, Popping
  <2>6. BeforeStop => entryWord.count > 0
    <3>1. Cardinality(Unsignalled) \in Nat
      BY CountsOfPlaces DEF Unsignalled
    <3>. QED
      BY <1>1, <2>5, <3>1 DEF IInv
  <2>7. BeforeStop' <=> BeforeStop
    BY <1>1 DEF BeforeStop
  <2>. QED
    BY <1>1, <2>1, <2>3, <2>4, <2>5, <2>6, <2>7, OthersStep
<1>4. CASE CheckThread \/ CopyEntry \/ Deliver \/ ZeroText \/ Reclaim
  <2>1. permits' = permits /\ entryWord' = entryWord
    BY <1>4 DEF CheckThread, CopyEntry, Deliver, ZeroText, Reclaim, ring
  <2>2. InHand' <= InHand /\ Popping = 0 /\ Popping' = 0 /\ InHand \in Nat /\ InHand' \in Nat
    BY <1>4 DEF CheckThread, CopyEntry, Deliver, ZeroText, Reclaim, WorkerStep, InHand, Popping
  <2>3. CountsTyped'
    BY <1>1, <2>1 DEF IInv, CountsTyped
  <2>. QED
    BY <1>1, <2>1, <2>2, <2>3, OthersStep DEF BeforeStop
<1>. QED
  BY <1>2, <1>3, <1>4 DEF Worker

LEMMA MainSteps ==
  ASSUME LoggingAssumption, IInv, Main
  PROVE  IInv'
<1>1. /\ entryWord.count \in Nat /\ permits \in Nat
      /\ pc' = pc /\ entryWord' = entryWord
  BY DEF IInv, CountsTyped, Main, CreateThread, StoreThread, ClearThread, SignalStop, JoinThread,
     ring, prod
<1>2. CASE SignalStop
  <2>1. main = "signal" /\ main' = "join" /\ permits' = permits + 1 /\ UNCHANGED <<thread, worker>>
    BY <1>2 DEF SignalStop, MainStep, cons
  <2>2. CountsTyped'
    BY <1>1, <2>1 DEF IInv, CountsTyped
  <2>3. InHand' = InHand /\ InHand \in Nat /\ ~ BeforeStop'
    BY <2>1 DEF InHand, BeforeStop
  <2>. QED
    BY <1>1, <2>1, <2>2, <2>3, OthersStep
<1>3. CASE CreateThread \/ StoreThread \/ ClearThread \/ JoinThread
  <2>1. permits' = permits /\ (thread' => main' = "running") /\ (BeforeStop' => BeforeStop)
    BY <1>3 DEF CreateThread, StoreThread, ClearThread, JoinThread, MainStep, IInv, CountsTyped, BeforeStop
  <2>2. CountsTyped'
    BY <1>1, <1>3, <2>1 DEF IInv, CountsTyped, CreateThread, StoreThread, ClearThread, JoinThread, MainStep
  <2>3. worker' = worker \/ (worker = "none" /\ worker' = "check")
    BY <1>3 DEF IInv, CountsTyped, CreateThread, StoreThread, ClearThread, JoinThread, MainStep, cons
  <2>4. InHand' = InHand /\ Popping' = Popping /\ InHand \in Nat /\ Popping \in Nat
    BY <2>3 DEF InHand, Popping
  <2>. QED
    BY <1>1, <2>1, <2>2, <2>4, OthersStep
<1>. QED
  BY <1>2, <1>3 DEF Main

LEMMA NextIInv ==
  ASSUME LoggingAssumption, MaxBacklog <= EntryCapacity, IInv, [Next]_vars
  PROVE  IInv'
<1>1. CASE UNCHANGED vars
  <2>1. CountsTyped' /\ pc' = pc
    BY <1>1 DEF vars, init, prod, cons, ring, IInv, CountsTyped
  <2>2. InHand' = InHand /\ Popping' = Popping /\ InHand \in Nat /\ BeforeStop' = BeforeStop
        /\ entryWord' = entryWord /\ permits' = permits
    BY <1>1 DEF vars, init, prod, cons, ring, InHand, Popping, BeforeStop
  <2>3. entryWord.count \in Nat
    BY DEF IInv, CountsTyped
  <2>. QED
    BY <2>1, <2>2, <2>3, OthersStep
<1>. QED
  BY <1>1, ProducersStep, WorkerSteps, MainSteps DEF Next

LEMMA InitIInv ==
  ASSUME LoggingAssumption, Init
  PROVE  IInv
<1>1. At({"entry"}) = {} /\ Unsignalled = {}
  BY DEF Init, At, Unsignalled
<1>2. Cardinality(At({"entry"})) = 0 /\ Cardinality(Unsignalled) = 0
  BY <1>1, FS_EmptySet
<1>3. entryWord = [count |-> 0, onePastHeadIndex |-> 0] /\ permits = 0 /\ worker = "none"
      /\ thread = FALSE
  BY DEF Init, Entries!NothingIn
<1>4. CountsTyped
  BY <1>3 DEF Init, CountsTyped, LoggingAssumption, PowerOfTwo
<1>5. Backlog = 0 /\ Popping = 0
  BY <1>2, <1>3 DEF Backlog, Popping
<1>. QED
  BY <1>2, <1>3, <1>4, <1>5 DEF IInv, LoggingAssumption

\* Until Shutdown gives a permit of its own, the entries in the queue are those
\* whose loggers gave a permit or are going to, and the logging thread is never
\* woken to find the queue empty (LogInternalVA and LoggingThread of logging.cpp).
THEOREM PermitsMatch ==
  ASSUME LoggingAssumption, MaxBacklog <= EntryCapacity
  PROVE  Spec => []PermitsMatchEntries
<1>1. Init => IInv
  BY InitIInv
<1>2. IInv /\ [Next]_vars => IInv'
  BY NextIInv
<1>3. IInv => PermitsMatchEntries
  <2>. SUFFICES ASSUME IInv PROVE PermitsMatchEntries
    OBVIOUS
  <2>1. Cardinality(Unsignalled) \in Nat /\ permits \in Nat
    BY CountsOfPlaces DEF Unsignalled, IInv, CountsTyped
  <2>. QED
    BY <2>1 DEF IInv, CountsTyped, PermitsMatchEntries, BeforeStop, Popping, Unsignalled
<1>. QED
  BY <1>1, <1>2, <1>3, PTL DEF Spec


---------------------------------------------------------------------------
(* Circular indices.                                                       *)

\* What the quotient and the remainder of a number are.
LEMMA Quotient ==
  ASSUME NEW k \in Nat \ {0}, NEW n \in Int
  PROVE  /\ n % k \in 0..k-1 /\ n \div k \in Int /\ k * (n \div k) \in Int
         /\ n = k * (n \div k) + (n % k)
OBVIOUS

\* Going round any number of times changes no remainder.
LEMMA WholeTurns ==
  ASSUME NEW k \in Nat \ {0}, NEW n \in Int, NEW q \in Int
  PROVE  (n + k * q) % k = n % k
<1>1. k * q \in Int /\ n + k * q \in Int
  OBVIOUS
<1>. DEFINE b == n \div k
            r == n % k
            c == (n + k * q) \div k
            s == (n + k * q) % k
            d == c - b - q
<1>2. b \in Int /\ r \in 0..k-1 /\ n = k * b + r
  BY GoesRound
<1>3. c \in Int /\ s \in 0..k-1 /\ n + k * q = k * c + s
  <2>. DEFINE m == n + k * q
  <2>1. m \in Int
    BY <1>1
  <2>. HIDE DEF m
  <2>2. m \div k \in Int /\ m % k \in 0..k-1 /\ m = k * (m \div k) + (m % k)
    BY <2>1
  <2>. QED
    BY <2>2 DEF m
<1>. HIDE DEF b, r, c, s
<1>4. d \in Int /\ k * d = r - s
  <2>1. k * c \in Int /\ k * b \in Int /\ k * d = k * c - k * b - k * q
    BY <1>2, <1>3
  <2>. QED
    BY <1>1, <1>2, <1>3, <2>1
<1>. HIDE DEF d
<1>5. d = 0
  <2>1. (d >= 1 => k * d >= k) /\ (d <= -1 => k * d <= -k)
    BY <1>4
  <2>. QED
    BY <1>2, <1>3, <1>4, <2>1
<1>6. r = s
  BY <1>2, <1>3, <1>4, <1>5
<1>. QED
  BY <1>6 DEF r, s

\* Numbers less than a turn apart have different remainders.
LEMMA SlotsApart ==
  ASSUME NEW k \in Nat \ {0}, NEW m \in Int, NEW n \in Int, m < n, n < m + k
  PROVE  m % k # n % k
<1>1. n - m \in 0..k-1 /\ n - m # 0
  OBVIOUS
<1>. DEFINE q == m \div k
            r == m % k
            t == r + (n - m)
<1>2. q \in Int /\ r \in 0..k-1 /\ m = k * q + r /\ k * q \in Int
  BY GoesRound
<1>. HIDE DEF q, r
<1>3. t \in Int /\ n = t + k * q /\ t \in 1..2*k-1 /\ t # r /\ t # r + k /\ r < t
  BY <1>1, <1>2
<1>. HIDE DEF t
<1>4. n % k = t % k
  BY <1>2, <1>3, WholeTurns
<1>5. t % k = t \/ t % k = t - k
  <2>1. t \in 0..k-1 \/ t \in k..2*k-1
    BY <1>3
  <2>. QED
    BY <1>3, <2>1, Remainder
<1>6. t % k # r
  <2>1. t \in 0..k-1 => t % k = t
    BY <1>3, Remainder
  <2>2. t \in k..2*k-1 => t % k = t - k
    BY <1>3, Remainder
  <2>. QED
    BY <1>2, <1>3, <2>1, <2>2
<1>. QED
  BY <1>4, <1>6 DEF r

\* Remainders of what is counted on from a remainder.
LEMMA OnFrom ==
  ASSUME NEW k \in Nat \ {0}, NEW n \in Int, NEW c \in Int
  PROVE  ((n % k) + c) % k = (n + c) % k
<1>. DEFINE q == n \div k
            r == n % k
<1>1. q \in Int /\ r \in 0..k-1 /\ n = k * q + r /\ k * q \in Int
  BY GoesRound
<1>. HIDE DEF q, r
<1>2. r + c \in Int /\ n + c = (r + c) + k * q
  BY <1>1
<1>3. (n + c) % k = (r + c) % k
  <2>1. ((r + c) + k * q) % k = (r + c) % k
    BY <1>1, <1>2, WholeTurns
  <2>. QED
    BY <1>2, <2>1
<1>. QED
  BY <1>3 DEF r

---------------------------------------------------------------------------
(* Types.                                                                  *)

\* Is a list, of whatever.
Listed(ds) == \E S : ds \in Seq(S)

\* The types of the variables, and what a thread that logs has at hand.
LogTypes ==
  /\ TypeOK
  /\ Listed(delivered)
  /\ text \in [Producers -> [msg : Text!Indices, msgLen : Nat]]
  /\ \A p \in Producers : pc[p] # "idle" => text[p].msgLen \in Lens /\ logged[p] \in 1..MaxLogs

\* The constants are numbers.
LEMMA LogNumbers ==
  ASSUME LoggingAssumption
  PROVE  /\ TextCapacity \in Nat \ {0} /\ EntryCapacity \in Nat \ {0}
         /\ MaxLogs \in Nat /\ MaxBacklog \in Nat
         /\ \A len \in Lens : len \in Nat /\ len >= 1 /\ len + 2 <= TextCapacity
         /\ Text!Indices = 0..TextCapacity-1 /\ Entries!Indices = 0..EntryCapacity-1
BY DEF LoggingAssumption, PowerOfTwo, Text!Indices, Entries!Indices

\* What Append does.
LEMMA ListGrows ==
  ASSUME NEW ds, Listed(ds), NEW r
  PROVE  /\ Listed(Append(ds, r)) /\ Len(Append(ds, r)) = Len(ds) + 1 /\ Len(ds) \in Nat
         /\ \A i \in 1..Len(ds) : Append(ds, r)[i] = ds[i]
         /\ Append(ds, r)[Len(ds) + 1] = r
         /\ DOMAIN ds = 1..Len(ds)
<1>1. PICK S : ds \in Seq(S)
  BY DEF Listed
<1>2. \A i \in 1..Len(ds) : ds[i] \in S
  BY <1>1, ElementOfSeq
<1>. DEFINE T == S \cup {r}
<1>3. ds \in Seq(T)
  <2>1. ds \in [1..Len(ds) -> T] /\ Len(ds) \in Nat
    BY <1>1, <1>2, LenProperties
  <2>2. ds = [i \in 1..Len(ds) |-> ds[i]]
    BY <2>1
  <2>. QED
    BY <2>1, SeqDef
<1>4. r \in T
  OBVIOUS
<1>. HIDE DEF T
<1>5. /\ Append(ds, r) \in Seq(T) /\ Len(Append(ds, r)) = Len(ds) + 1
      /\ \A i \in 1..Len(ds)+1 : Append(ds, r)[i] = IF i <= Len(ds) THEN ds[i] ELSE r
  BY <1>3, <1>4, AppendProperties
<1>6. Len(ds) \in Nat /\ DOMAIN ds = 1..Len(ds)
  BY <1>1, LenProperties
<1>. QED
  BY <1>5, <1>6 DEF Listed

\* A range that is pushed lies in the buffer, and does not run past its end.
LEMMA TextRange ==
  ASSUME LoggingAssumption, NEW w \in Text!Words, NEW len \in Lens
  PROVE  /\ Text!RangePushed(w, len + 1) \in Text!Words
         /\ Text!RangeSlot(w, len + 1) \in Text!Indices
         /\ Text!RangeSlot(w, len + 1) + len + 1 <= TextCapacity
<1>. DEFINE n == len + 1
            h == w.onePastHeadIndex
<1>1. /\ h \in 0..TextCapacity-1 /\ w.count \in 0..TextCapacity /\ TextCapacity \in Nat \ {0}
      /\ len \in Nat /\ n \in 1..TextCapacity-1
  BY LogNumbers DEF Text!Words
<1>2. Text!RangeSlot(w, n) \in 0..TextCapacity-1 /\ Text!RangeSlot(w, n) + len + 1 <= TextCapacity
  BY <1>1 DEF Text!RangeSlot, Text!Fits
<1>3. \A k \in Nat : Text!AtMost(k, TextCapacity) \in 0..TextCapacity
  BY <1>1 DEF Text!AtMost
<1>. HIDE DEF n, h
<1>4. /\ (h + n) % TextCapacity \in 0..TextCapacity-1
      /\ Text!AtMost(w.count + n, TextCapacity) \in 0..TextCapacity
      /\ Text!AtMost(w.count + TextCapacity - h + n, TextCapacity) \in 0..TextCapacity
  <2>1. h + n \in Int /\ w.count + n \in Nat /\ w.count + TextCapacity - h + n \in Nat
    BY <1>1
  <2>. QED
    BY <1>1, <1>3, <2>1, GoesRound
<1>5. Text!RangePushed(w, n) \in [count : 0..TextCapacity, onePastHeadIndex : 0..TextCapacity-1]
  BY <1>1, <1>4 DEF Text!RangePushed, h
<1>. QED
  BY <1>2, <1>5, LogNumbers DEF Text!Words, n

\* The operations on the indices of the queue give indices.
LEMMA EntryWords ==
  ASSUME LoggingAssumption, NEW w \in Entries!Words
  PROVE  /\ Entries!Pushed(w) \in Entries!Words /\ Entries!TailPopped(w) \in Entries!Words
         /\ Entries!TailSlot(w) \in Entries!Indices /\ w.onePastHeadIndex \in Entries!Indices
<1>. DEFINE h == w.onePastHeadIndex
            c == w.count
<1>1. /\ h \in 0..EntryCapacity-1 /\ c \in 0..EntryCapacity /\ EntryCapacity \in Nat \ {0}
      /\ w = [count |-> c, onePastHeadIndex |-> h]
  BY LogNumbers DEF Entries!Words
<1>2. Entries!TailPopped(w) = [count |-> IF c > 0 THEN c - 1 ELSE c, onePastHeadIndex |-> h]
  BY <1>1 DEF Entries!TailPopped
<1>. HIDE DEF h, c
<1>3. /\ (h + 1) % EntryCapacity \in 0..EntryCapacity-1
      /\ (h - c) % EntryCapacity \in 0..EntryCapacity-1
  <2>1. h + 1 \in Int /\ h - c \in Int
    BY <1>1
  <2>. QED
    BY <1>1, <2>1, GoesRound
<1>4. Entries!AtMost(c + 1, EntryCapacity) \in 0..EntryCapacity
  BY <1>1 DEF Entries!AtMost
<1>5. (IF c > 0 THEN c - 1 ELSE c) \in 0..EntryCapacity
  BY <1>1
<1>6. Entries!TailPopped(w) \in Entries!Words
  BY <1>1, <1>2, <1>5, LogNumbers DEF Entries!Words
<1>7. Entries!Pushed(w) \in Entries!Words
  BY <1>3, <1>4, LogNumbers DEF Entries!Words, Entries!Pushed, h, c
<1>8. Entries!TailSlot(w) \in Entries!Indices
  BY <1>3, LogNumbers DEF Entries!TailSlot, h, c
<1>. QED
  BY <1>1, <1>6, <1>7, <1>8, LogNumbers DEF h

\* What Reclaim pops does not move the head of the text buffer.
LEMMA TextWords ==
  ASSUME LoggingAssumption, NEW w \in Text!Words
  PROVE  Text!TailPopped(w) \in Text!Words /\ Text!TailPopped(w).onePastHeadIndex = w.onePastHeadIndex
<1>1. /\ w.count \in 0..TextCapacity /\ TextCapacity \in Nat \ {0}
      /\ w = [count |-> w.count, onePastHeadIndex |-> w.onePastHeadIndex]
      /\ w.onePastHeadIndex \in Text!Indices
  BY LogNumbers DEF Text!Words
<1>2. Text!TailPopped(w) = [count |-> IF w.count > 0 THEN w.count - 1 ELSE w.count,
                            onePastHeadIndex |-> w.onePastHeadIndex]
  BY <1>1 DEF Text!TailPopped
<1>3. (IF w.count > 0 THEN w.count - 1 ELSE w.count) \in 0..TextCapacity
  BY <1>1
<1>. QED
  BY <1>1, <1>2, <1>3 DEF Text!Words

LEMMA LogTypesInit ==
  ASSUME LoggingAssumption, Init
  PROVE  LogTypes
<1>1. 0 \in Text!Indices /\ 0 \in Entries!Indices /\ 0 \in 0..MaxLogs
      /\ 0 \in 0..TextCapacity /\ 0 \in 0..EntryCapacity
  BY LogNumbers
<1>2. Text!NothingIn \in Text!Words /\ Entries!NothingIn \in Entries!Words
  BY <1>1 DEF Text!NothingIn, Text!Words, Entries!NothingIn, Entries!Words
<1>3. \A p \in Producers : text[p].msg..text[p].msg+text[p].msgLen \subseteq Text!Indices
  BY <1>1 DEF Init
<1>4. TypeOK
  BY <1>1, <1>2, <1>3 DEF Init, TypeOK
<1>5. Listed(delivered)
  <2>1. <<>> \in Seq({})
    OBVIOUS
  <2>. QED
    BY <2>1 DEF Init, Listed
<1>6. text \in [Producers -> [msg : Text!Indices, msgLen : Nat]]
  BY <1>1 DEF Init
<1>. QED
  BY <1>4, <1>5, <1>6 DEF Init, LogTypes

LEMMA LogTypesMain ==
  ASSUME LoggingAssumption, LogTypes, Main
  PROVE  LogTypes'
<1>1. CASE CreateThread
  BY <1>1 DEF LogTypes, TypeOK, CreateThread, MainStep, ring, prod
<1>2. CASE StoreThread \/ ClearThread \/ JoinThread
  BY <1>2 DEF LogTypes, TypeOK, StoreThread, ClearThread, JoinThread, MainStep, ring, prod, cons
<1>3. CASE SignalStop
  BY <1>3 DEF LogTypes, TypeOK, SignalStop, MainStep, ring, prod, cons
<1>. QED
  BY <1>1, <1>2, <1>3 DEF Main

LEMMA LogTypesWorker ==
  ASSUME LoggingAssumption, LogTypes, Worker
  PROVE  LogTypes'
<1>. USE DEF WorkerStep, init, ring, prod
<1>1. CASE CheckThread
  BY <1>1 DEF CheckThread, LogTypes, TypeOK
<1>2. CASE WaitEntry
  BY <1>2 DEF WaitEntry, LogTypes, TypeOK
<1>3. CASE PopIndex
  <2>1. Entries!TailPopped(entryWord) \in Entries!Words /\ Entries!TailSlot(entryWord) \in Entries!Indices
    BY EntryWords DEF LogTypes, TypeOK
  <2>. QED
    BY <1>3, <2>1 DEF PopIndex, LogTypes, TypeOK
<1>4. CASE CopyEntry
  BY <1>4 DEF CopyEntry, LogTypes, TypeOK
<1>5. CASE Deliver
  <2>. DEFINE r == IF entry \in Entry
                   THEN [of |-> entry.of, chars |-> {msgBuffer[i] : i \in Chars(entry)}]
                   ELSE [of |-> entry, chars |-> {}]
  <2>1. delivered' = Append(delivered, r) /\ worker' = "zero"
        /\ UNCHANGED <<init, permits, ring, prod, taken, entry>>
    BY <1>5 DEF Deliver
  <2>. HIDE DEF r
  <2>2. Listed(delivered')
    BY <2>1, ListGrows DEF LogTypes
  <2>. QED
    BY <2>1, <2>2 DEF LogTypes, TypeOK
<1>6. CASE ZeroText
  <2>1. msgBuffer' \in [Text!Indices -> Messages \cup {Zero, Unwritten}]
    BY <1>6 DEF ZeroText, LogTypes, TypeOK
  <2>. QED
    BY <1>6, <2>1 DEF ZeroText, LogTypes, TypeOK
<1>7. CASE Reclaim
  <2>1. Text!TailPopped(textWord) \in Text!Words
    BY TextWords DEF LogTypes, TypeOK
  <2>. QED
    BY <1>7, <2>1 DEF Reclaim, LogTypes, TypeOK
<1>. QED
  BY <1>1, <1>2, <1>3, <1>4, <1>5, <1>6, <1>7 DEF Worker

LEMMA LogTypesProducer ==
  ASSUME LoggingAssumption, LogTypes, NEW p \in Producers, Log(p)
  PROVE  LogTypes'
<1>. USE DEF ProducerStep, init, cons
<1>1. ASSUME NEW len \in Lens, ClaimText(p, len)
      PROVE  LogTypes'
  <2>. DEFINE s == Text!RangeSlot(textWord, len + 1)
  <2>1. /\ textWord' \in Text!Words /\ s \in Text!Indices /\ s + len + 1 <= TextCapacity
    <3>1. textWord' = Text!RangePushed(textWord, len + 1)
      BY <1>1 DEF ClaimText
    <3>. QED
      BY <3>1, TextRange DEF LogTypes, TypeOK
  <2>2. /\ text' = [text EXCEPT ![p] = [msg |-> s, msgLen |-> len]]
        /\ logged' = [logged EXCEPT ![p] = logged[p] + 1] /\ logged[p] < MaxLogs
        /\ pc' = [pc EXCEPT ![p] = "entry"]
        /\ overlapped' = (overlapped \/ \E q \in Producers : pc[q] # "idle")
        /\ UNCHANGED <<init, permits, msgBuffer, entryWord, entryQueue, slot, cons>>
    BY <1>1 DEF ClaimText
  <2>. HIDE DEF s
  <2>3. len \in Nat /\ s..s+len \subseteq Text!Indices
    BY <2>1, LogNumbers
  <2>4. logged' \in [Producers -> 0..MaxLogs] /\ logged'[p] \in 1..MaxLogs
    <3>1. logged \in [Producers -> 0..MaxLogs]
      BY DEF LogTypes, TypeOK
    <3>2. MaxLogs \in Nat
      BY LogNumbers
    <3>3. logged[p] + 1 \in 1..MaxLogs /\ logged' = [logged EXCEPT ![p] = logged[p] + 1]
      BY <2>2, <3>1, <3>2
    <3>. QED
      BY <3>1, <3>2, <3>3
  <2>5. /\ text' \in [Producers -> [msg : Text!Indices, msgLen : Nat]]
        /\ \A q \in Producers : text'[q].msg..text'[q].msg+text'[q].msgLen \subseteq Text!Indices
    BY <2>1, <2>2, <2>3 DEF LogTypes, TypeOK
  <2>6. \A q \in Producers : pc'[q] # "idle" => text'[q].msgLen \in Lens /\ logged'[q] \in 1..MaxLogs
    BY <2>2, <2>4 DEF LogTypes, TypeOK
  <2>7. TypeOK'
    BY <2>1, <2>2, <2>4, <2>5 DEF LogTypes, TypeOK
  <2>. QED
    BY <2>2, <2>5, <2>6, <2>7 DEF LogTypes
<1>2. CASE ClaimEntry(p)
  <2>1. Entries!Pushed(entryWord) \in Entries!Words /\ entryWord.onePastHeadIndex \in Entries!Indices
    BY EntryWords DEF LogTypes, TypeOK
  <2>. QED
    BY <1>2, <2>1 DEF ClaimEntry, LogTypes, TypeOK
<1>3. CASE ClearEntry(p)
  BY <1>3 DEF ClearEntry, LogTypes, TypeOK
<1>4. CASE FillEntry(p)
  <2>1. [msg |-> text[p].msg, msgLen |-> text[p].msgLen, of |-> Message(p)] \in Entry
    BY <1>4 DEF FillEntry, LogTypes, TypeOK, Entry, Messages, Message
  <2>. QED
    BY <1>4, <2>1 DEF FillEntry, LogTypes, TypeOK
<1>5. CASE WriteText(p)
  <2>1. Message(p) \in Messages
    BY <1>5 DEF WriteText, LogTypes, TypeOK, Messages, Message
  <2>2. msgBuffer' \in [Text!Indices -> Messages \cup {Zero, Unwritten}]
    BY <1>5, <2>1 DEF WriteText, LogTypes, TypeOK
  <2>. QED
    BY <1>5, <2>2 DEF WriteText, LogTypes, TypeOK
<1>6. CASE SignalEntry(p)
  BY <1>6 DEF SignalEntry, LogTypes, TypeOK, ring
<1>. QED
  BY <1>1, <1>2, <1>3, <1>4, <1>5, <1>6 DEF Log

LEMMA LogTypesNext ==
  ASSUME LoggingAssumption, LogTypes, [Next]_vars
  PROVE  LogTypes'
<1>1. CASE UNCHANGED vars
  BY <1>1 DEF vars, init, ring, prod, cons, LogTypes, TypeOK
<1>. QED
  BY <1>1, LogTypesMain, LogTypesWorker, LogTypesProducer DEF Next

\* Every variable keeps its type, whoever logs and however much, and no message
\* with its terminator runs past the end of the text buffer (LogInternalVA).
THEOREM LogTypesKept ==
  ASSUME LoggingAssumption
  PROVE  Spec => []TypeOK
<1>1. Init => LogTypes
  BY LogTypesInit
<1>2. LogTypes /\ [Next]_vars => LogTypes'
  BY LogTypesNext
<1>3. LogTypes => TypeOK
  BY DEF LogTypes
<1>. QED
  BY <1>1, <1>2, <1>3, PTL DEF Spec

---------------------------------------------------------------------------
(* Where every message is.                                                 *)

\* The messages printed, with the one the worker has taken and those queued, and
\* all that were begun: one more while its logger has no entry for it yet.
Held    == IF worker \in {"copy", "deliver"} THEN 1 ELSE 0
Claimed == Len(delivered) + Held + entryWord.count
Begun   == Claimed + Cardinality(At({"entry"}))

\* The first of them whose text is still in the buffer, and whose entry is in the
\* queue or about to be copied from it.
OldestText  == IF worker = "zero" THEN Len(delivered) ELSE Len(delivered) + 1
OldestEntry == IF worker = "deliver" THEN Len(delivered) + 2 ELSE Len(delivered) + 1

\* One thread at most is logging.
Alone == \A p, q \in Producers : pc[p] # "idle" /\ pc[q] # "idle" => p = q

\* Message number i of all that were begun is h[i].  It bears its number among
\* those of its thread, and what has been printed is the beginning of the list.
History(h) ==
  /\ h \in [1..Begun -> Entry]
  /\ \A i \in 1..Begun : h[i].of[2] = Number(h, h[i].of[1], i)
  /\ \A p \in Producers : logged[p] = Number(h, p, Begun)
  /\ \A i \in 1..Len(delivered) : delivered[i].of = h[i].of /\ delivered[i].chars = {h[i].of}

\* The thread that logs is at the last message, and has the slot for it.
Loggers(h) ==
  /\ Alone
  /\ \A p \in Producers : pc[p] # "idle" =>
       h[Begun] = [msg |-> text[p].msg, msgLen |-> text[p].msgLen, of |-> Message(p)]
  /\ \A p \in Producers : pc[p] \in {"clear", "fill", "write", "signal"} =>
       slot[p] = (Begun - 1) % EntryCapacity

\* The queue holds the messages that are next, the last of them possibly not
\* filled in yet, and so does the worker.
Queue(h) ==
  /\ entryWord.onePastHeadIndex = Claimed % EntryCapacity
  /\ worker = "copy" => taken = Len(delivered) % EntryCapacity
  /\ worker = "deliver" => entry = h[Len(delivered) + 1]
  /\ worker = "zero" => Len(delivered) >= 1 /\ entry = h[Len(delivered)]
  /\ \A i \in OldestEntry..Claimed :
       (i = Claimed => At({"clear", "fill"}) = {}) => entryQueue[(i - 1) % EntryCapacity] = h[i]

\* From start to end there is room for n texts of the longest kind and, if the
\* buffer's end lies between, for the part of it that one of them left.
Reaches(end, start, n, longest) ==
  end - start <= n * longest + (IF start >= end - (end % TextCapacity) THEN 0 ELSE longest - 1)

\* The texts lie one after the other in a buffer without end, of which the text
\* buffer is one turn: that of message i begins at at[i], and the next one comes
\* after end.
Room(h, at, end, longest) ==
  /\ end \in Int /\ textWord.onePastHeadIndex = end % TextCapacity
  /\ \A i \in OldestText..Begun :
       /\ at[i] \in Int
       /\ h[i].msg = at[i] % TextCapacity /\ h[i].msg + h[i].msgLen + 1 <= TextCapacity
       /\ at[i] + h[i].msgLen + 1 <= end
       /\ \A j \in i+1..Begun : at[i] + h[i].msgLen + 1 <= at[j]
       /\ Reaches(end, at[i], Begun - i + 1, longest)

\* The characters of a message are those of its logger, once it has written them.
Written(h) ==
  \A i \in Len(delivered)+1..Begun :
    (i = Begun => At({"entry", "clear", "fill", "write"}) = {}) =>
      \A c \in Chars(h[i]) : msgBuffer[c] = h[i].of

\* The text buffer has room for the backlog: longest characters, terminators
\* included, for each message and for what is left at the end of the buffer.
TextHasRoom(longest) ==
  /\ longest \in 1..TextCapacity
  /\ \A len \in Lens : len < longest
  /\ (MaxBacklog + 1) * longest <= TextCapacity + 1

\* How the counts of messages are related.
LEMMA Sizes ==
  ASSUME LoggingAssumption, MaxBacklog <= EntryCapacity, LogTypes, IInv, BeforeStop, Alone
  PROVE  /\ Len(delivered) \in Nat /\ Held \in {0, 1} /\ entryWord.count \in Nat
         /\ Claimed \in Nat /\ Begun \in Nat /\ OldestText \in Nat /\ OldestEntry \in Nat
         /\ Claimed = Len(delivered) + Held + entryWord.count
         /\ Begun = Claimed + Cardinality(At({"entry"})) /\ Cardinality(At({"entry"})) \in Nat
         /\ Begun - OldestText + 1 <= Backlog /\ Backlog <= MaxBacklog /\ Backlog \in Nat
         /\ Claimed - OldestEntry + 1 <= EntryCapacity
         /\ Claimed - Len(delivered) <= EntryCapacity
         /\ \A p \in Producers : pc[p] = "entry" => Begun = Claimed + 1
         /\ \A p \in Producers : pc[p] \in {"clear", "fill", "write", "signal"} =>
              Begun = Claimed /\ entryWord.count >= 1
         /\ (\A p \in Producers : pc[p] = "idle") => Begun = Claimed
         /\ \A p \in Producers : pc[p] # "idle" => Begun >= 1 /\ Begun >= Len(delivered) + 1
<1>1. /\ entryWord.count \in Nat /\ entryWord.count <= EntryCapacity /\ permits \in Nat
      /\ EntryCapacity \in Nat /\ MaxBacklog \in Nat
  BY DEF IInv, CountsTyped, LoggingAssumption, PowerOfTwo
<1>2. /\ IsFiniteSet(At({"entry"})) /\ IsFiniteSet(Unsignalled)
      /\ Cardinality(At({"entry"})) \in Nat /\ Cardinality(Unsignalled) \in Nat
  BY CountsOfPlaces DEF Unsignalled
<1>3. InHand \in {0, 1} /\ Popping \in {0, 1} /\ Held \in {0, 1} /\ Held <= InHand
      /\ (worker = "zero" => InHand = 1 /\ Held = 0) /\ (worker # "zero" => InHand = Held)
      /\ (worker = "deliver" => Held = 1)
  BY DEF InHand, Popping, Held
<1>4. Backlog = Cardinality(At({"entry"})) + entryWord.count + InHand
  BY DEF Backlog, InHand
<1>5. Len(delivered) \in Nat
  BY ListGrows DEF LogTypes
<1>6. ASSUME NEW p \in Producers, pc[p] = "entry"
      PROVE  Cardinality(At({"entry"})) = 1
  <2>1. At({"entry"}) = {p}
    BY <1>6 DEF At, Alone
  <2>. QED
    BY <2>1, FS_Singleton
<1>7. ASSUME NEW p \in Producers, pc[p] \in {"clear", "fill", "write", "signal"}
      PROVE  Cardinality(At({"entry"})) = 0 /\ entryWord.count >= 1
  <2>1. At({"entry"}) = {} /\ Unsignalled = {p}
    BY <1>7 DEF At, Alone, Unsignalled
  <2>2. Cardinality(At({"entry"})) = 0 /\ Cardinality(Unsignalled) = 1
    BY <2>1, FS_Singleton, FS_EmptySet
  <2>. QED
    BY <2>2, <1>1, <1>3 DEF IInv
<1>8. ASSUME \A p \in Producers : pc[p] = "idle"
      PROVE  Cardinality(At({"entry"})) = 0
  <2>1. At({"entry"}) = {}
    BY <1>8 DEF At
  <2>. QED
    BY <2>1, FS_EmptySet
<1>9. Backlog <= MaxBacklog
  BY DEF IInv
<1>10. Claimed = Len(delivered) + Held + entryWord.count /\ Begun = Claimed + Cardinality(At({"entry"}))
  BY DEF Claimed, Begun
<1>11. /\ OldestText = (IF worker = "zero" THEN Len(delivered) ELSE Len(delivered) + 1)
       /\ OldestEntry = (IF worker = "deliver" THEN Len(delivered) + 2 ELSE Len(delivered) + 1)
  BY DEF OldestText, OldestEntry
<1>12. /\ Claimed \in Nat /\ Begun \in Nat /\ OldestText \in Nat /\ OldestEntry \in Nat /\ Backlog \in Nat
       /\ Begun - OldestText + 1 <= Backlog
       /\ Claimed - OldestEntry + 1 <= EntryCapacity
       /\ Claimed - Len(delivered) <= EntryCapacity
  <2>. DEFINE d == Len(delivered)
              c == entryWord.count
              e == Cardinality(At({"entry"}))
  <2>1. /\ d \in Nat /\ c \in Nat /\ e \in Nat /\ Claimed = d + Held + c /\ Begun = Claimed + e
        /\ Backlog = e + c + InHand
    BY <1>1, <1>2, <1>4, <1>5, <1>10
  <2>. HIDE DEF d, c, e
  <2>2. Claimed \in Nat /\ Begun \in Nat /\ Backlog \in Nat /\ Claimed - d <= EntryCapacity
    BY <1>1, <1>3, <1>9, <2>1
  <2>3. CASE worker = "zero"
    <3>1. OldestText = d /\ OldestEntry = d + 1 /\ InHand = 1 /\ Held = 0
      BY <1>3, <1>11, <2>3 DEF d
    <3>. QED
      BY <1>1, <1>9, <2>1, <2>2, <3>1 DEF d
  <2>4. CASE worker = "deliver"
    <3>1. OldestText = d + 1 /\ OldestEntry = d + 2 /\ InHand = 1 /\ Held = 1
      BY <1>3, <1>11, <2>4 DEF d
    <3>. QED
      BY <1>1, <1>9, <2>1, <2>2, <3>1 DEF d
  <2>5. CASE worker \notin {"zero", "deliver"}
    <3>1. OldestText = d + 1 /\ OldestEntry = d + 1 /\ InHand = Held
      BY <1>3, <1>11, <2>5 DEF d
    <3>. QED
      BY <1>1, <1>3, <1>9, <2>1, <2>2, <3>1 DEF d
  <2>. QED
    BY <2>3, <2>4, <2>5
<1>13. \A p \in Producers : pc[p] # "idle" => Begun >= 1 /\ Begun >= Len(delivered) + 1
  <2>1. \A p \in Producers : pc[p] # "idle" => pc[p] = "entry" \/ pc[p] \in {"clear", "fill", "write", "signal"}
    BY DEF IInv, CountsTyped
  <2>. QED
    BY <1>1, <1>3, <1>5, <1>6, <1>7, <1>10, <2>1
<1>14. /\ \A p \in Producers : pc[p] = "entry" => Begun = Claimed + 1
       /\ \A p \in Producers : pc[p] \in {"clear", "fill", "write", "signal"} =>
            Begun = Claimed /\ entryWord.count >= 1
       /\ (\A p \in Producers : pc[p] = "idle") => Begun = Claimed
  <2>1. \A p \in Producers : pc[p] = "entry" => Begun = Claimed + 1
    BY <1>6, <1>10
  <2>2. \A p \in Producers : pc[p] \in {"clear", "fill", "write", "signal"} =>
          Begun = Claimed /\ entryWord.count >= 1
    BY <1>7, <1>10
  <2>3. (\A p \in Producers : pc[p] = "idle") => Begun = Claimed
    BY <1>8, <1>10
  <2>. QED
    BY <2>1, <2>2, <2>3
<1>. QED
  BY <1>1, <1>2, <1>3, <1>5, <1>9, <1>10, <1>12, <1>13, <1>14

\* The texts that are in the buffer do not overlap.
LEMMA TextsApart ==
  ASSUME LoggingAssumption, MaxBacklog <= EntryCapacity, LogTypes, IInv, BeforeStop, Alone,
         NEW h, NEW at, NEW end, NEW longest, TextHasRoom(longest),
         h \in [1..Begun -> Entry], Room(h, at, end, longest),
         NEW i \in OldestText..Begun, NEW j \in OldestText..Begun, i < j, 1 <= OldestText
  PROVE  h[i].msg..h[i].msg+h[i].msgLen \cap h[j].msg..h[j].msg+h[j].msgLen = {}
<1>1. /\ TextCapacity \in Nat \ {0} /\ longest \in Nat /\ longest >= 1
      /\ Begun \in Nat /\ OldestText \in Nat /\ MaxBacklog \in Nat
      /\ i \in 1..Begun /\ j \in 1..Begun /\ i \in Int /\ j \in Int
      /\ Begun - i + 1 \in Nat /\ Begun - i + 1 <= MaxBacklog
  <2>1. /\ TextCapacity \in Nat \ {0} /\ longest \in Nat /\ longest >= 1
        /\ Begun \in Nat /\ OldestText \in Nat /\ MaxBacklog \in Nat
        /\ Backlog <= MaxBacklog /\ Begun - OldestText + 1 <= Backlog /\ Backlog \in Nat
    <3>1. longest \in 1..TextCapacity
      BY DEF TextHasRoom
    <3>2. TextCapacity \in Nat \ {0} /\ MaxBacklog \in Nat
      BY LogNumbers
    <3>3. longest \in Nat /\ longest >= 1
      BY <3>1, <3>2
    <3>. QED
      BY <3>2, <3>3, Sizes
  <2>. QED
    BY <2>1
<1>2. /\ h[i].msg \in Nat /\ h[j].msg \in Nat /\ h[i].msgLen \in Nat /\ h[j].msgLen \in Nat
  <2>1. h[i] \in Entry /\ h[j] \in Entry
    BY <1>1
  <2>2. \A m \in Text!Indices : m \in Nat
    BY <1>1, LogNumbers
  <2>. QED
    BY <2>1, <2>2, LogNumbers DEF Entry
<1>3. /\ at[i] \in Int /\ at[j] \in Int /\ end \in Int
      /\ h[i].msg = at[i] % TextCapacity /\ h[i].msg + h[i].msgLen + 1 <= TextCapacity
      /\ h[j].msg = at[j] % TextCapacity /\ h[j].msg + h[j].msgLen + 1 <= TextCapacity
      /\ at[i] + h[i].msgLen + 1 <= at[j] /\ at[j] + h[j].msgLen + 1 <= end
      /\ end - at[i] <= (Begun - i + 1) * longest
                          + (IF at[i] >= end - (end % TextCapacity) THEN 0 ELSE longest - 1)
  BY <1>1 DEF Room, Reaches
<1>4. end - at[i] <= TextCapacity
  <2>. DEFINE k == Begun - i + 1
  <2>1. k \in Nat /\ k <= MaxBacklog
    BY <1>1
  <2>. HIDE DEF k
  <2>2. k * longest <= MaxBacklog * longest /\ k * longest \in Nat /\ MaxBacklog * longest \in Nat
        /\ (MaxBacklog + 1) * longest = MaxBacklog * longest + longest
    BY <1>1, <2>1
  <2>3. (MaxBacklog + 1) * longest <= TextCapacity + 1
    BY DEF TextHasRoom
  <2>4. end - at[i] <= k * longest + longest - 1
    BY <1>1, <1>3, <2>2 DEF k
  <2>. DEFINE kl == k * longest
              ml == MaxBacklog * longest
  <2>5. /\ kl \in Nat /\ ml \in Nat /\ kl <= ml /\ ml + longest <= TextCapacity + 1
        /\ end - at[i] <= kl + longest - 1
    BY <2>2, <2>3, <2>4
  <2>6. /\ end - at[i] \in Int /\ longest \in Int /\ TextCapacity \in Int
    BY <1>1, <1>3
  <2>. HIDE DEF kl, ml
  <2>. QED
    BY <2>5, <2>6
<1>5. SUFFICES ASSUME NEW c \in h[i].msg..h[i].msg+h[i].msgLen, c \in h[j].msg..h[j].msg+h[j].msgLen
               PROVE  FALSE
  OBVIOUS
<1>. DEFINE u == c - h[i].msg
            v == c - h[j].msg
            m == at[i] + u
            n == at[j] + v
<1>6. /\ u \in 0..h[i].msgLen /\ v \in 0..h[j].msgLen /\ h[i].msg + u = h[j].msg + v
  <2>. DEFINE mi == h[i].msg
              mj == h[j].msg
              li == h[i].msgLen
              lj == h[j].msgLen
  <2>1. mi \in Nat /\ mj \in Nat /\ li \in Nat /\ lj \in Nat /\ c \in mi..mi+li /\ c \in mj..mj+lj
    BY <1>2, <1>5
  <2>2. u = c - mi /\ v = c - mj
    OBVIOUS
  <2>. HIDE DEF mi, mj, li, lj, u, v
  <2>3. u \in 0..li /\ v \in 0..lj /\ mi + u = mj + v
    BY <2>1, <2>2
  <2>. QED
    BY <2>3 DEF mi, mj, li, lj
<1>. HIDE DEF u, v
<1>7. /\ m \in Int /\ n \in Int /\ m < n /\ n < m + TextCapacity /\ u \in Int /\ v \in Int
  <2>1. /\ u \in Int /\ v \in Int /\ 0 <= u /\ u <= h[i].msgLen /\ 0 <= v /\ v <= h[j].msgLen
    BY <1>2, <1>6
  <2>. DEFINE ai == at[i]
              aj == at[j]
              li == h[i].msgLen
              lj == h[j].msgLen
  <2>2. /\ ai \in Int /\ aj \in Int /\ end \in Int /\ li \in Nat /\ lj \in Nat /\ u <= li /\ v <= lj
        /\ ai + li + 1 <= aj /\ aj + lj + 1 <= end /\ end - ai <= TextCapacity
    BY <1>2, <1>3, <1>4, <2>1
  <2>3. m = ai + u /\ n = aj + v
    OBVIOUS
  <2>. HIDE DEF ai, aj, li, lj, m, n
  <2>. QED
    BY <1>1, <2>1, <2>2, <2>3
<1>8. h[i].msg + u = (at[i] % TextCapacity) + u /\ h[j].msg + v = (at[j] % TextCapacity) + v
  BY <1>3
<1>10. ((at[i] % TextCapacity) + u) % TextCapacity = m % TextCapacity
  BY <1>1, <1>3, <1>7, OnFrom
<1>11. ((at[j] % TextCapacity) + v) % TextCapacity = n % TextCapacity
  BY <1>1, <1>3, <1>7, OnFrom
<1>. HIDE DEF m, n
<1>9. m % TextCapacity # n % TextCapacity
  BY <1>1, <1>7, SlotsApart
<1>. QED
  BY <1>6, <1>8, <1>9, <1>10, <1>11

\* A text after the others, and the end of the texts after it: where the
\* range that PushEmptyRangeAdjacent takes lies.
LEMMA NextText ==
  ASSUME LoggingAssumption, NEW longest, TextHasRoom(longest), NEW len \in Lens,
         NEW end \in Int, NEW w \in Text!Words, w.onePastHeadIndex = end % TextCapacity
  PROVE  \E start, last \in Int :
           /\ start >= end /\ last = start + len + 1 /\ last - start <= 1 * longest
           /\ Text!RangeSlot(w, len + 1) = start % TextCapacity
           /\ Text!RangePushed(w, len + 1).onePastHeadIndex = last % TextCapacity
           /\ \A k \in Nat : \A a0 \in Int :
                1 <= k /\ k + 1 <= MaxBacklog /\ a0 < end /\ Reaches(end, a0, k, longest)
                => Reaches(last, a0, k + 1, longest)
<1>. DEFINE T == TextCapacity
            s == end % T
            q == end \div T
            n == len + 1
<1>1. /\ T \in Nat \ {0} /\ len \in Nat /\ n \in Int /\ 1 <= n /\ n < T /\ n <= longest
      /\ longest \in Nat /\ longest >= 1 /\ MaxBacklog \in Nat
  BY LogNumbers DEF TextHasRoom
<1>. HIDE DEF T
<1>2. s \in 0..T-1 /\ q \in Int /\ end = T * q + s /\ T * q \in Int
  BY <1>1, Quotient
<1>. HIDE DEF s, q
<1>3. /\ Text!Fits(w, n) <=> s + n <= T
      /\ Text!RangeSlot(w, n) = IF s + n <= T THEN s ELSE 0
      /\ Text!RangePushed(w, n).onePastHeadIndex = IF s + n <= T THEN (s + n) % T ELSE n
  <2>1. w.onePastHeadIndex = s
    BY DEF s, T
  <2>2. Text!Fits(w, n) <=> s + n <= T
    BY <1>1, <1>2, <2>1 DEF Text!Fits, T
  <2>. QED
    BY <2>1, <2>2 DEF Text!RangeSlot, Text!RangePushed, T
<1>4. /\ 0 % T = 0 /\ n % T = n
      /\ s + n = T => (s + n) % T = 0
      /\ s + n < T => (s + n) % T = s + n
  <2>. DEFINE m == s + n
  <2>1. m \in Int /\ m \in 0..2*T-1 /\ 0 \in 0..T-1 /\ n \in 0..T-1
        /\ (m = T => m \in T..2*T-1) /\ (m < T => m \in 0..T-1)
    BY <1>1, <1>2
  <2>. HIDE DEF m
  <2>2. 0 % T = 0 /\ n % T = n
    <3>1. 0 % T = 0
      BY <1>1, <2>1, Remainder
    <3>2. n % T = n
      BY <1>1, <2>1, Remainder
    <3>. QED
      BY <3>1, <3>2
  <2>3. (m = T => m % T = m - T) /\ (m < T => m % T = m)
    BY <1>1, <2>1, Remainder
  <2>. QED
    BY <1>1, <2>1, <2>2, <2>3 DEF m
<1>5. CASE s + n <= T
  <2>. DEFINE last == end + n
  <2>1. last % T = (s + n) % T
    BY <1>1, <1>2, OnFrom DEF s
  <2>2. last \in Int /\ last = end + len + 1 /\ last = end + n
    BY <1>1
  <2>. HIDE DEF last
  <2>3. ASSUME NEW k \in Nat, NEW a0 \in Int, 1 <= k, k + 1 <= MaxBacklog, a0 < end,
               end - a0 <= k * longest + (IF a0 >= end - s THEN 0 ELSE longest - 1)
        PROVE  last - a0 <= (k + 1) * longest + (IF a0 >= last - (last % T) THEN 0 ELSE longest - 1)
    <3>1. (k + 1) * longest = k * longest + longest /\ k * longest \in Nat
      BY <1>1
    <3>2. CASE s + n = T
      BY <1>1, <1>2, <1>4, <2>1, <2>2, <2>3, <3>1, <3>2
    <3>3. CASE s + n < T
      <4>1. last - (last % T) = end - s
        BY <1>1, <1>2, <1>4, <2>1, <2>2, <3>3
      <4>. QED
        BY <1>1, <2>2, <2>3, <3>1, <4>1
    <3>. QED
      BY <1>1, <1>2, <1>5, <3>2, <3>3
  <2>4. Text!RangeSlot(w, len + 1) = end % T
    BY <1>3, <1>5 DEF s
  <2>5. Text!RangePushed(w, len + 1).onePastHeadIndex = last % T
    BY <1>3, <1>5, <2>1
  <2>6. last - end <= 1 * longest
    BY <1>1, <2>2
  <2>. QED
    BY <2>2, <2>3, <2>4, <2>5, <2>6 DEF Reaches, T, s
<1>6. CASE ~ (s + n <= T)
  <2>. DEFINE start == T * q + T
              last  == start + n
  <2>1. start \in Int /\ start > end /\ start - end = T - s /\ start - end <= n - 1
    BY <1>1, <1>2, <1>6
  <2>2. start % T = 0 /\ last % T = n
    <3>1. q + 1 \in Int /\ start = 0 + T * (q + 1) /\ last = n + T * (q + 1)
      BY <1>1, <1>2
    <3>2. start % T = 0
      <4>1. T \in Int /\ T \in T..2*T-1 /\ start = T + T * q
        BY <1>1, <1>2
      <4>2. (T + T * q) % T = T % T
        BY <1>1, <1>2, <4>1, WholeTurns
      <4>3. T % T = T - T
        BY <1>1, <4>1, Remainder
      <4>. QED
        BY <1>1, <4>1, <4>2, <4>3
    <3>3. (n + T * (q + 1)) % T = n % T
      BY <1>1, <3>1, WholeTurns
    <3>. QED
      BY <1>4, <3>1, <3>2, <3>3
  <2>. HIDE DEF start
  <2>3. last \in Int /\ last = start + len + 1
    BY <1>1, <2>1
  <2>4. ASSUME NEW k \in Nat, NEW a0 \in Int, 1 <= k, k + 1 <= MaxBacklog, a0 < end,
               end - a0 <= k * longest + (IF a0 >= end - s THEN 0 ELSE longest - 1)
        PROVE  last - a0 <= (k + 1) * longest + (IF a0 >= last - (last % T) THEN 0 ELSE longest - 1)
    <3>1. (k + 1) * longest = k * longest + longest /\ k * longest \in Nat
          /\ (k + 1) * longest <= MaxBacklog * longest
          /\ MaxBacklog * longest \in Nat /\ (MaxBacklog + 1) * longest = MaxBacklog * longest + longest
      BY <1>1, <2>4
    <3>2. MaxBacklog * longest + longest <= T + 1
      BY <3>1 DEF TextHasRoom, T
    <3>3. a0 >= end - s
      <4>1. SUFFICES ASSUME a0 < end - s PROVE FALSE
        BY <1>1, <1>2
      <4>2. end - a0 <= k * longest + longest - 1
        BY <1>2, <2>4, <4>1
      <4>3. end - a0 >= s + 1 /\ s >= T - n + 1
        BY <1>1, <1>2, <1>6, <4>1
      <4>. QED
        BY <1>1, <1>2, <3>1, <3>2, <4>2, <4>3
    <3>4. end - a0 <= k * longest
      BY <1>1, <1>2, <2>4, <3>1, <3>3
    <3>5. last - (last % T) = start
      BY <1>1, <2>1, <2>2
    <3>6. last - a0 <= (k + 1) * longest + longest - 1
      BY <1>1, <1>2, <2>1, <3>1, <3>4
    <3>. QED
      BY <1>1, <2>1, <2>4, <3>5, <3>6
  <2>5. Text!RangeSlot(w, len + 1) = start % T
    BY <1>3, <1>6, <2>2
  <2>6. Text!RangePushed(w, len + 1).onePastHeadIndex = last % T
    BY <1>3, <1>6, <2>2
  <2>7. last - start <= 1 * longest
    BY <1>1, <2>1, <2>3
  <2>. QED
    BY <1>2, <2>1, <2>3, <2>4, <2>5, <2>6, <2>7 DEF Reaches, T, s
<1>. QED
  BY <1>5, <1>6

\* Where every message is.
Printing(h, at, end, longest) ==
  /\ History(h)
  /\ Loggers(h)
  /\ Queue(h)
  /\ Room(h, at, end, longest)
  /\ Written(h)

\* The characters of an entry.
LEMMA EntryNumbers ==
  ASSUME LoggingAssumption, NEW e \in Entry
  PROVE  /\ e.msg \in Nat /\ e.msgLen \in Nat /\ e.msgLen >= 1 /\ e.msg \in Chars(e)
         /\ \A c \in Chars(e) : c \in e.msg..e.msg+e.msgLen
         /\ e.msg + e.msgLen + 1 <= TextCapacity => \A c \in Chars(e) : c \in Text!Indices
<1>1. e.msg \in 0..TextCapacity-1 /\ e.msgLen \in Lens /\ TextCapacity \in Nat
  BY LogNumbers DEF Entry
<1>2. e.msg \in Nat /\ e.msgLen \in Nat /\ e.msgLen >= 1
  <2>1. e.msg \in Nat
    BY <1>1
  <2>2. \A len \in Lens : len \in Nat /\ len >= 1
    BY LogNumbers
  <2>. QED
    BY <1>1, <2>1, <2>2
<1>. QED
  BY <1>1, <1>2, LogNumbers DEF Chars

\* What each part depends on.
LEMMA HistoryStays ==
  ASSUME NEW h, History(h), Begun' = Begun, logged' = logged, delivered' = delivered
  PROVE  History(h)'
BY DEF History

LEMMA LoggersStay ==
  ASSUME NEW h, Loggers(h), Begun' = Begun, pc' = pc, text' = text, logged' = logged, slot' = slot
  PROVE  Loggers(h)'
BY DEF Loggers, Alone, Message

LEMMA RoomStays ==
  ASSUME NEW h, NEW at, NEW end, NEW longest, Room(h, at, end, longest),
         textWord'.onePastHeadIndex = textWord.onePastHeadIndex, Begun' = Begun, Begun \in Int,
         OldestText \in Int, OldestText' \in Int, OldestText <= OldestText'
  PROVE  Room(h, at, end, longest)'
<1>1. \A i \in OldestText'..Begun : i \in OldestText..Begun
  OBVIOUS
<1>. QED
  BY <1>1 DEF Room, Reaches

LEMMA WrittenStays ==
  ASSUME NEW h, Written(h), Begun' = Begun, Begun \in Int,
         Len(delivered) \in Int, Len(delivered)' \in Int, Len(delivered) <= Len(delivered)',
         At({"entry", "clear", "fill", "write"})' = {} => At({"entry", "clear", "fill", "write"}) = {},
         \A i \in Len(delivered)'+1..Begun : \A c \in Chars(h[i]) : msgBuffer'[c] = msgBuffer[c]
  PROVE  Written(h)'
<1>1. \A i \in Len(delivered)'+1..Begun : i \in Len(delivered)+1..Begun
  OBVIOUS
<1>. QED
  BY <1>1 DEF Written, Chars

LEMMA QueueStays ==
  ASSUME NEW h, Queue(h), pc' = pc, delivered' = delivered, Claimed' = Claimed,
         OldestEntry' = OldestEntry, entryQueue' = entryQueue,
         entryWord'.onePastHeadIndex = entryWord.onePastHeadIndex,
         worker' = "copy" => worker = "copy" /\ taken' = taken,
         worker' = "deliver" => worker = "deliver" /\ entry' = entry,
         worker' = "zero" => worker = "zero" /\ entry' = entry
  PROVE  Queue(h)'
<1>1. At({"clear", "fill"})' = At({"clear", "fill"})
  BY PlacesStay
<1>. QED
  BY <1>1 DEF Queue

\* What every step starts from.
Usual == LoggingAssumption /\ MaxBacklog <= EntryCapacity /\ LogTypes /\ IInv /\ BeforeStop

\* A step after which nothing that has been logged, queued or printed is any different.
LEMMA QuietStep ==
  ASSUME Usual, NEW h, NEW at, NEW end, NEW longest, Printing(h, at, end, longest),
         UNCHANGED <<pc, text, logged, slot, delivered, msgBuffer, entryWord, entryQueue>>,
         textWord'.onePastHeadIndex = textWord.onePastHeadIndex,
         \/ UNCHANGED <<worker, taken, entry>>
         \/ worker \notin {"copy", "deliver", "zero"} /\ worker' \notin {"copy", "deliver", "zero"}
  PROVE  Printing(h, at, end, longest)'
<1>1. /\ Len(delivered) \in Int /\ Begun \in Int /\ OldestText \in Int
  BY Sizes DEF Usual, Printing, Loggers
<1>2. /\ OldestText' = OldestText /\ OldestEntry' = OldestEntry /\ Held' = Held
  BY DEF OldestText, OldestEntry, Held
<1>3. Claimed' = Claimed
  BY <1>2 DEF Claimed
<1>4. At({"entry"})' = At({"entry"})
      /\ At({"entry", "clear", "fill", "write"})' = At({"entry", "clear", "fill", "write"})
  BY PlacesStay
<1>5. Begun' = Begun
  BY <1>3, <1>4 DEF Begun
<1>6. History(h)'
  BY <1>5, HistoryStays DEF Printing
<1>7. Loggers(h)'
  BY <1>5, LoggersStay DEF Printing
<1>8. Queue(h)'
  BY <1>2, <1>3, QueueStays DEF Printing
<1>9. Room(h, at, end, longest)'
  BY <1>1, <1>2, <1>5, RoomStays DEF Printing
<1>10. Written(h)'
  BY <1>1, <1>4, <1>5, WrittenStays DEF Printing
<1>. QED
  BY <1>6, <1>7, <1>8, <1>9, <1>10 DEF Printing

---------------------------------------------------------------------------
(* The logging thread.                                                     *)

\* What it takes is the slot of the oldest entry.
LEMMA PopIndexPrints ==
  ASSUME Usual, NEW h, NEW at, NEW end, NEW longest, Printing(h, at, end, longest), PopIndex
  PROVE  Printing(h, at, end, longest)'
<1>1. /\ Len(delivered) \in Nat /\ entryWord.count \in Nat /\ Claimed \in Nat /\ Begun \in Nat
      /\ OldestText \in Nat /\ Claimed = Len(delivered) + Held + entryWord.count
      /\ Claimed - Len(delivered) <= EntryCapacity
  BY Sizes DEF Usual, Printing, Loggers
<1>2. /\ worker = "pop" /\ entryWord' = Entries!TailPopped(entryWord)
      /\ worker' = (IF entryWord.count > 0 THEN "copy" ELSE "check")
      /\ taken' = (IF entryWord.count > 0 THEN Entries!TailSlot(entryWord) ELSE taken)
      /\ UNCHANGED <<pc, text, logged, slot, delivered, msgBuffer, textWord, entryQueue>>
  BY DEF PopIndex, WorkerStep, prod
<1>3. entryWord.count > 0
  <2>1. Cardinality(Unsignalled) \in Nat /\ permits \in Nat /\ Popping = 1
    BY <1>2, CountsOfPlaces DEF Unsignalled, IInv, CountsTyped, Popping, Usual
  <2>. QED
    BY <1>1, <2>1 DEF IInv, Usual
<1>4. /\ entryWord'.count = entryWord.count - 1
      /\ entryWord'.onePastHeadIndex = entryWord.onePastHeadIndex
  <2>1. entryWord = [count |-> entryWord.count, onePastHeadIndex |-> entryWord.onePastHeadIndex]
    BY DEF Usual, LogTypes, TypeOK, Entries!Words
  <2>. QED
    BY <1>2, <1>3, <2>1 DEF Entries!TailPopped
<1>5. Held = 0 /\ Held' = 1 /\ OldestText' = OldestText /\ OldestEntry' = OldestEntry
      /\ OldestEntry = Len(delivered) + 1
  BY <1>2, <1>3 DEF Held, OldestText, OldestEntry
<1>6. Claimed' = Claimed
  BY <1>1, <1>2, <1>4, <1>5 DEF Claimed
<1>7. At({"entry"})' = At({"entry"})
      /\ At({"entry", "clear", "fill", "write"})' = At({"entry", "clear", "fill", "write"})
      /\ At({"clear", "fill"})' = At({"clear", "fill"})
  BY <1>2, PlacesStay
<1>8. Begun' = Begun
  BY <1>6, <1>7 DEF Begun
<1>9. taken' = Len(delivered) % EntryCapacity
  <2>. DEFINE c == entryWord.count
  <2>1. EntryCapacity \in Nat \ {0} /\ Claimed \in Int /\ 0-c \in Int /\ c \in Nat
        /\ Claimed + (0-c) = Len(delivered)
    <3>1. EntryCapacity \in Nat \ {0}
      BY LogNumbers DEF Usual
    <3>2. Claimed \in Nat /\ c \in Nat /\ Claimed = Len(delivered) + 0 + c /\ Len(delivered) \in Nat
      BY <1>1, <1>5
    <3>. HIDE DEF c
    <3>. QED
      BY <3>1, <3>2
  <2>2. taken' = (entryWord.onePastHeadIndex - c) % EntryCapacity
    BY <1>2, <1>3 DEF Entries!TailSlot
  <2>3. entryWord.onePastHeadIndex = Claimed % EntryCapacity
    BY DEF Printing, Queue
  <2>. HIDE DEF c
  <2>4. (Claimed % EntryCapacity) \in Int
    BY <2>1, GoesRound
  <2>5. (Claimed % EntryCapacity) - c = (Claimed % EntryCapacity) + (0-c)
    BY <2>1, <2>4
  <2>6. ((Claimed % EntryCapacity) + (0-c)) % EntryCapacity = (Claimed + (0-c)) % EntryCapacity
    BY <2>1, OnFrom
  <2>. QED
    BY <2>1, <2>2, <2>3, <2>5, <2>6
<1>10. Queue(h)'
  <2>1. /\ entryWord'.onePastHeadIndex = Claimed' % EntryCapacity
        /\ worker' = "copy" /\ taken' = Len(delivered') % EntryCapacity
    BY <1>2, <1>3, <1>4, <1>6, <1>9 DEF Printing, Queue
  <2>. QED
    BY <1>2, <1>5, <1>6, <1>7, <2>1 DEF Printing, Queue
<1>11. History(h)'
  BY <1>2, <1>8, HistoryStays DEF Printing
<1>12. Loggers(h)'
  BY <1>2, <1>8, LoggersStay DEF Printing
<1>13. Room(h, at, end, longest)'
  BY <1>1, <1>2, <1>5, <1>8, RoomStays DEF Printing
<1>14. Written(h)'
  BY <1>1, <1>2, <1>7, <1>8, WrittenStays DEF Printing
<1>. QED
  BY <1>10, <1>11, <1>12, <1>13, <1>14 DEF Printing

\* What the thread pops is the oldest entry, and nobody is filling it in.
LEMMA OldestIsWhole ==
  ASSUME Usual, Alone, worker \in {"copy", "deliver"}
  PROVE  /\ Len(delivered) + 1 \in 1..Claimed /\ Claimed <= Begun
         /\ Len(delivered) + 1 = Claimed => At({"clear", "fill"}) = {}
         /\ Len(delivered) + 1 = Begun => At({"entry", "clear", "fill", "write"}) = {}
<1>1. /\ Len(delivered) \in Nat /\ entryWord.count \in Nat /\ Claimed \in Nat /\ Begun \in Nat
      /\ Claimed = Len(delivered) + Held + entryWord.count
      /\ Begun = Claimed + Cardinality(At({"entry"})) /\ Cardinality(At({"entry"})) \in Nat
      /\ \A p \in Producers : pc[p] = "entry" => Begun = Claimed + 1
      /\ \A p \in Producers : pc[p] \in {"clear", "fill", "write", "signal"} =>
              Begun = Claimed /\ entryWord.count >= 1
  BY Sizes DEF Usual
<1>2. Held = 1
  BY DEF Held
<1>3. /\ Len(delivered) + 1 \in 1..Claimed /\ Claimed <= Begun
      /\ Len(delivered) + 1 = Claimed => entryWord.count = 0
      /\ Len(delivered) + 1 = Begun => entryWord.count = 0 /\ Begun = Claimed
  BY <1>1, <1>2
<1>4. /\ entryWord.count = 0 => At({"clear", "fill"}) = {}
      /\ entryWord.count = 0 /\ Begun = Claimed => At({"entry", "clear", "fill", "write"}) = {}
  <2>1. entryWord.count = 0 => \A p \in Producers : pc[p] \notin {"clear", "fill", "write", "signal"}
    BY <1>1
  <2>2. Begun = Claimed => \A p \in Producers : pc[p] # "entry"
    BY <1>1
  <2>3. entryWord.count = 0 => At({"clear", "fill"}) = {}
    BY <2>1 DEF At
  <2>4. entryWord.count = 0 /\ Begun = Claimed => At({"entry", "clear", "fill", "write"}) = {}
    BY <2>1, <2>2, Zenon DEF At
  <2>. QED
    BY <2>3, <2>4
<1>. QED
  BY <1>3, <1>4

\* What it copies is the oldest message.
LEMMA CopyEntryPrints ==
  ASSUME Usual, NEW h, NEW at, NEW end, NEW longest, Printing(h, at, end, longest), CopyEntry
  PROVE  Printing(h, at, end, longest)'
<1>1. /\ Len(delivered) \in Nat /\ Claimed \in Nat /\ Begun \in Nat
      /\ OldestText \in Nat /\ OldestEntry \in Nat
  BY Sizes DEF Usual, Printing, Loggers
<1>2. /\ worker = "copy" /\ worker' = "deliver" /\ entry' = entryQueue[taken]
      /\ UNCHANGED <<pc, text, logged, slot, delivered, msgBuffer, textWord, entryWord, entryQueue>>
  BY DEF CopyEntry, WorkerStep, ring, prod
<1>3. Held' = Held /\ OldestText' = OldestText /\ OldestEntry = Len(delivered) + 1
      /\ OldestEntry' = Len(delivered) + 2
  BY <1>2 DEF Held, OldestText, OldestEntry
<1>4. Claimed' = Claimed
  BY <1>2, <1>3 DEF Claimed
<1>5. At({"entry"})' = At({"entry"})
      /\ At({"entry", "clear", "fill", "write"})' = At({"entry", "clear", "fill", "write"})
      /\ At({"clear", "fill"})' = At({"clear", "fill"})
  BY <1>2, PlacesStay
<1>6. Begun' = Begun
  BY <1>4, <1>5 DEF Begun
<1>7. /\ Len(delivered) + 1 \in OldestEntry..Claimed
      /\ Len(delivered) + 1 = Claimed => At({"clear", "fill"}) = {}
  BY <1>1, <1>2, <1>3, OldestIsWhole DEF Printing, Loggers
<1>8. entry' = h[Len(delivered) + 1]
  <2>1. taken = Len(delivered) % EntryCapacity /\ (Len(delivered) + 1) - 1 = Len(delivered)
    BY <1>1, <1>2 DEF Printing, Queue
  <2>2. entryQueue[((Len(delivered) + 1) - 1) % EntryCapacity] = h[Len(delivered) + 1]
    BY <1>7 DEF Printing, Queue
  <2>. QED
    BY <1>2, <2>1, <2>2
<1>9. Queue(h)'
  <2>1. \A i \in OldestEntry'..Claimed : i \in OldestEntry..Claimed
    BY <1>1, <1>3
  <2>. QED
    BY <1>2, <1>4, <1>5, <1>8, <2>1 DEF Printing, Queue
<1>10. History(h)'
  BY <1>2, <1>6, HistoryStays DEF Printing
<1>11. Loggers(h)'
  BY <1>2, <1>6, LoggersStay DEF Printing
<1>12. Room(h, at, end, longest)'
  BY <1>1, <1>2, <1>3, <1>6, RoomStays DEF Printing
<1>13. Written(h)'
  BY <1>1, <1>2, <1>5, <1>6, WrittenStays DEF Printing
<1>. QED
  BY <1>9, <1>10, <1>11, <1>12, <1>13 DEF Printing

\* What it prints is that message, with the characters of its logger.
LEMMA DeliverPrints ==
  ASSUME Usual, NEW h, NEW at, NEW end, NEW longest, Printing(h, at, end, longest), Deliver
  PROVE  Printing(h, at, end, longest)'
<1>. DEFINE d == Len(delivered)
<1>1. /\ d \in Nat /\ Claimed \in Nat /\ Begun \in Nat /\ entryWord.count \in Nat
      /\ OldestText \in Nat /\ OldestEntry \in Nat
      /\ Claimed = d + Held + entryWord.count
  BY Sizes DEF Usual, Printing, Loggers
<1>2. /\ worker = "deliver" /\ worker' = "zero" /\ entry' = entry
      /\ UNCHANGED <<pc, text, logged, slot, msgBuffer, textWord, entryWord, entryQueue, taken>>
  BY DEF Deliver, WorkerStep, ring, prod
<1>3. /\ d + 1 \in 1..Begun
      /\ d + 1 = Begun => At({"entry", "clear", "fill", "write"}) = {}
  BY <1>1, <1>2, OldestIsWhole DEF Printing, Loggers
<1>4. entry = h[d + 1] /\ entry \in Entry
  BY <1>2, <1>3 DEF Printing, Queue, History
<1>5. {msgBuffer[c] : c \in Chars(entry)} = {entry.of}
  <2>1. \A c \in Chars(entry) : msgBuffer[c] = entry.of
    BY <1>1, <1>3, <1>4 DEF Printing, Written
  <2>2. entry.msg \in Chars(entry)
    BY <1>4, EntryNumbers DEF Usual
  <2>. QED
    BY <2>1, <2>2
<1>6. delivered' = Append(delivered, [of |-> entry.of, chars |-> {entry.of}])
  BY <1>4, <1>5 DEF Deliver
<1>7. /\ Len(delivered') = d + 1
      /\ \A i \in 1..d : delivered'[i] = delivered[i]
      /\ delivered'[d + 1] = [of |-> entry.of, chars |-> {entry.of}]
  BY <1>6, ListGrows DEF Usual, LogTypes
<1>. HIDE DEF d
<1>8. Held = 1 /\ Held' = 0 /\ OldestText = d + 1 /\ OldestText' = d + 1
      /\ OldestEntry = d + 2 /\ OldestEntry' = (d + 1) + 1
  BY <1>2, <1>7 DEF Held, OldestText, OldestEntry, d
<1>9. Claimed' = Claimed
  BY <1>1, <1>2, <1>7, <1>8 DEF Claimed
<1>10. At({"entry"})' = At({"entry"})
      /\ At({"entry", "clear", "fill", "write"})' = At({"entry", "clear", "fill", "write"})
      /\ At({"clear", "fill"})' = At({"clear", "fill"})
  BY <1>2, PlacesStay
<1>11. Begun' = Begun
  BY <1>9, <1>10 DEF Begun
<1>12. Queue(h)'
  <2>1. OldestEntry' = OldestEntry
    BY <1>1, <1>8
  <2>2. worker' = "zero" /\ Len(delivered') >= 1 /\ entry' = h[Len(delivered')]
    BY <1>1, <1>2, <1>4, <1>7
  <2>. QED
    BY <1>2, <1>9, <1>10, <2>1, <2>2 DEF Printing, Queue
<1>13. History(h)'
  <2>1. \A i \in 1..Len(delivered') : delivered'[i].of = h[i].of /\ delivered'[i].chars = {h[i].of}
    <3>1. \A i \in 1..Len(delivered') : i = d + 1 \/ i \in 1..d
      BY <1>1, <1>7
    <3>2. \A i \in 1..d : delivered[i].of = h[i].of /\ delivered[i].chars = {h[i].of}
      BY DEF Printing, History, d
    <3>. QED
      BY <1>4, <1>7, <3>1, <3>2
  <2>. QED
    BY <1>2, <1>11, <2>1 DEF Printing, History
<1>14. Loggers(h)'
  BY <1>2, <1>11, LoggersStay DEF Printing
<1>15. Room(h, at, end, longest)'
  BY <1>1, <1>2, <1>8, <1>11, RoomStays DEF Printing
<1>16. Written(h)'
  <2>1. Len(delivered) \in Int /\ Len(delivered)' \in Int /\ Len(delivered) <= Len(delivered)'
    BY <1>1, <1>7 DEF d
  <2>. QED
    BY <1>1, <1>2, <1>10, <1>11, <2>1, WrittenStays DEF Printing
<1>. QED
  BY <1>12, <1>13, <1>14, <1>15, <1>16 DEF Printing

\* What it clears is the text of that message and of no other.
LEMMA ZeroTextPrints ==
  ASSUME Usual, NEW h, NEW at, NEW end, NEW longest, TextHasRoom(longest),
         Printing(h, at, end, longest), ZeroText
  PROVE  Printing(h, at, end, longest)'
<1>. DEFINE d == Len(delivered)
<1>1. /\ d \in Nat /\ Claimed \in Nat /\ Begun \in Nat
      /\ OldestText \in Nat /\ OldestEntry \in Nat
  BY Sizes DEF Usual, Printing, Loggers
<1>2. /\ worker = "zero" /\ worker' = "reclaim"
      /\ UNCHANGED <<pc, text, logged, slot, delivered, textWord, entryWord, entryQueue, taken, entry>>
      /\ msgBuffer' = [c \in Text!Indices |->
                         IF entry \in Entry /\ c \in Chars(entry) THEN Zero ELSE msgBuffer[c]]
  BY DEF ZeroText, WorkerStep, prod
<1>3. Held' = Held /\ OldestEntry' = OldestEntry /\ OldestText = d /\ OldestText' = d + 1
  BY <1>2 DEF Held, OldestText, OldestEntry
<1>4. Claimed' = Claimed
  BY <1>2, <1>3 DEF Claimed
<1>5. At({"entry"})' = At({"entry"})
      /\ At({"entry", "clear", "fill", "write"})' = At({"entry", "clear", "fill", "write"})
  BY <1>2, PlacesStay
<1>6. Begun' = Begun
  BY <1>4, <1>5 DEF Begun
<1>7. d >= 1 /\ entry = h[d]
  BY <1>2 DEF Printing, Queue
<1>8. \A i \in d+1..Begun : \A c \in Chars(h[i]) : msgBuffer'[c] = msgBuffer[c]
  <2>. SUFFICES ASSUME NEW i \in d+1..Begun, NEW c \in Chars(h[i])
                PROVE  msgBuffer'[c] = msgBuffer[c]
    OBVIOUS
  <2>1. d \in OldestText..Begun /\ i \in OldestText..Begun /\ d < i /\ 1 <= OldestText
    BY <1>1, <1>3, <1>7
  <2>. HIDE DEF d
  <2>2. h[d].msg..h[d].msg+h[d].msgLen \cap h[i].msg..h[i].msg+h[i].msgLen = {}
    BY <2>1, TextsApart DEF Printing, Usual, Loggers, History
  <2>4. h[d] \in Entry /\ h[i] \in Entry
    <3>1. d \in 1..Begun /\ i \in 1..Begun
      BY <1>1, <1>3, <2>1
    <3>. QED
      BY <3>1 DEF Printing, History
  <2>5. ~ (c \in Chars(entry))
    BY <1>7, <2>2, <2>4, EntryNumbers DEF Usual
  <2>6. c \in Text!Indices
    <3>1. h[i].msg + h[i].msgLen + 1 <= TextCapacity
      BY <2>1 DEF Printing, Room
    <3>. QED
      BY <2>4, <3>1, EntryNumbers DEF Usual
  <2>. QED
    BY <1>2, <2>5, <2>6
<1>9. Queue(h)'
  BY <1>2, <1>3, <1>4, QueueStays DEF Printing
<1>10. History(h)'
  BY <1>2, <1>6, HistoryStays DEF Printing
<1>11. Loggers(h)'
  BY <1>2, <1>6, LoggersStay DEF Printing
<1>12. Room(h, at, end, longest)'
  BY <1>1, <1>2, <1>3, <1>6, RoomStays DEF Printing
<1>13. Written(h)'
  BY <1>1, <1>2, <1>5, <1>6, <1>8, WrittenStays DEF Printing
<1>. QED
  BY <1>9, <1>10, <1>11, <1>12, <1>13 DEF Printing

---------------------------------------------------------------------------
(* A thread that logs.                                                     *)

\* The one thread that logs goes on: where everyone is then.
LEMMA LoggerGoesOn ==
  ASSUME Usual, Alone, NEW p \in Producers, NEW from, NEW to, from # "idle", ProducerStep(p, from, to)
  PROVE  /\ pc[p] = from /\ pc'[p] = to
         /\ \A q \in Producers : q # p => pc[q] = "idle" /\ pc'[q] = "idle"
         /\ Alone'
         /\ \A places : "idle" \notin places =>
              /\ At(places) = IF from \in places THEN {p} ELSE {}
              /\ At(places)' = IF to \in places THEN {p} ELSE {}
<1>1. pc[p] = from /\ pc'[p] = to /\ \A q \in Producers : q # p => pc'[q] = pc[q]
  BY DEF ProducerStep, Usual, IInv, CountsTyped
<1>2. \A q \in Producers : q # p => pc[q] = "idle"
  BY <1>1 DEF Alone
<1>3. Alone'
  BY <1>1, <1>2 DEF Alone
<1>4. ASSUME NEW places, "idle" \notin places
      PROVE  /\ At(places) = IF from \in places THEN {p} ELSE {}
             /\ At(places)' = IF to \in places THEN {p} ELSE {}
  BY <1>1, <1>2, <1>4 DEF At
<1>. QED
  BY <1>1, <1>2, <1>3, <1>4

\* What a step of it that changes neither the texts nor the queue's indices leaves as it was.
LEMMA LoggerStays ==
  ASSUME Usual, NEW h, NEW at, NEW end, NEW longest, Printing(h, at, end, longest),
         NEW p \in Producers, NEW from \in {"clear", "fill", "write", "signal"},
         NEW to \in {"fill", "write", "signal", "idle"},
         ProducerStep(p, from, to),
         UNCHANGED <<textWord, entryWord, logged, text, slot, cons>>
  PROVE  /\ Claimed' = Claimed /\ Begun' = Begun /\ Begun = Claimed
         /\ OldestEntry' = OldestEntry /\ OldestText' = OldestText
         /\ slot[p] = (Begun - 1) % EntryCapacity
         /\ h[Begun] = [msg |-> text[p].msg, msgLen |-> text[p].msgLen, of |-> Message(p)]
         /\ History(h)' /\ Loggers(h)' /\ Room(h, at, end, longest)'
<1>1. /\ Begun \in Int /\ OldestText \in Int /\ pc[p] = from
      /\ Begun = Claimed
  <2>1. pc[p] \in {"clear", "fill", "write", "signal"} /\ pc[p] = from
    BY DEF ProducerStep
  <2>2. /\ Begun \in Nat /\ OldestText \in Nat
        /\ \A q \in Producers : pc[q] \in {"clear", "fill", "write", "signal"} => Begun = Claimed
    BY Sizes DEF Usual, Printing, Loggers
  <2>. QED
    BY <2>1, <2>2
<1>2. /\ At({"entry"}) = {} /\ At({"entry"})' = {}
  BY LoggerGoesOn DEF Printing, Loggers
<1>3. /\ Held' = Held /\ OldestEntry' = OldestEntry /\ OldestText' = OldestText
  BY DEF Held, OldestEntry, OldestText, cons
<1>4. Claimed' = Claimed
  BY <1>3 DEF Claimed, cons
<1>5. Begun' = Begun
  BY <1>2, <1>4 DEF Begun
<1>6. /\ slot[p] = (Begun - 1) % EntryCapacity
      /\ h[Begun] = [msg |-> text[p].msg, msgLen |-> text[p].msgLen, of |-> Message(p)]
  BY <1>1 DEF Printing, Loggers
<1>7. History(h)'
  BY <1>5, HistoryStays DEF Printing, cons
<1>8. Loggers(h)'
  <2>1. Alone' /\ \A q \in Producers : q # p => pc'[q] = "idle"
    BY LoggerGoesOn DEF Printing, Loggers
  <2>2. ASSUME NEW q \in Producers, pc'[q] # "idle"
        PROVE  q = p
    BY <2>1, <2>2
  <2>. QED
    BY <1>5, <1>6, <2>1, <2>2 DEF Loggers, Message
<1>9. Room(h, at, end, longest)'
  BY <1>1, <1>3, <1>5, RoomStays DEF Printing
<1>. QED
  BY <1>1, <1>3, <1>4, <1>5, <1>6, <1>7, <1>8, <1>9

\* The entry that is claimed is the one after those in the queue.
LEMMA ClaimEntryPrints ==
  ASSUME Usual, NEW h, NEW at, NEW end, NEW longest, Printing(h, at, end, longest),
         NEW p \in Producers, ClaimEntry(p)
  PROVE  Printing(h, at, end, longest)'
<1>. DEFINE c == entryWord.count
            head == entryWord.onePastHeadIndex
<1>1. /\ ProducerStep(p, "entry", "clear") /\ entryWord' = Entries!Pushed(entryWord)
      /\ slot' = [slot EXCEPT ![p] = head]
      /\ UNCHANGED <<textWord, msgBuffer, entryQueue, logged, text, worker, taken, entry, delivered>>
  BY DEF ClaimEntry, cons
<1>2. /\ pc[p] = "entry" /\ pc'[p] = "clear"
      /\ \A q \in Producers : q # p => pc[q] = "idle" /\ pc'[q] = "idle"
      /\ Alone' /\ At({"entry"}) = {p} /\ At({"entry"})' = {}
      /\ At({"clear", "fill"}) = {} /\ At({"clear", "fill"})' = {p}
      /\ At({"entry", "clear", "fill", "write"})' = {p}
  <2>1. Alone
    BY DEF Printing, Loggers
  <2>. QED
    BY <1>1, <2>1, LoggerGoesOn
<1>3. /\ Len(delivered) \in Nat /\ Claimed \in Nat /\ Begun \in Nat /\ c \in Nat
      /\ OldestText \in Nat /\ OldestEntry \in Nat
      /\ Claimed = Len(delivered) + Held + c /\ Held \in {0, 1}
      /\ Begun = Claimed + 1 /\ Backlog <= MaxBacklog /\ MaxBacklog <= EntryCapacity
      /\ MaxBacklog \in Nat /\ EntryCapacity \in Nat \ {0}
  BY <1>2, Sizes, LogNumbers DEF Usual, Printing, Loggers
<1>4. Cardinality(At({"entry"})) = 1 /\ Cardinality(At({"entry"})') = 0
  BY <1>2, FS_Singleton, FS_EmptySet
<1>5. c + 1 <= EntryCapacity
  <2>1. Backlog = 1 + c + InHand /\ InHand \in {0, 1}
    BY <1>4 DEF Backlog, InHand
  <2>. HIDE DEF c
  <2>. QED
    BY <1>3, <2>1
<1>6. /\ entryWord'.count = c + 1
      /\ entryWord'.onePastHeadIndex = (head + 1) % EntryCapacity
  <2>1. Entries!AtMost(c + 1, EntryCapacity) = c + 1
    BY <1>3, <1>5 DEF Entries!AtMost
  <2>. QED
    BY <1>1, <2>1 DEF Entries!Pushed
<1>7. /\ Held' = Held /\ OldestEntry' = OldestEntry /\ OldestText' = OldestText
  BY <1>1 DEF Held, OldestEntry, OldestText
<1>8. Claimed' = Claimed + 1 /\ Begun' = Begun
  <2>1. Claimed' = Len(delivered) + Held + (c + 1)
    BY <1>1, <1>6, <1>7 DEF Claimed
  <2>2. Begun' = Claimed' + 0
    BY <1>4 DEF Begun
  <2>. HIDE DEF c
  <2>3. Claimed' = Claimed + 1
    BY <1>3, <2>1
  <2>. QED
    BY <1>3, <2>2, <2>3
<1>9. head = Claimed % EntryCapacity
  BY DEF Printing, Queue
<1>10. Queue(h)'
  <2>1. entryWord'.onePastHeadIndex = Claimed' % EntryCapacity
    <3>1. ((Claimed % EntryCapacity) + 1) % EntryCapacity = (Claimed + 1) % EntryCapacity
      <4>1. Claimed \in Int /\ 1 \in Int /\ EntryCapacity \in Nat \ {0}
        BY <1>3
      <4>. QED
        BY <4>1, OnFrom
    <3>. QED
      BY <1>6, <1>8, <1>9, <3>1
  <2>2. ASSUME NEW i \in OldestEntry'..Claimed', i = Claimed' => At({"clear", "fill"})' = {}
        PROVE  entryQueue'[(i - 1) % EntryCapacity] = h[i]
    <3>1. i # Claimed'
      BY <1>2, <2>2
    <3>2. i \in OldestEntry..Claimed
      BY <1>3, <1>7, <1>8, <3>1
    <3>. QED
      BY <1>1, <1>2, <3>2 DEF Printing, Queue
  <2>. QED
    BY <1>1, <2>1, <2>2 DEF Printing, Queue
<1>11. History(h)'
  BY <1>1, <1>8, HistoryStays DEF Printing
<1>12. Loggers(h)'
  <2>1. slot'[p] = (Begun' - 1) % EntryCapacity
    <3>1. slot'[p] = head
      BY <1>1 DEF Usual, LogTypes, TypeOK
    <3>2. Begun - 1 = Claimed
      BY <1>3
    <3>. QED
      BY <1>8, <1>9, <3>1, <3>2
  <2>2. h[Begun] = [msg |-> text[p].msg, msgLen |-> text[p].msgLen, of |-> Message(p)]
    BY <1>2 DEF Printing, Loggers
  <2>. QED
    BY <1>1, <1>2, <1>8, <2>1, <2>2 DEF Loggers, Message
<1>13. Room(h, at, end, longest)'
  BY <1>1, <1>3, <1>7, <1>8, RoomStays DEF Printing
<1>14. Written(h)'
  BY <1>1, <1>2, <1>3, <1>8, WrittenStays DEF Printing
<1>. QED
  BY <1>10, <1>11, <1>12, <1>13, <1>14 DEF Printing

\* No other message of the queue is in the slot of the last one.
LEMMA EntriesApart ==
  ASSUME Usual, Alone, NEW i \in OldestEntry..Claimed, i # Claimed
  PROVE  (i - 1) % EntryCapacity # (Claimed - 1) % EntryCapacity
<1>1. /\ Claimed \in Nat /\ OldestEntry \in Nat /\ Claimed - OldestEntry + 1 <= EntryCapacity
      /\ EntryCapacity \in Nat \ {0}
  BY Sizes, LogNumbers DEF Usual
<1>2. i - 1 \in Int /\ Claimed - 1 \in Int /\ i - 1 < Claimed - 1 /\ Claimed - 1 < (i - 1) + EntryCapacity
  BY <1>1
<1>. QED
  BY <1>1, <1>2, SlotsApart

\* Clearing and filling it leave the other entries alone.
LEMMA ClearEntryPrints ==
  ASSUME Usual, NEW h, NEW at, NEW end, NEW longest, Printing(h, at, end, longest),
         NEW p \in Producers, ClearEntry(p)
  PROVE  Printing(h, at, end, longest)'
<1>1. /\ ProducerStep(p, "clear", "fill") /\ entryQueue' = [entryQueue EXCEPT ![slot[p]] = Zero]
      /\ UNCHANGED <<textWord, msgBuffer, entryWord, logged, text, slot, cons>>
  BY DEF ClearEntry
<1>2. /\ Claimed' = Claimed /\ Begun' = Begun /\ Begun = Claimed
      /\ OldestEntry' = OldestEntry /\ OldestText' = OldestText
      /\ slot[p] = (Begun - 1) % EntryCapacity
      /\ History(h)' /\ Loggers(h)' /\ Room(h, at, end, longest)'
  <2>1. "clear" \in {"clear", "fill", "write", "signal"} /\ "fill" # "entry"
    OBVIOUS
  <2>. QED
    BY <1>1, <2>1, LoggerStays
<1>3. /\ At({"clear", "fill"})' = {p}
      /\ At({"entry", "clear", "fill", "write"})' = {p}
  <2>1. Alone
    BY DEF Printing, Loggers
  <2>. QED
    BY <1>1, <2>1, LoggerGoesOn
<1>4. Queue(h)'
  <2>1. ASSUME NEW i \in OldestEntry..Claimed, i # Claimed
        PROVE  entryQueue'[(i - 1) % EntryCapacity] = h[i]
    <3>1. (i - 1) % EntryCapacity # slot[p]
      BY <1>2, <2>1, EntriesApart DEF Printing, Loggers
    <3>2. entryQueue[(i - 1) % EntryCapacity] = h[i]
      BY <2>1 DEF Printing, Queue
    <3>3. (i - 1) % EntryCapacity \in Entries!Indices
      <4>1. i - 1 \in Int
        BY <2>1, Sizes DEF Usual, Printing, Loggers
      <4>. QED
        BY <4>1, LogNumbers, GoesRound DEF Usual
    <3>. QED
      BY <1>1, <3>1, <3>2, <3>3 DEF Usual, LogTypes, TypeOK
  <2>. QED
    BY <1>1, <1>2, <1>3, <2>1 DEF Printing, Queue, cons
<1>5. Written(h)'
  <2>1. Begun \in Int /\ Len(delivered) \in Int /\ Len(delivered)' = Len(delivered) /\ Alone
    BY <1>1, Sizes DEF Usual, Printing, Loggers, cons
  <2>2. At({"entry", "clear", "fill", "write"})' # {}
    BY <1>3
  <2>3. Written(h) /\ msgBuffer' = msgBuffer
    BY <1>1 DEF Printing
  <2>4. Begun' = Begun
    BY <1>2
  <2>. QED
    BY <2>1, <2>2, <2>3, <2>4, WrittenStays
<1>. QED
  BY <1>2, <1>4, <1>5 DEF Printing

LEMMA FillEntryPrints ==
  ASSUME Usual, NEW h, NEW at, NEW end, NEW longest, Printing(h, at, end, longest),
         NEW p \in Producers, FillEntry(p)
  PROVE  Printing(h, at, end, longest)'
<1>. DEFINE e == [msg |-> text[p].msg, msgLen |-> text[p].msgLen, of |-> Message(p)]
<1>1. /\ ProducerStep(p, "fill", "write") /\ entryQueue' = [entryQueue EXCEPT ![slot[p]] = e]
      /\ UNCHANGED <<textWord, msgBuffer, entryWord, logged, text, slot, cons>>
  BY DEF FillEntry
<1>2. /\ Claimed' = Claimed /\ Begun' = Begun /\ Begun = Claimed
      /\ OldestEntry' = OldestEntry /\ OldestText' = OldestText
      /\ slot[p] = (Begun - 1) % EntryCapacity /\ h[Begun] = e
      /\ History(h)' /\ Loggers(h)' /\ Room(h, at, end, longest)'
  BY <1>1, LoggerStays
<1>. HIDE DEF e
<1>3. At({"entry", "clear", "fill", "write"})' = {p}
  <2>1. Alone
    BY DEF Printing, Loggers
  <2>. QED
    BY <1>1, <2>1, LoggerGoesOn
<1>4. Queue(h)'
  <2>1. ASSUME NEW i \in OldestEntry..Claimed
        PROVE  entryQueue'[(i - 1) % EntryCapacity] = h[i]
    <3>1. (i - 1) % EntryCapacity \in Entries!Indices
      <4>1. i - 1 \in Int
        BY <2>1, Sizes DEF Usual, Printing, Loggers
      <4>. QED
        BY <4>1, LogNumbers, GoesRound DEF Usual
    <3>2. CASE i = Claimed
      BY <1>1, <1>2, <3>1, <3>2 DEF Usual, LogTypes, TypeOK
    <3>3. CASE i # Claimed
      <4>1. (i - 1) % EntryCapacity # slot[p]
        BY <1>2, <3>3, EntriesApart DEF Printing, Loggers
      <4>2. entryQueue[(i - 1) % EntryCapacity] = h[i]
        BY <3>3 DEF Printing, Queue
      <4>. QED
        BY <1>1, <3>1, <4>1, <4>2 DEF Usual, LogTypes, TypeOK
    <3>. QED
      BY <3>2, <3>3
  <2>. QED
    BY <1>1, <1>2, <2>1 DEF Printing, Queue, cons
<1>5. Written(h)'
  <2>1. Begun \in Int /\ Len(delivered) \in Int /\ Len(delivered)' = Len(delivered) /\ Alone
    BY <1>1, Sizes DEF Usual, Printing, Loggers, cons
  <2>2. At({"entry", "clear", "fill", "write"})' # {}
    BY <1>3
  <2>3. Written(h) /\ msgBuffer' = msgBuffer
    BY <1>1 DEF Printing
  <2>4. Begun' = Begun
    BY <1>2
  <2>. QED
    BY <2>1, <2>2, <2>3, <2>4, WrittenStays
<1>. QED
  BY <1>2, <1>4, <1>5 DEF Printing

\* Writing the text leaves the other texts alone.
LEMMA WriteTextPrints ==
  ASSUME Usual, NEW h, NEW at, NEW end, NEW longest, TextHasRoom(longest),
         Printing(h, at, end, longest), NEW p \in Producers, WriteText(p)
  PROVE  Printing(h, at, end, longest)'
<1>1. /\ ProducerStep(p, "write", "signal")
      /\ msgBuffer' = [i \in Text!Indices |->
                         IF i \in Chars(text[p]) THEN Message(p)
                         ELSE IF i = text[p].msg + text[p].msgLen THEN Zero ELSE msgBuffer[i]]
      /\ UNCHANGED <<textWord, entryWord, entryQueue, logged, text, slot, cons>>
  BY DEF WriteText
<1>2. /\ Claimed' = Claimed /\ Begun' = Begun /\ Begun = Claimed
      /\ OldestEntry' = OldestEntry /\ OldestText' = OldestText
      /\ h[Begun] = [msg |-> text[p].msg, msgLen |-> text[p].msgLen, of |-> Message(p)]
      /\ History(h)' /\ Loggers(h)' /\ Room(h, at, end, longest)'
  BY <1>1, LoggerStays
<1>3. At({"clear", "fill"}) = {} /\ pc[p] = "write"
  <2>1. Alone
    BY DEF Printing, Loggers
  <2>. QED
    BY <1>1, <2>1, LoggerGoesOn
<1>4. /\ Len(delivered) \in Nat /\ Begun \in Nat /\ OldestText \in Nat
      /\ OldestText <= Len(delivered) + 1 /\ Begun >= 1
  <2>1. /\ Len(delivered) \in Nat /\ Begun \in Nat /\ OldestText \in Nat
        /\ \A q \in Producers : pc[q] # "idle" => Begun >= 1
    BY Sizes DEF Usual, Printing, Loggers
  <2>2. OldestText <= Len(delivered) + 1
    BY <2>1 DEF OldestText
  <2>. QED
    BY <1>3, <2>1, <2>2
<1>5. Queue(h)'
  BY <1>1, <1>2, <1>3 DEF Printing, Queue, cons
<1>6. Written(h)'
  <2>. SUFFICES ASSUME NEW i \in Len(delivered)+1..Begun, NEW c \in Chars(h[i])
                PROVE  msgBuffer'[c] = h[i].of
    BY <1>1, <1>2 DEF Written, Chars, cons
  <2>1. i \in 1..Begun /\ i \in OldestText..Begun /\ Begun \in OldestText..Begun /\ Begun \in 1..Begun
    BY <1>4
  <2>2. h[i] \in Entry /\ h[Begun] \in Entry
    BY <2>1 DEF Printing, History
  <2>3. c \in Text!Indices
    <3>1. h[i].msg + h[i].msgLen + 1 <= TextCapacity
      BY <2>1 DEF Printing, Room
    <3>. QED
      BY <2>2, <3>1, EntryNumbers DEF Usual
  <2>4. /\ h[Begun].msg = text[p].msg /\ h[Begun].msgLen = text[p].msgLen /\ h[Begun].of = Message(p)
        /\ Chars(h[Begun]) = Chars(text[p])
    BY <1>2 DEF Chars
  <2>5. CASE i = Begun
    BY <1>1, <2>3, <2>4, <2>5
  <2>6. CASE i # Begun
    <3>1. i < Begun
      BY <1>4, <2>6
    <3>2. h[i].msg..h[i].msg+h[i].msgLen \cap h[Begun].msg..h[Begun].msg+h[Begun].msgLen = {}
      <4>1. CASE 1 <= OldestText
        BY <2>1, <3>1, <4>1, TextsApart DEF Printing, Usual, Loggers, History
      <4>2. CASE OldestText < 1
        <5>1. worker = "zero" /\ Len(delivered) = 0
          BY <1>4, <4>2 DEF OldestText
        <5>. QED
          BY <5>1 DEF Printing, Queue
      <4>. QED
        BY <1>4, <4>1, <4>2
    <3>3. c \in h[i].msg..h[i].msg+h[i].msgLen
      BY <2>2, EntryNumbers DEF Usual
    <3>4. c \notin h[Begun].msg..h[Begun].msg+h[Begun].msgLen
      BY <3>2, <3>3
    <3>5. c \notin Chars(text[p])
      BY <2>2, <2>4, <3>4, EntryNumbers DEF Usual
    <3>6. c # text[p].msg + text[p].msgLen
      <4>1. text[p].msg \in Nat /\ text[p].msgLen \in Nat
        BY <2>2, <2>4, EntryNumbers DEF Usual
      <4>2. text[p].msg + text[p].msgLen \in h[Begun].msg..h[Begun].msg+h[Begun].msgLen
        BY <2>4, <4>1
      <4>. QED
        BY <3>4, <4>2
    <3>7. msgBuffer[c] = h[i].of
      BY <2>6 DEF Printing, Written
    <3>. QED
      BY <1>1, <2>3, <3>5, <3>6, <3>7
  <2>. QED
    BY <2>5, <2>6
<1>. QED
  BY <1>2, <1>5, <1>6 DEF Printing

\* The logger is done with its message.
LEMMA SignalEntryPrints ==
  ASSUME Usual, NEW h, NEW at, NEW end, NEW longest, Printing(h, at, end, longest),
         NEW p \in Producers, SignalEntry(p)
  PROVE  Printing(h, at, end, longest)'
<1>1. /\ ProducerStep(p, "signal", "idle")
      /\ UNCHANGED <<textWord, msgBuffer, entryWord, entryQueue, logged, text, slot, cons>>
  BY DEF SignalEntry, ring
<1>2. /\ Claimed' = Claimed /\ Begun' = Begun /\ Begun = Claimed
      /\ OldestEntry' = OldestEntry /\ OldestText' = OldestText
      /\ History(h)' /\ Loggers(h)' /\ Room(h, at, end, longest)'
  <2>1. "signal" \in {"clear", "fill", "write", "signal"} /\ "idle" # "entry"
    OBVIOUS
  <2>. QED
    BY <1>1, <2>1, LoggerStays
<1>3. At({"clear", "fill"}) = {} /\ At({"entry", "clear", "fill", "write"}) = {}
  <2>1. Alone
    BY DEF Printing, Loggers
  <2>. QED
    BY <1>1, <2>1, LoggerGoesOn
<1>4. Queue(h)'
  BY <1>1, <1>2, <1>3 DEF Printing, Queue, cons
<1>5. Written(h)'
  <2>1. Begun \in Int /\ Len(delivered) \in Int /\ Len(delivered)' = Len(delivered) /\ Alone
    BY <1>1, Sizes DEF Usual, Printing, Loggers, cons
  <2>. QED
    BY <1>1, <1>2, <1>3, <2>1, WrittenStays DEF Printing
<1>. QED
  BY <1>2, <1>4, <1>5 DEF Printing

\* The numbers of the messages of a thread, when the list grows by one.
LEMMA NumberGrows ==
  ASSUME NEW n \in Nat, NEW h, NEW e, NEW h2, NEW q,
         \A i \in 1..n : h2[i] = h[i], h2[n + 1] = e
  PROVE  /\ \A i \in 0..n : Number(h2, q, i) = Number(h, q, i)
         /\ Number(h, q, n) \in Nat
         /\ Number(h2, q, n + 1) = Number(h, q, n) + (IF e.of \in {q} \X (1..MaxLogs) THEN 1 ELSE 0)
<1>. DEFINE Of(f, i) == {j \in 1..i : f[j].of \in {q} \X (1..MaxLogs)}
<1>1. \A f, i : Number(f, q, i) = Cardinality(Of(f, i))
  BY DEF Number
<1>2. ASSUME NEW i \in 0..n
      PROVE  Of(h2, i) = Of(h, i)
  <2>1. 1..i \subseteq 1..n
    OBVIOUS
  <2>. QED
    BY <2>1
<1>3. IsFiniteSet(Of(h, n))
  <2>1. IsFiniteSet(1..n)
    <3>1. 1 \in Int /\ n \in Int
      OBVIOUS
    <3>. QED
      BY <3>1, FS_Interval
  <2>2. Of(h, n) \subseteq 1..n
    OBVIOUS
  <2>. HIDE DEF Of
  <2>. QED
    BY <2>1, <2>2, FS_Subset
<1>4. Of(h2, n + 1) = Of(h, n) \cup (IF e.of \in {q} \X (1..MaxLogs) THEN {n + 1} ELSE {})
      /\ n + 1 \notin Of(h, n)
  <2>1. 1..n+1 = 1..n \cup {n + 1} /\ n + 1 \notin 1..n
    OBVIOUS
  <2>. QED
    BY <2>1
<1>5. n \in 0..n
  OBVIOUS
<1>. HIDE DEF Of
<1>6. Cardinality(Of(h, n)) \in Nat
  BY <1>3, FS_CardinalityType
<1>7. CASE e.of \in {q} \X (1..MaxLogs)
  <2>1. Of(h2, n + 1) = Of(h, n) \cup {n + 1}
    BY <1>4, <1>7
  <2>2. Cardinality(Of(h2, n + 1)) = Cardinality(Of(h, n)) + 1
    BY <1>3, <1>4, <2>1, FS_AddElement
  <2>. QED
    BY <1>1, <1>2, <1>6, <1>7, <2>2
<1>8. CASE ~ (e.of \in {q} \X (1..MaxLogs))
  <2>1. Of(h2, n + 1) = Of(h, n)
    BY <1>4, <1>8
  <2>. QED
    BY <1>1, <1>2, <1>6, <1>8, <2>1
<1>. QED
  BY <1>7, <1>8

\* A message is begun: it joins the list, with a text after the others.
LEMMA ClaimTextPrints ==
  ASSUME Usual, NEW h, NEW at, NEW end, NEW longest, TextHasRoom(longest),
         Printing(h, at, end, longest), NEW p \in Producers, NEW len \in Lens, ClaimText(p, len),
         ~ overlapped'
  PROVE  \E h2, at2, end2 : Printing(h2, at2, end2, longest)'
<1>. DEFINE s == Text!RangeSlot(textWord, len + 1)
            d == Len(delivered)
<1>1. /\ logged[p] < MaxLogs /\ Backlog < MaxBacklog
      /\ pc' = [pc EXCEPT ![p] = "entry"]
      /\ logged' = [logged EXCEPT ![p] = logged[p] + 1]
      /\ textWord' = Text!RangePushed(textWord, len + 1)
      /\ text' = [text EXCEPT ![p] = [msg |-> s, msgLen |-> len]]
      /\ UNCHANGED <<msgBuffer, entryWord, entryQueue, slot, worker, taken, entry, delivered>>
      /\ \A q \in Producers : pc[q] = "idle"
  BY DEF ClaimText, ProducerStep, cons
<1>2. /\ d \in Nat /\ Claimed \in Nat /\ Begun \in Nat /\ OldestText \in Nat /\ OldestEntry \in Nat
      /\ Begun = Claimed /\ Begun - OldestText + 1 <= Backlog /\ Backlog \in Nat /\ MaxBacklog \in Nat
      /\ Claimed = d + Held + entryWord.count /\ Held \in {0, 1} /\ entryWord.count \in Nat
  BY <1>1, Sizes, LogNumbers DEF Usual, Printing, Loggers
<1>. DEFINE n == Begun
<1>3. /\ pc'[p] = "entry" /\ \A q \in Producers : q # p => pc'[q] = "idle"
      /\ At({"entry"})' = {p} /\ At({"entry", "clear", "fill", "write"})' = {p}
      /\ At({"clear", "fill"}) = {} /\ At({"clear", "fill"})' = {}
      /\ At({"entry", "clear", "fill", "write"}) = {}
  <2>1. pc'[p] = "entry" /\ \A q \in Producers : q # p => pc'[q] = "idle"
    BY <1>1 DEF Usual, LogTypes, TypeOK
  <2>. QED
    BY <1>1, <2>1 DEF At
<1>4. /\ Held' = Held /\ OldestEntry' = OldestEntry /\ OldestText' = OldestText /\ Claimed' = Claimed
  BY <1>1 DEF Held, OldestEntry, OldestText, Claimed
<1>5. Begun' = n + 1
  <2>1. Cardinality(At({"entry"})') = 1
    BY <1>3, FS_Singleton
  <2>. QED
    BY <1>2, <1>4, <2>1 DEF Begun
<1>6. PICK start, last \in Int :
        /\ start >= end /\ last = start + len + 1 /\ last - start <= 1 * longest
        /\ s = start % TextCapacity
        /\ Text!RangePushed(textWord, len + 1).onePastHeadIndex = last % TextCapacity
        /\ \A k \in Nat : \A a0 \in Int :
             1 <= k /\ k + 1 <= MaxBacklog /\ a0 < end /\ Reaches(end, a0, k, longest)
             => Reaches(last, a0, k + 1, longest)
  <2>1. textWord \in Text!Words /\ end \in Int /\ textWord.onePastHeadIndex = end % TextCapacity
    BY DEF Usual, LogTypes, TypeOK, Printing, Room
  <2>. QED
    BY <2>1, NextText DEF Usual
<1>7. s \in Text!Indices /\ s + len + 1 <= TextCapacity /\ len \in Nat
  <2>1. textWord \in Text!Words
    BY DEF Usual, LogTypes, TypeOK
  <2>. QED
    BY <2>1, TextRange, LogNumbers DEF Usual
<1>8. logged'[p] = logged[p] + 1 /\ logged'[p] \in 1..MaxLogs
      /\ \A q \in Producers : q # p => logged'[q] = logged[q]
  <2>1. logged \in [Producers -> 0..MaxLogs] /\ MaxLogs \in Nat
    BY LogNumbers DEF Usual, LogTypes, TypeOK
  <2>. QED
    BY <1>1, <2>1
<1>. DEFINE e == [msg |-> s, msgLen |-> len, of |-> <<p, logged'[p]>>]
<1>9. e \in Entry
  BY <1>7, <1>8 DEF Entry, Messages
<1>10. PICK h2, at2 : /\ h2  = [i \in 1..n+1 |-> IF i <= n THEN h[i] ELSE e]
                      /\ at2 = [i \in 1..n+1 |-> IF i <= n THEN at[i] ELSE start]
  OBVIOUS
<1>12. \A i \in 1..n+1 : i \in 1..n \/ i = n + 1
  <2>1. n \in Nat
    BY <1>2
  <2>. HIDE DEF n
  <2>. QED
    BY <2>1
<1>11. /\ \A i \in 1..n : h2[i] = h[i] /\ at2[i] = at[i]
       /\ h2[n + 1] = e /\ at2[n + 1] = start
  <2>1. /\ \A i \in 1..n : i \in 1..n+1 /\ i <= n
        /\ n + 1 \in 1..n+1 /\ ~ (n + 1 <= n)
    BY <1>2
  <2>. HIDE DEF n, e
  <2>. QED
    BY <1>10, <2>1
<1>13. h2 \in [1..n+1 -> Entry] /\ h \in [1..n -> Entry]
  <2>1. h \in [1..n -> Entry]
    BY DEF Printing, History
  <2>2. \A i \in 1..n+1 : i <= n => i \in 1..n
    BY <1>2
  <2>. HIDE DEF n, e
  <2>. QED
    BY <1>9, <1>10, <2>1, <2>2
<1>14. e.msg = s /\ e.msgLen = len /\ e.of = <<p, logged'[p]>> /\ e.of[1] = p /\ e.of[2] = logged'[p]
  OBVIOUS
<1>. HIDE DEF s, d, n, e
<1>15. History(h2)'
  <2>1. \A q \in Producers :
          /\ \A i \in 0..n : Number(h2, q, i) = Number(h, q, i)
          /\ Number(h, q, n) \in Nat
          /\ Number(h2, q, n + 1) = Number(h, q, n) + (IF q = p THEN 1 ELSE 0)
    <3>. SUFFICES ASSUME NEW q \in Producers
                  PROVE  /\ \A i \in 0..n : Number(h2, q, i) = Number(h, q, i)
                         /\ Number(h, q, n) \in Nat
                         /\ Number(h2, q, n + 1) = Number(h, q, n) + (IF q = p THEN 1 ELSE 0)
      OBVIOUS
    <3>1. e.of \in {q} \X (1..MaxLogs) <=> q = p
      BY <1>8, <1>14
    <3>2. /\ \A i \in 0..n : Number(h2, q, i) = Number(h, q, i)
          /\ Number(h, q, n) \in Nat
          /\ Number(h2, q, n + 1) = Number(h, q, n) + (IF e.of \in {q} \X (1..MaxLogs) THEN 1 ELSE 0)
      <4>1. n \in Nat
        BY <1>2 DEF n
      <4>. QED
        BY <1>11, <4>1, NumberGrows
    <3>. QED
      BY <3>1, <3>2
  <2>2. \A q \in Producers : logged[q] = Number(h, q, n)
    BY DEF Printing, History, n
  <2>3. \A q \in Producers : logged'[q] = Number(h2, q, n + 1)
    BY <1>8, <2>1, <2>2
  <2>4. ASSUME NEW i \in 1..n+1
        PROVE  h2[i].of[2] = Number(h2, h2[i].of[1], i)
    <3>1. CASE i = n + 1
      BY <1>11, <1>14, <2>3, <3>1
    <3>2. CASE i \in 1..n
      <4>1. h[i] \in Entry /\ h[i].of[1] \in Producers
        BY <1>13, <3>2 DEF Entry, Messages
      <4>2. h[i].of[2] = Number(h, h[i].of[1], i)
        BY <3>2 DEF Printing, History, n
      <4>3. i \in 0..n
        BY <3>2
      <4>. QED
        BY <1>11, <2>1, <3>2, <4>1, <4>2, <4>3
    <3>. QED
      BY <1>12, <3>1, <3>2
  <2>5. \A i \in 1..Len(delivered) : delivered[i].of = h2[i].of /\ delivered[i].chars = {h2[i].of}
    <3>1. \A i \in 1..Len(delivered) : i \in 1..n
      BY <1>2 DEF n, d
    <3>. QED
      BY <1>11, <3>1 DEF Printing, History
  <2>. QED
    BY <1>1, <1>5, <1>13, <2>3, <2>4, <2>5 DEF History
<1>16. Loggers(h2)'
  <2>1. text'[p].msg = s /\ text'[p].msgLen = len
    BY <1>1 DEF Usual, LogTypes
  <2>2. h2[Begun'] = [msg |-> text'[p].msg, msgLen |-> text'[p].msgLen, of |-> <<p, logged'[p]>>]
    BY <1>5, <1>11, <2>1 DEF e
  <2>. QED
    BY <1>3, <2>2 DEF Loggers, Alone, Message
<1>17. Queue(h2)'
  <2>1. \A i \in OldestEntry..Claimed : i \in 1..n
    BY <1>2 DEF OldestEntry, n, d
  <2>2. worker = "deliver" => d + 1 \in 1..n
    BY <1>2 DEF Held, n
  <2>3. worker = "zero" /\ d >= 1 => d \in 1..n
    BY <1>2 DEF n
  <2>. QED
    BY <1>1, <1>3, <1>4, <1>11, <2>1, <2>2, <2>3 DEF Printing, Queue, d
<1>18. OldestText >= 1
  <2>1. worker = "zero" => d >= 1
    BY DEF Printing, Queue, d
  <2>. QED
    BY <1>2, <2>1 DEF OldestText, d
<1>19. Room(h2, at2, last, longest)'
  <2>1. last \in Int /\ textWord'.onePastHeadIndex = last % TextCapacity
    BY <1>1, <1>6
  <2>2. ASSUME NEW i \in OldestText..n
        PROVE  /\ at2[i] \in Int
               /\ h2[i].msg = at2[i] % TextCapacity /\ h2[i].msg + h2[i].msgLen + 1 <= TextCapacity
               /\ at2[i] + h2[i].msgLen + 1 <= last
               /\ \A j \in i+1..n+1 : at2[i] + h2[i].msgLen + 1 <= at2[j]
               /\ Reaches(last, at2[i], (n + 1) - i + 1, longest)
    <3>1. i \in 1..n /\ i \in OldestText..Begun /\ \A j \in i+1..n+1 : j = n + 1 \/ (j \in i+1..n /\ j \in 1..n)
      BY <1>2, <1>18 DEF n
    <3>2. /\ at[i] \in Int /\ end \in Int
          /\ h[i].msg = at[i] % TextCapacity /\ h[i].msg + h[i].msgLen + 1 <= TextCapacity
          /\ at[i] + h[i].msgLen + 1 <= end
          /\ \A j \in i+1..n : at[i] + h[i].msgLen + 1 <= at[j]
          /\ Reaches(end, at[i], n - i + 1, longest)
      BY <3>1 DEF Printing, Room, n
    <3>3. h[i].msgLen \in Nat
      BY <1>13, <3>1, EntryNumbers DEF Usual
    <3>4. at[i] < end /\ at[i] + h[i].msgLen + 1 <= start /\ at[i] + h[i].msgLen + 1 <= last
      BY <1>6, <1>7, <3>2, <3>3
    <3>5. Reaches(last, at[i], (n - i + 1) + 1, longest)
      <4>. DEFINE k == n - i + 1
      <4>1. k \in Nat /\ 1 <= k /\ k + 1 <= MaxBacklog
        BY <1>1, <1>2, <3>1 DEF n
      <4>2. Reaches(end, at[i], k, longest)
        BY <3>2
      <4>. HIDE DEF k
      <4>3. Reaches(last, at[i], k + 1, longest)
        BY <1>6, <3>2, <3>4, <4>1, <4>2
      <4>. QED
        BY <4>3 DEF k
    <3>6. (n + 1) - i + 1 = (n - i + 1) + 1
      BY <1>2, <3>1 DEF n
    <3>7. \A j \in i+1..n+1 : at2[i] + h2[i].msgLen + 1 <= at2[j]
      BY <1>11, <3>1, <3>2, <3>4
    <3>. QED
      BY <1>11, <3>1, <3>2, <3>4, <3>5, <3>6, <3>7
  <2>3. /\ at2[n + 1] \in Int
        /\ h2[n + 1].msg = at2[n + 1] % TextCapacity /\ h2[n + 1].msg + h2[n + 1].msgLen + 1 <= TextCapacity
        /\ at2[n + 1] + h2[n + 1].msgLen + 1 <= last
        /\ \A j \in (n+1)+1..n+1 : at2[n + 1] + h2[n + 1].msgLen + 1 <= at2[j]
        /\ Reaches(last, at2[n + 1], (n + 1) - (n + 1) + 1, longest)
    <3>1. n \in Nat /\ (n + 1) - (n + 1) + 1 = 1 /\ (n+1)+1..n+1 = {}
      BY <1>2 DEF n
    <3>2. Reaches(last, start, 1, longest)
      <4>1. longest \in Nat /\ longest >= 1
        BY LogNumbers DEF TextHasRoom, Usual
      <4>. QED
        BY <1>6, <4>1 DEF Reaches
    <3>. QED
      BY <1>6, <1>7, <1>11, <1>14, <3>1, <3>2
  <2>4. \A i \in OldestText..n+1 : i \in OldestText..n \/ i = n + 1
    BY <1>2 DEF n
  <2>. QED
    BY <1>4, <1>5, <2>1, <2>2, <2>3, <2>4 DEF Room, Reaches
<1>20. Written(h2)'
  <2>1. ASSUME NEW i \in d+1..n+1, i = n + 1 => At({"entry", "clear", "fill", "write"})' = {},
               NEW c \in Chars(h2[i])
        PROVE  msgBuffer'[c] = h2[i].of
    <3>1. i # n + 1
      BY <1>3, <2>1
    <3>2. i \in d+1..Begun /\ i \in 1..n
      BY <1>2, <3>1 DEF n
    <3>. QED
      BY <1>1, <1>3, <1>11, <2>1, <3>2 DEF Printing, Written, d, Chars
  <2>. QED
    BY <1>1, <1>5, <2>1 DEF Written, Chars, d
<1>21. Printing(h2, at2, last, longest)'
  BY <1>15, <1>16, <1>17, <1>19, <1>20 DEF Printing
<1>. QED
  BY <1>21

---------------------------------------------------------------------------
(* What is printed.                                                        *)

PrintIInv(longest) ==
  /\ LogTypes
  /\ IInv
  /\ ~ overlapped /\ BeforeStop => \E h, at, end : Printing(h, at, end, longest)

LEMMA PrintIInvInit ==
  ASSUME LoggingAssumption, NEW longest, Init, IInv
  PROVE  PrintIInv(longest)
<1>. DEFINE none == [i \in {} |-> i]
<1>1. At({"entry"}) = {}
  BY DEF Init, At
<1>2. Cardinality(At({"entry"})) = 0
  BY <1>1, FS_EmptySet
<1>3. /\ worker = "none" /\ delivered = <<>> /\ Len(delivered) = 0
      /\ entryWord.count = 0 /\ entryWord.onePastHeadIndex = 0 /\ textWord.onePastHeadIndex = 0
      /\ \A p \in Producers : pc[p] = "idle" /\ logged[p] = 0
  BY DEF Init, Entries!NothingIn, Text!NothingIn
<1>4. Held = 0 /\ Claimed = 0 /\ Begun = 0 /\ OldestText = 1 /\ OldestEntry = 1
  BY <1>2, <1>3 DEF Held, Claimed, Begun, OldestText, OldestEntry
<1>5. 0 % TextCapacity = 0 /\ 0 % EntryCapacity = 0
  BY LogNumbers
<1>6. 1..0 = {}
  OBVIOUS
<1>7. History(none)
  <2>1. \A p : Number(none, p, 0) = 0
    <3>1. \A p : {i \in 1..0 : none[i].of \in {p} \X (1..MaxLogs)} = {}
      BY <1>6
    <3>. QED
      BY <3>1, FS_EmptySet DEF Number
  <2>2. none \in [1..0 -> Entry]
    BY <1>6
  <2>. HIDE DEF none
  <2>. QED
    BY <1>3, <1>4, <1>6, <2>1, <2>2 DEF History
<1>. HIDE DEF none
<1>8. Loggers(none)
  BY <1>3 DEF Loggers, Alone
<1>9. Queue(none)
  BY <1>3, <1>4, <1>5, <1>6 DEF Queue
<1>10. Room(none, none, 0, longest)
  BY <1>3, <1>4, <1>5, <1>6 DEF Room
<1>11. Written(none)
  BY <1>3, <1>4, <1>6 DEF Written
<1>12. Printing(none, none, 0, longest)
  BY <1>7, <1>8, <1>9, <1>10, <1>11 DEF Printing
<1>. QED
  BY <1>12, LogTypesInit DEF PrintIInv

LEMMA PrintIInvNext ==
  ASSUME LoggingAssumption, MaxBacklog <= EntryCapacity, NEW longest, TextHasRoom(longest),
         PrintIInv(longest), [Next]_vars
  PROVE  PrintIInv(longest)'
<1>1. LogTypes' /\ IInv'
  BY LogTypesNext, NextIInv DEF PrintIInv
<1>2. SUFFICES ASSUME ~ overlapped', BeforeStop'
               PROVE  \E h, at, end : Printing(h, at, end, longest)'
  BY <1>1 DEF PrintIInv
<1>3. ~ overlapped /\ BeforeStop
  <2>1. overlapped' = overlapped \/ \E p \in Producers, len \in Lens : ClaimText(p, len)
    BY DEF Next, vars, Main, Worker, Log, CreateThread, StoreThread, ClearThread, SignalStop, JoinThread,
       CheckThread, WaitEntry, PopIndex, CopyEntry, Deliver, ZeroText, Reclaim,
       ClaimEntry, ClearEntry, FillEntry, WriteText, SignalEntry, prod
  <2>2. ~ overlapped
    BY <1>2, <2>1 DEF ClaimText, PrintIInv, LogTypes, TypeOK
  <2>3. main' = main \/ Main
    BY DEF Next, vars, Worker, Log, init,
       CheckThread, WaitEntry, PopIndex, CopyEntry, Deliver, ZeroText, Reclaim,
       ClaimText, ClaimEntry, ClearEntry, FillEntry, WriteText, SignalEntry
  <2>4. BeforeStop
    BY <1>2, <2>3 DEF BeforeStop, Main, MainStep, CreateThread, StoreThread, ClearThread, SignalStop, JoinThread
  <2>. QED
    BY <2>2, <2>4
<1>4. Usual
  BY <1>3 DEF Usual, PrintIInv
<1>5. PICK h, at, end : Printing(h, at, end, longest)
  BY <1>3 DEF PrintIInv
<1>6. CASE UNCHANGED vars
  BY <1>4, <1>5, <1>6, QuietStep DEF vars, init, ring, prod, cons
<1>7. CASE Main
  <2>1. /\ UNCHANGED <<pc, text, logged, slot, delivered, msgBuffer, entryWord, entryQueue, textWord>>
        /\ \/ UNCHANGED <<worker, taken, entry>>
           \/ worker \notin {"copy", "deliver", "zero"} /\ worker' \notin {"copy", "deliver", "zero"}
    BY <1>4, <1>7 DEF Main, MainStep, CreateThread, StoreThread, ClearThread, SignalStop, JoinThread,
       ring, prod, cons, Usual, IInv, CountsTyped
  <2>. QED
    BY <1>4, <1>5, <2>1, QuietStep
<1>8. CASE CheckThread \/ WaitEntry
  BY <1>4, <1>5, <1>8, QuietStep DEF CheckThread, WaitEntry, WorkerStep, ring, prod
<1>9. CASE Reclaim
  <2>1. textWord \in Text!Words
    BY <1>4 DEF Usual, LogTypes, TypeOK
  <2>2. textWord'.onePastHeadIndex = textWord.onePastHeadIndex
    BY <1>4, <1>9, <2>1, TextWords DEF Reclaim, Usual
  <2>3. worker \notin {"copy", "deliver", "zero"} /\ worker' \notin {"copy", "deliver", "zero"}
        /\ UNCHANGED <<pc, text, logged, slot, delivered, msgBuffer, entryWord, entryQueue>>
    BY <1>9 DEF Reclaim, prod
  <2>. QED
    BY <1>4, <1>5, <2>2, <2>3, QuietStep
<1>10. CASE PopIndex \/ CopyEntry \/ Deliver \/ ZeroText
  BY <1>4, <1>5, <1>10, PopIndexPrints, CopyEntryPrints, DeliverPrints, ZeroTextPrints
<1>11. ASSUME NEW p \in Producers, Log(p)
       PROVE  \E h2, at2, end2 : Printing(h2, at2, end2, longest)'
  <2>1. CASE \E len \in Lens : ClaimText(p, len)
    BY <1>2, <1>4, <1>5, <2>1, ClaimTextPrints
  <2>2. CASE ClaimEntry(p)
    BY <1>4, <1>5, <2>2, ClaimEntryPrints
  <2>3. CASE ClearEntry(p) \/ FillEntry(p)
    BY <1>4, <1>5, <2>3, ClearEntryPrints, FillEntryPrints
  <2>4. CASE WriteText(p)
    BY <1>4, <1>5, <2>4, WriteTextPrints
  <2>5. CASE SignalEntry(p)
    BY <1>4, <1>5, <2>5, SignalEntryPrints
  <2>. QED
    BY <1>11, <2>1, <2>2, <2>3, <2>4, <2>5 DEF Log
<1>. QED
  BY <1>6, <1>7, <1>8, <1>9, <1>10, <1>11 DEF Next, Worker

LEMMA PrintIInvPrints ==
  ASSUME LoggingAssumption, MaxBacklog <= EntryCapacity, NEW longest, TextHasRoom(longest), PrintIInv(longest)
  PROVE  PrintedAsLogged
<1>1. TypeOK
  BY DEF PrintIInv, LogTypes
<1>2. ASSUME ~ overlapped, main \notin {"join", "done"}, NEW i \in DOMAIN delivered
      PROVE  \E p \in Producers :
               /\ delivered[i].of = <<p, Number(delivered, p, i)>>
               /\ delivered[i].chars = {delivered[i].of}
  <2>1. BeforeStop /\ Usual
    BY <1>1, <1>2 DEF PrintIInv, TypeOK, BeforeStop, Usual
  <2>2. PICK h, at, end : Printing(h, at, end, longest)
    BY <1>2, <2>1 DEF PrintIInv
  <2>3. Len(delivered) <= Begun /\ Len(delivered) \in Nat /\ Begun \in Nat /\ DOMAIN delivered = 1..Len(delivered)
    <3>1. /\ Len(delivered) \in Nat /\ Held \in {0, 1} /\ entryWord.count \in Nat
          /\ Claimed = Len(delivered) + Held + entryWord.count
          /\ Begun = Claimed + Cardinality(At({"entry"})) /\ Cardinality(At({"entry"})) \in Nat
      BY <2>1, <2>2, Sizes DEF Usual, Printing, Loggers
    <3>2. DOMAIN delivered = 1..Len(delivered)
      BY ListGrows DEF PrintIInv, LogTypes
    <3>. QED
      BY <3>1, <3>2
  <2>4. i \in 1..Len(delivered) /\ i \in 1..Begun /\ \A j \in 1..i : j \in 1..Len(delivered)
    BY <2>3
  <2>. DEFINE p == h[i].of[1]
  <2>5. h[i] \in Entry /\ p \in Producers /\ h[i].of = <<p, h[i].of[2]>>
    BY <2>2, <2>4 DEF Printing, History, Entry, Messages
  <2>6. /\ h[i].of[2] = Number(h, p, i)
        /\ delivered[i].of = h[i].of /\ delivered[i].chars = {h[i].of}
        /\ \A j \in 1..i : delivered[j].of = h[j].of
    BY <2>2, <2>4 DEF Printing, History
  <2>. HIDE DEF p
  <2>7. Number(delivered, p, i) = Number(h, p, i)
    BY <2>6 DEF Number
  <2>. QED
    BY <2>5, <2>6, <2>7
<1>. QED
  BY <1>1, <1>2 DEF PrintedAsLogged, Number

\* As long as no two threads log at the same time, and the messages that wait have
\* room in both buffers, each message is printed once, in the order in which it
\* was logged, and whole, until Shutdown signals (LogInternalVA, LoggingThread and
\* the SyncRingBuffers between them).
THEOREM PrintsAsLogged ==
  ASSUME LoggingAssumption, MaxBacklog <= EntryCapacity,
         NEW longest \in Nat, TextHasRoom(longest)
  PROVE  Spec => []PrintedAsLogged
<1>1. Init => PrintIInv(longest)
  BY PrintIInvInit, InitIInv
<1>2. PrintIInv(longest) /\ [Next]_vars => PrintIInv(longest)'
  BY PrintIInvNext
<1>3. PrintIInv(longest) => PrintedAsLogged
  BY PrintIInvPrints
<1>. QED
  BY <1>1, <1>2, <1>3, PTL DEF Spec

=============================================================================
