--------------------------- MODULE SyncQueueProofs ---------------------------
(***************************************************************************)
(* Proofs about SyncQueue, for every set of threads and pages and every    *)
(* page capacity: the type invariant, that pages are neither lost nor      *)
(* shared and only the end pages are ever partly filled, that the queue    *)
(* takes no more pages than its fullest moment needs, that a queued item   *)
(* stays where it is, and that SyncQueue implements FifoQueue.             *)
(***************************************************************************)
EXTENDS SyncQueue, SequenceTheorems, ThreadCounts, TLAPS

(* A thread that pushes has an item, and a slot by the time it writes.    *)
PushSteps == {"push", "pushempty", "push_claim", "pushempty_claim",
              "push_store", "unlock_fill", "fill"}

PushesReady ==
  \A t \in Threads :
    /\ pc[t] \in PushSteps => arg[t] \in Items
    /\ pc[t] \in {"push_store", "unlock_fill", "fill"} => claimed[t] \in Slots

(* The mutex is owned exactly by the thread inside an operation: what the  *)
(* steps of the others may not touch meanwhile.                            *)
InCriticalSection(t) ==
  pc[t] \in {"push_claim", "push_store", "pushempty_claim", "pop_take",
             "find_scan", "unlock", "unlock_fill"}

MutexHeld ==
  \A t \in Threads : InCriticalSection(t) <=> mutex = t

IInv == TypeOK /\ MutexHeld /\ PushesReady /\ PagesAccountedFor /\ QueueShape

PcTypes == {"idle", "pop_peek", "push", "pushempty", "pop", "find",
            "push_claim", "push_store", "pushempty_claim",
            "pop_take", "find_scan", "unlock", "unlock_fill",
            "fill", "return"}

---------------------------------------------------------------------------
(* The initial state satisfies the invariant. *)
LEMMA InitIInv == Init => IInv
<1> SUFFICES ASSUME Init PROVE IInv
  OBVIOUS
<1> USE CapacityAssumption, QueueAssumption
<1>1. TypeOK
  BY DEF Init, TypeOK, Links, Indices, Values, EmptyPage, NoSlot
<1>2. MutexHeld /\ PushesReady
  BY DEF Init, MutexHeld, InCriticalSection, PushesReady, PushSteps
<1>3. PagesAccountedFor
  BY DEF Init, PagesAccountedFor, Linked, EmptyPage
<1>4. QueueShape
  BY DEF Init, QueueShape, EmptyPage
<1>. QED
  BY <1>1, <1>2, <1>3, <1>4 DEF IInv

(* The types of the variables that describe the pages. *)
PageTypes ==
  /\ head \in Pages /\ tail \in Pages /\ firstFree \in Links
  /\ count \in Int
  /\ page \in [Pages -> [next : Links, count : Int, onePastTailIndex : Indices]]
  /\ slot \in [Pages -> [Indices -> Values]]
  /\ heap \subseteq Pages
  /\ live \in Seq(Pages) /\ free \in Seq(Pages)

(* What the page accounting says of the two ends of the queue. *)
LEMMA LiveFacts ==
  ASSUME TypeOK, PagesAccountedFor
  PROVE  /\ Len(live) \in Nat /\ Len(live) >= 1
         /\ head = live[1] /\ tail = live[Len(live)]
         /\ \A n \in 1..Len(live) : live[n] \in Pages
         /\ \A n \in 1..Len(live) : n # Len(live) => live[n] # tail
         /\ \A n \in 1..Len(live) : n # 1 => live[n] # head
         /\ Len(live) # 1 => head # tail
<1>1. /\ Len(live) \in Nat /\ Len(live) >= 1
      /\ head = live[1] /\ tail = live[Len(live)]
      /\ \A n \in 1..Len(live) : live[n] \in Pages
  BY DEF TypeOK, PagesAccountedFor, Linked
<1>2. 1 \in 1..Len(live) /\ Len(live) \in 1..Len(live)
  BY <1>1
<1>3. \A m, n \in 1..Len(live) : live[m] = live[n] => m = n
  BY DEF PagesAccountedFor
<1>. QED
  BY <1>1, <1>2, <1>3

(* What it says of the free list. *)
LEMMA FreeFacts ==
  ASSUME TypeOK, PagesAccountedFor
  PROVE  /\ free \in Seq(Pages) /\ Len(free) \in Nat
         /\ firstFree = IF free = <<>> THEN NoPage ELSE free[1]
         /\ free = <<>> <=> Len(free) = 0
         /\ free = <<>> <=> firstFree = NoPage
         /\ \A n \in 1..Len(free) :
              /\ free[n] \in Pages /\ free[n] \notin heap
              /\ page[free[n]].next = IF n = Len(free) THEN NoPage ELSE free[n+1]
              /\ \A m \in 1..Len(free) : free[m] = free[n] => m = n
              /\ \A m \in 1..Len(live) : live[m] # free[n]
<1>. USE QueueAssumption
<1>1. /\ free \in Seq(Pages) /\ Len(free) \in Nat
      /\ free = <<>> <=> Len(free) = 0
      /\ \A n \in 1..Len(free) : free[n] \in Pages
  BY DEF TypeOK
<1>2. /\ firstFree = IF free = <<>> THEN NoPage ELSE free[1]
      /\ \A n \in 1..Len(free) :
           /\ free[n] \notin heap
           /\ page[free[n]].next = IF n = Len(free) THEN NoPage ELSE free[n+1]
           /\ \A m \in 1..Len(free) : free[m] = free[n] => m = n
           /\ \A m \in 1..Len(live) : live[m] # free[n]
  BY DEF PagesAccountedFor, Linked
<1>. QED
  BY <1>1, <1>2

(* A list without its first element. *)
LEMMA TailFacts ==
  ASSUME NEW l \in Seq(Pages), l # <<>>
  PROVE  /\ Tail(l) \in Seq(Pages) /\ Len(Tail(l)) = Len(l) - 1 /\ Len(l) \in Nat \ {0}
         /\ \A n \in 1..Len(Tail(l)) : Tail(l)[n] = l[n+1] /\ n+1 \in 1..Len(l) /\ n+1 # 1
         /\ Tail(l) = <<>> <=> Len(l) = 1
<1>1. Len(l) \in Nat \ {0}
  BY EmptySeq
<1>2. /\ Tail(l) \in Seq(Pages) /\ Len(Tail(l)) = Len(l) - 1
      /\ \A n \in 1..Len(Tail(l)) : Tail(l)[n] = l[n+1]
  BY HeadTailProperties
<1>3. Tail(l) = <<>> <=> Len(Tail(l)) = 0
  BY <1>2, EmptySeq
<1>. QED
  BY <1>1, <1>2, <1>3

(* A claim in a tail page that has room. *)
LEMMA ClaimInTail ==
  ASSUME TypeOK, PagesAccountedFor, QueueShape,
         NEW t \in Threads, NEW clear \in BOOLEAN,
         page[tail].count < PageCapacity,
         ClaimSlot(t, tail, page[tail], page, clear),
         UNCHANGED listVars
  PROVE  /\ PageTypes' /\ PagesAccountedFor' /\ QueueShape'
         /\ claimed' = [claimed EXCEPT ![t] = claimed'[t]] /\ claimed'[t] \in Slots
<1> USE CapacityAssumption
<1> DEFINE i == page[tail].onePastTailIndex
<1>1. /\ i \in Indices /\ (i + 1) % PageCapacity \in Indices
      /\ page[tail].count \in Int /\ page[tail].next \in Links
  BY DEF TypeOK, Indices
<1>2. /\ page' \in [Pages -> [next : Links, count : Int, onePastTailIndex : Indices]]
      /\ page'[tail].count = page[tail].count + 1
      /\ \A p \in Pages : /\ page'[p].next = page[p].next
                          /\ p # tail => page'[p] = page[p]
  BY <1>1 DEF ClaimSlot, TypeOK
<1>3. PageTypes'
  <2>1. slot' \in [Pages -> [Indices -> Values]]
    BY <1>1 DEF ClaimSlot, TypeOK, Values
  <2>. QED
    BY <1>2, <2>1 DEF PageTypes, TypeOK, listVars, ClaimSlot
<1>4. PagesAccountedFor'
  <2>1. \A n \in 1..Len(free) : free[n] \in Pages
    BY DEF TypeOK
  <2>2. Linked(live, head)'
    BY <1>2, LiveFacts DEF PagesAccountedFor, Linked, listVars
  <2>3. Linked(free, firstFree)'
    BY <2>1, <1>2 DEF PagesAccountedFor, Linked, listVars
  <2>. QED
    BY <2>2, <2>3 DEF PagesAccountedFor, listVars
<1>5. QueueShape'
  <2>1. /\ live' = live /\ head' = head /\ tail' = tail
        /\ count' = count + 1
    BY DEF listVars, ClaimSlot
  <2>2. ASSUME NEW n \in 1..Len(live)
        PROVE  /\ page'[live[n]].count \in 0..PageCapacity
               /\ 1 < n /\ n < Len(live) => page'[live[n]].count = PageCapacity
               /\ 1 < Len(live) => page'[live[n]].count > 0
    <3>1. CASE n = Len(live)
      BY <3>1, <2>1, <1>1, <1>2, LiveFacts DEF QueueShape
    <3>2. CASE n # Len(live)
      <4>1. live[n] \in Pages /\ live[n] # tail
        BY <3>2, LiveFacts
      <4>. QED
        BY <4>1, <1>2 DEF QueueShape
    <3>. QED
      BY <3>1, <3>2
  <2>3. count' = IF Len(live) = 1 THEN page'[head].count
                 ELSE page'[head].count + (Len(live) - 2) * PageCapacity + page'[tail].count
    <3>1. CASE Len(live) = 1
      BY <3>1, <2>1, <1>1, <1>2, LiveFacts DEF QueueShape
    <3>2. CASE Len(live) # 1
      <4>1. head # tail
        BY <3>2, LiveFacts
      <4>. DEFINE middle == (Len(live) - 2) * PageCapacity
      <4>2. middle \in Int /\ count = page[head].count + middle + page[tail].count
        BY <3>2, LiveFacts, CapacityAssumption DEF QueueShape
      <4>3. page'[head].count = page[head].count /\ page[head].count \in Int
        BY <4>1, <1>2, <2>1 DEF TypeOK
      <4>. HIDE DEF middle
      <4>4. count' = page'[head].count + middle + page'[tail].count
        BY <4>2, <4>3, <1>1, <1>2, <2>1
      <4>. QED
        BY <4>4, <3>2 DEF middle
    <3>. QED
      BY <3>1, <3>2
  <2>. QED
    BY <2>1, <2>2, <2>3 DEF QueueShape
<1>6. claimed' = [claimed EXCEPT ![t] = claimed'[t]] /\ claimed'[t] \in Slots
  BY <1>1 DEF ClaimSlot, TypeOK, Slots
<1>. QED
  BY <1>3, <1>4, <1>5, <1>6

(* A claim in a page that AllocPage appends to a full tail. *)
LEMMA ClaimInNewPage ==
  ASSUME TypeOK, PagesAccountedFor, QueueShape,
         NEW t \in Threads, NEW clear \in BOOLEAN, NEW p \in Pages,
         page[tail].count >= PageCapacity,
         AllocPage(p), tail' = p, live' = Append(live, p), head' = head,
         ClaimSlot(t, p, EmptyPage, [page EXCEPT ![tail].next = p], clear)
  PROVE  /\ PageTypes' /\ PagesAccountedFor' /\ QueueShape'
         /\ claimed' = [claimed EXCEPT ![t] = claimed'[t]] /\ claimed'[t] \in Slots
<1> USE CapacityAssumption, QueueAssumption
<1>1. /\ 0 \in Indices /\ 1 % PageCapacity \in Indices /\ NoPage \in Links
      /\ p \in Links /\ tail \in Pages
  BY DEF Indices, Links, TypeOK
<1>2. (* the page comes from the front of the free list or from the heap *)
      /\ \A n \in 1..Len(live) : live[n] # p
      /\ heap' \subseteq heap /\ p \notin heap' /\ heap' \in {heap, heap \ {p}}
      /\ free' \in Seq(Pages) /\ firstFree' \in Links
      /\ \/ /\ firstFree = p /\ free # <<>> /\ p = free[1]
            /\ free' = Tail(free) /\ heap' = heap /\ firstFree' = page[p].next
         \/ firstFree = NoPage /\ p \in heap /\ heap' = heap \ {p}
            /\ firstFree' = firstFree /\ free' = free
  <2>1. CASE firstFree # NoPage
    <3>1. /\ p = firstFree /\ firstFree' = page[p].next /\ free' = Tail(free) /\ heap' = heap
      BY <2>1 DEF AllocPage
    <3>2. free # <<>> /\ p = free[1] /\ 1 \in 1..Len(free)
      BY <2>1, <3>1 DEF PagesAccountedFor, Linked, TypeOK
    <3>3. \A n \in 1..Len(live) : live[n] # p
      BY <3>2 DEF PagesAccountedFor
    <3>4. p \notin heap
      BY <3>2 DEF PagesAccountedFor
    <3>. QED
      BY <3>1, <3>2, <3>3, <3>4 DEF TypeOK
  <2>2. CASE firstFree = NoPage
    BY <2>2 DEF AllocPage, PagesAccountedFor, TypeOK, Links
  <2>. QED
    BY <2>1, <2>2
<1>3. p # tail
  BY <1>2, LiveFacts
<1>4. /\ page' \in [Pages -> [next : Links, count : Int, onePastTailIndex : Indices]]
      /\ page'[p].count = 1 /\ page'[p].next = NoPage
      /\ page'[tail].next = p /\ page'[tail].count = page[tail].count
      /\ \A q \in Pages : q # p /\ q # tail => page'[q] = page[q]
  <2>. DEFINE H == [page EXCEPT ![tail].next = p]
  <2>1. /\ H \in [Pages -> [next : Links, count : Int, onePastTailIndex : Indices]]
        /\ H[tail].next = p /\ H[tail].count = page[tail].count
        /\ \A q \in Pages : q # tail => H[q] = page[q]
    BY <1>1 DEF TypeOK
  <2>2. page' = [H EXCEPT ![p] = [next |-> NoPage, count |-> 0 + 1,
                                  onePastTailIndex |-> (0 + 1) % PageCapacity]]
    BY DEF ClaimSlot, EmptyPage
  <2>. HIDE DEF H
  <2>3. [next |-> NoPage, count |-> 0 + 1, onePastTailIndex |-> (0 + 1) % PageCapacity]
          \in [next : Links, count : Int, onePastTailIndex : Indices]
    BY <1>1
  <2>. QED
    BY <1>1, <1>3, <2>1, <2>2, <2>3
<1>5. /\ live' \in Seq(Pages) /\ Len(live') = Len(live) + 1
      /\ \A n \in 1..Len(live) : live'[n] = live[n]
      /\ live'[Len(live) + 1] = p
  BY DEF TypeOK
<1>6. PageTypes'
  <2>1. slot' \in [Pages -> [Indices -> Values]]
    BY <1>1 DEF ClaimSlot, TypeOK, Values, EmptyPage
  <2>2. count' \in Int
    BY DEF ClaimSlot, TypeOK
  <2>3. head' \in Pages /\ tail' \in Pages /\ firstFree' \in Links /\ heap' \subseteq Pages
    BY <1>2 DEF TypeOK
  <2>. QED
    BY <1>2, <1>4, <1>5, <2>1, <2>2, <2>3 DEF PageTypes
<1>7. claimed' = [claimed EXCEPT ![t] = claimed'[t]] /\ claimed'[t] \in Slots
  BY <1>1 DEF ClaimSlot, TypeOK, Slots, EmptyPage
<1>8. PagesAccountedFor'
  <2>1. live' # <<>> /\ tail' = live'[Len(live')]
    BY <1>5
  <2>2. Linked(live, head)'
    <3>1. head' = IF live' = <<>> THEN NoPage ELSE live'[1]
      BY <1>5, LiveFacts
    <3>2. ASSUME NEW n \in 1..Len(live')
          PROVE  page'[live'[n]].next = IF n = Len(live') THEN NoPage ELSE live'[n+1]
      <4>1. CASE n = Len(live) + 1
        <5>1. live'[n] = p /\ n = Len(live')
          BY <4>1, <1>5
        <5>. QED
          BY <5>1, <1>4
      <4>2. CASE n = Len(live)
        <5>1. live'[n] = tail /\ n # Len(live') /\ live'[n+1] = p
          BY <4>2, <1>5, LiveFacts
        <5>. QED
          BY <5>1, <1>4
      <4>3. CASE n \in 1..Len(live) /\ n # Len(live)
        <5>1. live[n] \in Pages /\ live[n] # tail /\ live[n] # p
          BY <4>3, <1>2, LiveFacts
        <5>2. page[live[n]].next = live[n+1]
          BY <4>3 DEF PagesAccountedFor, Linked
        <5>3. page'[live[n]].next = live[n+1]
          BY <5>1, <5>2, <1>4
        <5>4. live'[n] = live[n] /\ live'[n+1] = live[n+1] /\ n # Len(live')
          BY <4>3, <1>5, LiveFacts
        <5>. QED
          BY <5>3, <5>4
      <4>4. n \in 1..Len(live) \/ n = Len(live) + 1
        BY <1>5, LiveFacts
      <4>. QED
        BY <4>1, <4>2, <4>3, <4>4
    <3>. QED
      BY <3>1, <3>2 DEF Linked
  <2>3. \A m \in 1..Len(free') : /\ free'[m] \in Pages /\ free'[m] # p /\ free'[m] # tail
                                 /\ free'[m] \notin heap'
                                 /\ \A n \in 1..Len(live) : free'[m] # live[n]
    <3>1. CASE firstFree = p /\ free # <<>> /\ p = free[1] /\ free' = Tail(free)
      <4>1. \A m \in 1..Len(free') : free'[m] = free[m+1] /\ m+1 \in 1..Len(free) /\ m+1 # 1
        BY <3>1, FreeFacts, TailFacts
      <4>3. free[1] = p
        BY <3>1
      <4>2. 1 \in 1..Len(free) /\ Len(live) \in 1..Len(live)
        BY <3>1, FreeFacts, LiveFacts
      <4>4. ASSUME NEW m \in 1..Len(free')
            PROVE  /\ free'[m] \in Pages /\ free'[m] \notin heap /\ free'[m] # p
                   /\ \A n \in 1..Len(live) : free'[m] # live[n]
        <5>1. PICK k \in 1..Len(free) : free'[m] = free[k] /\ k # 1
          BY <4>1
        <5>2. free[k] # free[1]
          BY <5>1, <4>2, FreeFacts
        <5>3. /\ free[k] \in Pages /\ free[k] \notin heap
              /\ \A n \in 1..Len(live) : free[k] # live[n]
          BY FreeFacts
        <5>. QED
          BY <5>1, <5>2, <5>3, <4>3
      <4>. QED
        BY <4>2, <4>4, <1>2, LiveFacts
    <3>2. CASE firstFree = NoPage /\ p \in heap /\ free' = free
      BY <3>2, <1>2, LiveFacts, FreeFacts
    <3>. QED
      BY <3>1, <3>2, <1>2
  <2>4. Linked(free, firstFree)'
    <3>1. CASE /\ firstFree = p /\ free # <<>> /\ p = free[1] /\ free' = Tail(free)
               /\ firstFree' = page[p].next
      <4>1. /\ Len(free') = Len(free) - 1 /\ Len(free) \in Nat \ {0}
            /\ \A m \in 1..Len(free') : free'[m] = free[m+1]
            /\ free' = <<>> <=> Len(free) = 1
        BY <3>1, FreeFacts, TailFacts
      <4>2. firstFree' = IF free' = <<>> THEN NoPage ELSE free'[1]
        <5>1. firstFree' = IF Len(free) = 1 THEN NoPage ELSE free[2]
          BY <3>1, <4>1, FreeFacts
        <5>. QED
          BY <5>1, <4>1
      <4>3. \A m \in 1..Len(free') : page'[free'[m]].next = page[free[m+1]].next
        BY <4>1, <2>3, <1>4
      <4>4. \A m \in 1..Len(free') :
              page[free[m+1]].next = IF m = Len(free') THEN NoPage ELSE free'[m+1]
        BY <4>1, FreeFacts
      <4>. QED
        BY <4>2, <4>3, <4>4 DEF Linked
    <3>2. CASE firstFree = NoPage /\ free' = free /\ firstFree' = firstFree
      BY <3>2, FreeFacts DEF Linked
    <3>. QED
      BY <3>1, <3>2, <1>2
  <2>5. \A m, n \in 1..Len(live') : live'[m] = live'[n] => m = n
    BY <1>2, <1>5, LiveFacts DEF PagesAccountedFor
  <2>6. \A m, n \in 1..Len(free') : free'[m] = free'[n] => m = n
    <3>1. CASE free # <<>> /\ free' = Tail(free)
      <4>1. \A m \in 1..Len(free') : free'[m] = free[m+1] /\ m+1 \in 1..Len(free)
        BY <3>1, FreeFacts, TailFacts
      <4>2. \A m, n \in 1..Len(free) : free[m] = free[n] => m = n
        BY DEF PagesAccountedFor
      <4>3. \A m, n \in 1..Len(free') : m \in Int /\ n \in Int /\ (m + 1 = n + 1 => m = n)
        OBVIOUS
      <4>. QED
        BY <4>1, <4>2, <4>3
    <3>2. CASE free' = free
      BY <3>2, FreeFacts
    <3>. QED
      BY <3>1, <3>2, <1>2
  <2>7. \A m \in 1..Len(live'), n \in 1..Len(free') : live'[m] # free'[n]
    BY <2>3, <1>5, LiveFacts
  <2>8. \A q \in Pages \ heap' :
          (\E n \in 1..Len(live') : q = live'[n]) \/ (\E n \in 1..Len(free') : q = free'[n])
    <3>. SUFFICES ASSUME NEW q \in Pages \ heap', q # p
                  PROVE  \/ \E n \in 1..Len(live') : q = live'[n]
                         \/ \E n \in 1..Len(free') : q = free'[n]
      BY <1>5, LiveFacts
    <3>1. q \notin heap
      BY <1>2
    <3>2. CASE \E n \in 1..Len(live) : q = live[n]
      BY <3>2, <1>5, LiveFacts
    <3>3. CASE \E n \in 1..Len(free) : q = free[n]
      <4>1. PICK n \in 1..Len(free) : q = free[n]
        BY <3>3
      <4>2. CASE free' = Tail(free) /\ p = free[1] /\ free # <<>>
        <5>1. n - 1 \in 1..Len(free') /\ free'[n-1] = free[n]
          BY <4>1, <4>2, FreeFacts
        <5>. QED
          BY <4>1, <5>1
      <4>3. CASE free' = free
        BY <4>1, <4>3
      <4>. QED
        BY <4>2, <4>3, <1>2
    <3>. QED
      BY <3>1, <3>2, <3>3 DEF PagesAccountedFor
  <2>9. \A n \in 1..Len(live') : live'[n] \notin heap'
    BY <1>2, <1>5, LiveFacts DEF PagesAccountedFor
  <2>. QED
    BY <2>1, <2>2, <2>3, <2>4, <2>5, <2>6, <2>7, <2>8, <2>9 DEF PagesAccountedFor
<1>9. QueueShape'
  <2>1. \A n \in 1..Len(live) : live[n] # p /\ page'[live[n]].count = page[live[n]].count
    BY <1>2, <1>4, LiveFacts
  <2>2. page[tail].count = PageCapacity
    BY LiveFacts DEF QueueShape
  <2>3. ASSUME NEW n \in 1..Len(live')
        PROVE  /\ page'[live'[n]].count \in 0..PageCapacity
               /\ 1 < n /\ n < Len(live') => page'[live'[n]].count = PageCapacity
               /\ 1 < Len(live') => page'[live'[n]].count > 0
    <3>1. CASE n = Len(live) + 1
      BY <3>1, <1>4, <1>5, LiveFacts
    <3>2. CASE n \in 1..Len(live)
      <4>1. page'[live'[n]].count = page[live[n]].count
        BY <3>2, <2>1, <1>5
      <4>2. n = Len(live) => live[n] = tail
        BY LiveFacts
      <4>3. Len(live) = 1 => n = Len(live)
        BY <3>2, LiveFacts
      <4>. QED
        BY <3>2, <4>1, <4>2, <4>3, <2>2, <1>5, LiveFacts DEF QueueShape
    <3>. QED
      BY <3>1, <3>2, <1>5, LiveFacts
  <2>4. /\ count' = count + 1 /\ head' = head /\ tail' = p
        /\ page'[head].count = page[head].count /\ page'[p].count = 1
        /\ page[head].count \in Int
    <3>1. count' = count + 1
      BY DEF ClaimSlot
    <3>2. page'[head].count = page[head].count
      BY <2>1, LiveFacts
    <3>. QED
      BY <3>1, <3>2, <1>4 DEF TypeOK
  <2>5. count' = page'[head'].count + (Len(live') - 2) * PageCapacity + page'[tail'].count
    <3>1. CASE Len(live) = 1
      BY <3>1, <2>4, <1>5, LiveFacts DEF QueueShape
    <3>2. CASE Len(live) # 1
      <4>. DEFINE L == Len(live)
      <4>1. L \in Nat /\ count = page[head].count + (L - 2) * PageCapacity + PageCapacity
        BY <3>2, <2>2, LiveFacts DEF QueueShape
      <4>2. (L - 2) * PageCapacity + PageCapacity = (L + 1 - 2) * PageCapacity
        BY <4>1
      <4>. QED
        BY <4>1, <4>2, <2>4, <1>5
    <3>. QED
      BY <3>1, <3>2
  <2>. QED
    BY <2>3, <2>5, <1>5, LiveFacts DEF QueueShape
<1>. QED
  BY <1>6, <1>7, <1>8, <1>9

(* An item leaves a head page that stays in the queue. *)
LEMMA PopStays ==
  ASSUME TypeOK, PagesAccountedFor, QueueShape,
         count > 0, ~ (page[head].count = 1 /\ head # tail),
         count' = count - 1, page' = PopFromPage(head, page[head].next),
         UNCHANGED listVars, UNCHANGED slot
  PROVE  PageTypes' /\ PagesAccountedFor' /\ QueueShape'
<1>1. /\ head \in Pages
      /\ page[head] \in [next : Links, count : Int, onePastTailIndex : Indices]
  BY DEF TypeOK
<1>2. /\ page' \in [Pages -> [next : Links, count : Int, onePastTailIndex : Indices]]
      /\ page'[head].count = page[head].count - 1
      /\ \A p \in Pages : /\ page'[p].next = page[p].next
                          /\ p # head => page'[p] = page[p]
  BY <1>1 DEF PopFromPage, TypeOK
<1>3. PageTypes'
  BY <1>2 DEF PageTypes, TypeOK, listVars
<1>4. PagesAccountedFor'
  <2>1. Linked(live, head)'
    <3>1. live' = live /\ head' = head /\ Linked(live, head)
      BY DEF PagesAccountedFor, listVars
    <3>2. \A n \in 1..Len(live) : page'[live[n]].next = page[live[n]].next
      BY <1>2, LiveFacts
    <3>. QED
      BY <3>1, <3>2 DEF Linked
  <2>2. Linked(free, firstFree)'
    BY <1>2, FreeFacts DEF Linked, listVars
  <2>. QED
    BY <2>1, <2>2 DEF PagesAccountedFor, listVars
<1>5. QueueShape'
  <2>1. live' = live /\ head' = head /\ tail' = tail
    BY DEF listVars
  <2>2. page[head].count > 0
    BY LiveFacts, <1>1 DEF QueueShape
  <2>3. ASSUME NEW n \in 1..Len(live)
        PROVE  /\ page'[live[n]].count \in 0..PageCapacity
               /\ 1 < n /\ n < Len(live) => page'[live[n]].count = PageCapacity
               /\ 1 < Len(live) => page'[live[n]].count > 0
    <3>1. CASE n = 1
      BY <3>1, <2>2, <1>1, <1>2, LiveFacts, CapacityAssumption DEF QueueShape
    <3>2. CASE n # 1
      <4>1. live[n] \in Pages /\ live[n] # head
        BY <3>2, LiveFacts
      <4>. QED
        BY <4>1, <1>2 DEF QueueShape
    <3>. QED
      BY <3>1, <3>2
  <2>4. count' = IF Len(live) = 1 THEN page'[head].count
                 ELSE page'[head].count + (Len(live) - 2) * PageCapacity + page'[tail].count
    <3>1. CASE Len(live) = 1
      BY <3>1, <1>1, <1>2, LiveFacts DEF QueueShape
    <3>2. CASE Len(live) # 1
      <4>. DEFINE middle == (Len(live) - 2) * PageCapacity
      <4>1. /\ middle \in Int /\ count = page[head].count + middle + page[tail].count
            /\ page[tail].count \in Int /\ head # tail /\ tail \in Pages
        BY <3>2, LiveFacts, CapacityAssumption DEF QueueShape, TypeOK
      <4>. HIDE DEF middle
      <4>2. count' = page'[head].count + middle + page'[tail].count
        BY <4>1, <1>1, <1>2
      <4>. QED
        BY <4>2, <3>2 DEF middle
    <3>. QED
      BY <3>1, <3>2
  <2>. QED
    BY <2>1, <2>3, <2>4 DEF QueueShape
<1>. QED
  BY <1>3, <1>4, <1>5

(* The last item of a head page that is not the tail leaves, and the page  *)
(* goes to the front of the free list.                                     *)
LEMMA PopRetires ==
  ASSUME TypeOK, PagesAccountedFor, QueueShape,
         page[head].count = 1, head # tail,
         count' = count - 1, page' = PopFromPage(head, firstFree),
         head' = page[head].next, firstFree' = head,
         live' = Tail(live), free' = <<head>> \o free,
         UNCHANGED <<tail, heap, slot>>
  PROVE  PageTypes' /\ PagesAccountedFor' /\ QueueShape'
<1>0. PageCapacity \in Nat \ {0}
  BY CapacityAssumption
<1>. USE <1>0
<1>1. /\ head \in Pages /\ firstFree \in Links
      /\ page[head] \in [next : Links, count : Int, onePastTailIndex : Indices]
  BY DEF TypeOK
<1>2. /\ page' \in [Pages -> [next : Links, count : Int, onePastTailIndex : Indices]]
      /\ page'[head].count = 0 /\ page'[head].next = firstFree
      /\ \A p \in Pages : p # head => page'[p] = page[p]
  BY <1>1 DEF PopFromPage, TypeOK
<1>3. /\ Len(live) \in Nat /\ Len(live) >= 2 /\ live \in Seq(Pages) /\ live # <<>>
      /\ 1 \in 1..Len(live) /\ 2 \in 1..Len(live) /\ 1 # Len(live)
      /\ live[1] = head
  <2>1. Len(live) # 1
    BY LiveFacts
  <2>. QED
    BY <2>1, LiveFacts DEF TypeOK, PagesAccountedFor
<1>4. /\ live' \in Seq(Pages) /\ live' # <<>>
      /\ \A n \in 1..Len(live') : live'[n] = live[n+1] /\ n+1 \in 1..Len(live) /\ n+1 # 1
  <2>1. /\ live' \in Seq(Pages) /\ Len(live') = Len(live) - 1
        /\ \A n \in 1..Len(live') : live'[n] = live[n+1] /\ n+1 \in 1..Len(live) /\ n+1 # 1
        /\ live' = <<>> <=> Len(live) = 1
    BY <1>3, TailFacts
  <2>. QED
    BY <1>3, <2>1
<1>a. /\ Len(live) \in Nat /\ Len(live) >= 2 /\ Len(live') = Len(live) - 1
      /\ Len(live') \in Nat /\ 1 \in 1..Len(live') /\ 2 \in 1..Len(live)
  BY <1>3, TailFacts
<1>5. /\ free' \in Seq(Pages) /\ Len(free') = Len(free) + 1 /\ free' # <<>>
      /\ free'[1] = head /\ \A n \in 1..Len(free) : free'[n+1] = free[n]
  <2>1. <<head>> \in Seq(Pages) /\ Len(<<head>>) = 1 /\ <<head>>[1] = head
    BY <1>1
  <2>2. /\ free' \in Seq(Pages) /\ Len(free') = 1 + Len(free)
        /\ \A i \in 1..1 + Len(free) :
             free'[i] = IF i <= 1 THEN <<head>>[i] ELSE free[i-1]
    BY <2>1, FreeFacts, ConcatProperties
  <2>. QED
    BY <2>1, <2>2, FreeFacts, EmptySeq
<1>6. head' = live[2] /\ live'[1] = live[2] /\ head' \in Pages /\ 2 \in 1..Len(live)
  <2>1. 1 \in 1..Len(live) /\ 2 \in 1..Len(live) /\ 1 \in 1..Len(live') /\ 1 # Len(live)
    BY <1>3, <1>a
  <2>2. page[live[1]].next = live[1+1]
    BY <2>1 DEF PagesAccountedFor, Linked
  <2>3. live'[1] = live[1+1]
    BY <2>1, <1>4
  <2>4. live[2] \in Pages
    BY <2>1, <1>3
  <2>. QED
    BY <2>1, <2>2, <2>3, <2>4, <1>3
<1>7. PageTypes'
  BY <1>1, <1>2, <1>4, <1>5, <1>6 DEF PageTypes, TypeOK, Links
<1>8. PagesAccountedFor'
  <2>1. tail' = live'[Len(live')]
    <3>1. Len(live') \in 1..Len(live') /\ Len(live') + 1 = Len(live)
      BY <1>a
    <3>. QED
      BY <3>1, <1>4, LiveFacts
  <2>2. \A n \in 1..Len(live') : /\ live'[n] \in Pages /\ live'[n] # head
                                 /\ live'[n] \notin heap
                                 /\ page'[live'[n]] = page[live'[n]]
    <3>. SUFFICES ASSUME NEW n \in 1..Len(live')
                  PROVE  live'[n] \in Pages /\ live'[n] # head /\ live'[n] \notin heap
      BY <1>2
    <3>1. PICK k \in 1..Len(live) : live'[n] = live[k] /\ k # 1
      BY <1>4
    <3>. QED
      BY <3>1, LiveFacts DEF PagesAccountedFor
  <2>3. Linked(live, head)'
    <3>1. ASSUME NEW n \in 1..Len(live')
          PROVE  page'[live'[n]].next = IF n = Len(live') THEN NoPage ELSE live'[n+1]
      <4>1. /\ n + 1 \in 1..Len(live) /\ live'[n] = live[n+1]
            /\ n = Len(live') <=> n + 1 = Len(live)
            /\ n # Len(live') => n + 1 \in 1..Len(live')
        <5>1. /\ n = Len(live') <=> n + 1 = Len(live)
              /\ n # Len(live') => n + 1 \in 1..Len(live')
          BY <1>a
        <5>. QED
          BY <5>1, <1>4
      <4>2. page[live[n+1]].next = IF n + 1 = Len(live) THEN NoPage ELSE live[n+1+1]
        BY <4>1 DEF PagesAccountedFor, Linked
      <4>3. n # Len(live') => live'[n+1] = live[n+1+1]
        BY <4>1, <1>4
      <4>4. page'[live'[n]].next = page[live[n+1]].next
        BY <4>1, <2>2
      <4>. QED
        BY <4>1, <4>2, <4>3, <4>4
    <3>. QED
      BY <3>1, <1>4, <1>6 DEF Linked
  <2>4. \A m \in 1..Len(free') : \/ m = 1 /\ free'[m] = head
                                 \/ \E k \in 1..Len(free) : m = k + 1 /\ free'[m] = free[k]
    <3>. SUFFICES ASSUME NEW m \in 1..Len(free'), m # 1
                  PROVE  \E k \in 1..Len(free) : m = k + 1 /\ free'[m] = free[k]
      BY <1>5
    <3>1. m - 1 \in 1..Len(free) /\ m = (m - 1) + 1
      BY <1>5, FreeFacts
    <3>. QED
      BY <3>1, <1>5
  <2>5. /\ head \notin heap /\ \A k \in 1..Len(free) : free[k] # head
    <3>1. live[1] \notin heap /\ \A k \in 1..Len(free) : live[1] # free[k]
      BY <1>3 DEF PagesAccountedFor
    <3>. QED
      BY <3>1, <1>3
  <2>6. Linked(free, firstFree)'
    <3>1. ASSUME NEW m \in 1..Len(free')
          PROVE  page'[free'[m]].next = IF m = Len(free') THEN NoPage ELSE free'[m+1]
      <4>1. CASE m = 1 /\ free'[m] = head
        <5>1. CASE Len(free) = 0
          BY <4>1, <5>1, <1>2, <1>5, FreeFacts
        <5>2. CASE Len(free) # 0
          <6>1. 1 \in 1..Len(free) /\ firstFree = free[1] /\ m # Len(free')
            BY <4>1, <5>2, <1>5, FreeFacts
          <6>2. free'[1+1] = free[1]
            BY <6>1, <1>5
          <6>. QED
            BY <4>1, <6>1, <6>2, <1>2
        <5>. QED
          BY <5>1, <5>2
      <4>2. CASE \E k \in 1..Len(free) : m = k + 1 /\ free'[m] = free[k]
        <5>1. PICK k \in 1..Len(free) : m = k + 1 /\ free'[m] = free[k]
          BY <4>2
        <5>2. page'[free[k]] = page[free[k]]
          BY <2>5, <1>2, FreeFacts
        <5>3. page[free[k]].next = IF k = Len(free) THEN NoPage ELSE free[k+1]
          BY FreeFacts
        <5>4. /\ m = Len(free') <=> k = Len(free)
              /\ k # Len(free) => free'[m+1] = free[k+1]
          BY <5>1, <1>5, FreeFacts
        <5>. QED
          BY <5>1, <5>2, <5>3, <5>4
      <4>. QED
        BY <4>1, <4>2, <2>4
    <3>. QED
      BY <3>1, <1>5 DEF Linked
  <2>7. \A m, n \in 1..Len(live') : live'[m] = live'[n] => m = n
    <3>. SUFFICES ASSUME NEW m \in 1..Len(live'), NEW n \in 1..Len(live'), live'[m] = live'[n]
                  PROVE  m = n
      OBVIOUS
    <3>1. /\ m + 1 \in 1..Len(live) /\ n + 1 \in 1..Len(live)
          /\ live[m+1] = live[n+1]
      BY <1>4
    <3>2. m + 1 = n + 1
      BY <3>1 DEF PagesAccountedFor
    <3>. QED
      BY <3>2, <1>a
  <2>8. \A m, n \in 1..Len(free') : free'[m] = free'[n] => m = n
    <3>. SUFFICES ASSUME NEW m \in 1..Len(free'), NEW n \in 1..Len(free'), free'[m] = free'[n]
                  PROVE  m = n
      OBVIOUS
    <3>. QED
      BY <2>4, <2>5, FreeFacts
  <2>9. \A m \in 1..Len(live'), n \in 1..Len(free') : live'[m] # free'[n]
    <3>. SUFFICES ASSUME NEW m \in 1..Len(live'), NEW n \in 1..Len(free')
                  PROVE  live'[m] # free'[n]
      OBVIOUS
    <3>1. PICK j \in 1..Len(live) : live'[m] = live[j]
      BY <1>4
    <3>2. CASE free'[n] = head
      BY <3>2, <2>2
    <3>3. CASE \E k \in 1..Len(free) : free'[n] = free[k]
      <4>1. PICK k \in 1..Len(free) : free'[n] = free[k]
        BY <3>3
      <4>2. live[j] # free[k]
        BY FreeFacts
      <4>. QED
        BY <4>1, <4>2, <3>1
    <3>. QED
      BY <3>2, <3>3, <2>4
  <2>10. \A q \in Pages \ heap' :
           (\E n \in 1..Len(live') : q = live'[n]) \/ (\E n \in 1..Len(free') : q = free'[n])
    <3>. SUFFICES ASSUME NEW q \in Pages \ heap
                  PROVE  \/ \E n \in 1..Len(live') : q = live'[n]
                         \/ \E n \in 1..Len(free') : q = free'[n]
      OBVIOUS
    <3>1. CASE q = head
      <4>1. 1 \in 1..Len(free')
        BY <1>5, FreeFacts
      <4>. QED
        BY <3>1, <4>1, <1>5
    <3>2. CASE \E n \in 1..Len(live) : n # 1 /\ q = live[n]
      <4>1. PICK n \in 1..Len(live) : n # 1 /\ q = live[n]
        BY <3>2
      <4>2. n - 1 \in 1..Len(live') /\ live'[n-1] = live[n]
        <5>1. n - 1 \in 1..Len(live') /\ (n - 1) + 1 = n
          BY <4>1, <1>a
        <5>2. live'[n-1] = live[(n-1)+1]
          BY <5>1, <1>4
        <5>. QED
          BY <5>1, <5>2
      <4>. QED
        BY <4>1, <4>2
    <3>3. CASE \E n \in 1..Len(free) : q = free[n]
      <4>1. PICK n \in 1..Len(free) : q = free[n]
        BY <3>3
      <4>2. n + 1 \in 1..Len(free') /\ free'[n+1] = free[n]
        BY <1>5, FreeFacts
      <4>. QED
        BY <4>1, <4>2
    <3>. QED
      BY <3>1, <3>2, <3>3, LiveFacts DEF PagesAccountedFor
  <2>11. \A n \in 1..Len(free') : free'[n] \notin heap'
    BY <2>4, <2>5, FreeFacts
  <2>. QED
    BY <1>4, <2>1, <2>2, <2>3, <2>6, <2>7, <2>8, <2>9, <2>10, <2>11 DEF PagesAccountedFor
<1>9. QueueShape'
  <2>1. \A n \in 1..Len(live') : /\ n + 1 \in 1..Len(live)
                                 /\ page'[live'[n]].count = page[live[n+1]].count
    <3>. SUFFICES ASSUME NEW n \in 1..Len(live')
                  PROVE  /\ n + 1 \in 1..Len(live)
                         /\ page'[live'[n]].count = page[live[n+1]].count
      OBVIOUS
    <3>1. /\ n + 1 \in 1..Len(live) /\ n + 1 # 1 /\ live'[n] = live[n+1]
          /\ live[n+1] \in Pages /\ live[n+1] # head
      BY <1>4, LiveFacts
    <3>. QED
      BY <3>1, <1>2
  <2>2. ASSUME NEW n \in 1..Len(live')
        PROVE  /\ page'[live'[n]].count \in 0..PageCapacity
               /\ 1 < n /\ n < Len(live') => page'[live'[n]].count = PageCapacity
               /\ 1 < Len(live') => page'[live'[n]].count > 0
    <3>. DEFINE k == n + 1
    <3>1. /\ k \in 1..Len(live) /\ 1 < Len(live) /\ 1 < k
          /\ n < Len(live') => k < Len(live)
      BY <1>a
    <3>2. page'[live'[n]].count = page[live[k]].count
      BY <2>1
    <3>. HIDE DEF k
    <3>. QED
      BY <3>1, <3>2 DEF QueueShape
  <2>3. /\ page'[head'].count = page[live[2]].count
        /\ page[live[2]].count \in Int /\ page[tail].count \in Int
        /\ 2 < Len(live) => page[live[2]].count = PageCapacity
        /\ page'[tail].count = page[tail].count
    <3>1. live[2] \in Pages /\ live[2] # head /\ tail \in Pages /\ tail # head
      BY <1>3, <1>6, LiveFacts DEF TypeOK
    <3>2. /\ page[live[2]].count \in Int /\ page[tail].count \in Int
          /\ page'[live[2]] = page[live[2]] /\ page'[tail] = page[tail]
      BY <3>1, <1>2 DEF TypeOK
    <3>3. 2 < Len(live) => page[live[2]].count = PageCapacity
      BY <1>a DEF QueueShape
    <3>. QED
      BY <3>2, <3>3, <1>6
  <2>4. count' = (Len(live) - 2) * PageCapacity + page[tail].count
    BY <1>3, LiveFacts DEF QueueShape, TypeOK
  <2>5. CASE Len(live') = 1
    <3>1. count' = page'[head'].count
      BY <2>3, <2>4, <2>5, <1>a, <1>6, LiveFacts
    <3>. QED
      BY <2>2, <2>5, <3>1 DEF QueueShape
  <2>6. CASE Len(live') # 1
    <3>1. 2 < Len(live)
      <4>1. \A n \in Nat : n >= 2 /\ n - 1 # 1 => 2 < n
        OBVIOUS
      <4>. QED
        BY <4>1, <2>6, <1>a, Zenon
    <3>2. (Len(live) - 2) * PageCapacity = PageCapacity + (Len(live) - 1 - 2) * PageCapacity
      BY <3>1, <1>a
    <3>3. count' = page'[head'].count + (Len(live') - 2) * PageCapacity + page'[tail'].count
      BY <2>3, <2>4, <3>1, <3>2, <1>a
    <3>. QED
      BY <2>2, <2>6, <3>3 DEF QueueShape
  <2>. QED
    BY <2>5, <2>6
<1>. QED
  BY <1>7, <1>8, <1>9

---------------------------------------------------------------------------
(* The types of the variables that describe the calls. *)
CallTypes ==
  /\ mutex \in Threads \cup {NoThread}
  /\ pc \in [Threads -> PcTypes]
  /\ arg \in [Threads -> Items \cup {NoItem}]
  /\ result \in [Threads -> Values \cup {NoItem} \cup BOOLEAN]
  /\ claimed \in [Threads -> Slots \cup {NoSlot}]

LEMMA TypeParts == TypeOK <=> PageTypes /\ CallTypes
BY DEF TypeOK, PageTypes, CallTypes, PcTypes

(* What a step of thread t outside the pages may do. *)
LEMMA CallSteps ==
  ASSUME TypeOK, PushesReady, NEW t \in Threads, NEW to \in PcTypes,
         pc' = [pc EXCEPT ![t] = to],
         mutex' \in Threads \cup {NoThread},
         arg' = arg \/ \E x \in Items \cup {NoItem} : arg' = [arg EXCEPT ![t] = x],
         \/ result' = result
         \/ \E x \in Values \cup {NoItem} \cup BOOLEAN : result' = [result EXCEPT ![t] = x],
         \/ claimed' = claimed
         \/ \E c \in Slots \cup {NoSlot} : claimed' = [claimed EXCEPT ![t] = c],
         to \in {"push_store", "unlock_fill", "fill"} => claimed'[t] \in Slots,
         to \in PushSteps => arg'[t] \in Items
  PROVE  CallTypes' /\ PushesReady'
<1>1. CallTypes'
  <2>1. mutex' \in Threads \cup {NoThread}
    OBVIOUS
  <2>2. pc' \in [Threads -> PcTypes]
    BY DEF TypeOK, PcTypes
  <2>3. arg' \in [Threads -> Items \cup {NoItem}]
    BY DEF TypeOK
  <2>4. result' \in [Threads -> Values \cup {NoItem} \cup BOOLEAN]
    <3>1. result \in [Threads -> Values \cup {NoItem} \cup BOOLEAN]
      BY DEF TypeOK
    <3>. QED
      BY <3>1, Zenon
  <2>5. claimed' \in [Threads -> Slots \cup {NoSlot}]
    BY DEF TypeOK
  <2>. QED
    BY <2>1, <2>2, <2>3, <2>4, <2>5 DEF CallTypes
<1>2. \A u \in Threads :
        u # t => pc'[u] = pc[u] /\ claimed'[u] = claimed[u] /\ arg'[u] = arg[u]
  BY DEF TypeOK
<1>3. pc'[t] = to
  BY DEF TypeOK
<1>. QED
  BY <1>1, <1>2, <1>3 DEF PushesReady

(* A step that leaves the mutex alone and the thread on its side of it.    *)
LEMMA MutexStays ==
  ASSUME TypeOK, MutexHeld, NEW t \in Threads, NEW to \in PcTypes,
         pc' = [pc EXCEPT ![t] = to], mutex' = mutex,
         InCriticalSection(t) <=>
           to \in {"push_claim", "push_store", "pushempty_claim", "pop_take",
                   "find_scan", "unlock", "unlock_fill"}
  PROVE  MutexHeld'
<1>1. \A u \in Threads : u # t => pc'[u] = pc[u]
  BY DEF TypeOK
<1>2. pc'[t] = to
  BY DEF TypeOK
<1>. QED
  BY <1>1, <1>2 DEF MutexHeld, InCriticalSection

(* A step that touches no page keeps what is said of the pages.            *)
LEMMA PagesStay ==
  ASSUME IInv, UNCHANGED queueVars
  PROVE  PageTypes' /\ PagesAccountedFor' /\ QueueShape'
<1>1. PageTypes'
  BY DEF IInv, TypeOK, PageTypes, queueVars, listVars
<1>2. PagesAccountedFor' /\ QueueShape'
  BY DEF IInv, PagesAccountedFor, Linked, QueueShape, queueVars, listVars
<1>. QED
  BY <1>1, <1>2

(* An item stored in a claimed slot changes nothing but that slot.         *)
LEMMA StoreKeepsPages ==
  ASSUME IInv, NEW t \in Threads, claimed[t] \in Slots, arg[t] \in Values,
         slot' = [slot EXCEPT ![claimed[t][1]][claimed[t][2]] = arg[t]],
         UNCHANGED <<listVars, count, page>>
  PROVE  PageTypes' /\ PagesAccountedFor' /\ QueueShape'
<1>1. claimed[t][1] \in Pages /\ claimed[t][2] \in Indices
  BY DEF Slots
<1>2. slot' \in [Pages -> [Indices -> Values]]
  BY <1>1 DEF IInv, TypeOK
<1>3. PageTypes'
  BY <1>2 DEF IInv, TypeOK, PageTypes, listVars
<1>4. PagesAccountedFor' /\ QueueShape'
  BY DEF IInv, PagesAccountedFor, Linked, QueueShape, listVars
<1>. QED
  BY <1>3, <1>4

---------------------------------------------------------------------------
(* Every step preserves the invariant. *)

(* Steps that touch neither the mutex nor a page. *)
LEMMA OutsideSteps ==
  ASSUME IInv, NEW t \in Threads,
         \/ \E x \in Items : CallPush(t, x) \/ CallPushEmpty(t, x) \/ CallFind(t, x)
         \/ CallTryPop(t) \/ PeekCount(t) \/ FindScan(t) \/ Return(t)
  PROVE  IInv'
<1>. USE QueueAssumption
<1>1. PageTypes' /\ PagesAccountedFor' /\ QueueShape'
  BY PagesStay DEF CallFind, CallPush, CallPushEmpty, CallTryPop, PeekCount, FindScan, Return
<1>2. PICK to \in PcTypes :
        /\ pc' = [pc EXCEPT ![t] = to]
        /\ to \notin {"push_store", "unlock_fill", "fill"}
        /\ to \in PushSteps => \E x \in Items : CallPush(t, x) \/ CallPushEmpty(t, x)
        /\ InCriticalSection(t) <=>
             to \in {"push_claim", "push_store", "pushempty_claim", "pop_take",
                     "find_scan", "unlock", "unlock_fill"}
  BY DEF CallFind, CallPush, CallPushEmpty, CallTryPop, PeekCount, FindScan, Return, Goto, PcTypes,
         InCriticalSection, PushSteps
<1>3. mutex' = mutex
  BY DEF CallFind, CallPush, CallPushEmpty, CallTryPop, PeekCount, FindScan, Return
<1>4. MutexHeld'
  BY <1>2, <1>3, MutexStays DEF IInv
<1>5. /\ arg' = arg \/ \E x \in Items \cup {NoItem} : arg' = [arg EXCEPT ![t] = x]
      /\ \/ result' = result
         \/ \E x \in Values \cup {NoItem} \cup BOOLEAN : result' = [result EXCEPT ![t] = x]
      /\ \/ claimed' = claimed
         \/ \E c \in Slots \cup {NoSlot} : claimed' = [claimed EXCEPT ![t] = c]
  <2>1. CASE \E x \in Items : CallPush(t, x) \/ CallPushEmpty(t, x) \/ CallFind(t, x)
    BY <2>1 DEF CallFind, CallPush, CallPushEmpty
  <2>2. CASE CallTryPop(t)
    BY <2>2 DEF CallTryPop, callVars
  <2>3. CASE PeekCount(t)
    BY <2>3 DEF PeekCount
  <2>4. CASE FindScan(t)
    <3>1. (arg[t] \in ToSet(Contents)) \in BOOLEAN
      OBVIOUS
    <3>. QED
      BY <2>4, <3>1 DEF FindScan
  <2>5. CASE Return(t)
    BY <2>5 DEF Return
  <2>. QED
    BY <2>1, <2>2, <2>3, <2>4, <2>5
<1>6. CallTypes' /\ PushesReady'
  <2>1. mutex' \in Threads \cup {NoThread} /\ TypeOK /\ PushesReady
    BY <1>3 DEF IInv, TypeOK
  <2>2. to \in PushSteps => arg'[t] \in Items
    BY <1>2 DEF CallPush, CallPushEmpty, IInv, TypeOK
  <2>. QED
    BY <1>2, <1>5, <2>1, <2>2, CallSteps
<1>. QED
  BY <1>1, <1>4, <1>6, TypeParts DEF IInv, TypeOK, PageTypes, CallTypes, PcTypes

(* The mutex is taken. *)
LEMMA AcquireStep ==
  ASSUME IInv, NEW t \in Threads, Acquire(t)
  PROVE  IInv'
<1>. USE QueueAssumption
<1>1. PageTypes' /\ PagesAccountedFor' /\ QueueShape'
  BY PagesStay DEF Acquire
<1>2. PICK to \in {"push_claim", "pushempty_claim", "pop_take", "find_scan"} :
        pc' = [pc EXCEPT ![t] = to] /\ (to \in PushSteps => pc[t] \in PushSteps)
  <2>1. /\ pc[t] \in {"push", "pushempty", "pop", "find"}
        /\ pc' = [pc EXCEPT ![t] = AfterLock[pc[t]]]
    BY DEF Acquire, AfterLock, Goto
  <2>2. CASE pc[t] = "push"
    BY <2>1, <2>2 DEF AfterLock, PushSteps
  <2>3. CASE pc[t] = "pushempty"
    BY <2>1, <2>3 DEF AfterLock, PushSteps
  <2>4. CASE pc[t] = "pop"
    BY <2>1, <2>4 DEF AfterLock, PushSteps
  <2>5. CASE pc[t] = "find"
    BY <2>1, <2>5 DEF AfterLock, PushSteps
  <2>. QED
    BY <2>1, <2>2, <2>3, <2>4, <2>5
<1>3. mutex = NoThread /\ mutex' = t /\ UNCHANGED callVars
  BY DEF Acquire
<1>4. MutexHeld'
  <2>1. \A u \in Threads : u # t => pc'[u] = pc[u]
    BY <1>2 DEF IInv, TypeOK
  <2>2. pc'[t] = to
    BY <1>2 DEF IInv, TypeOK
  <2>. QED
    BY <1>3, <2>1, <2>2 DEF IInv, MutexHeld, InCriticalSection
<1>5. CallTypes' /\ PushesReady'
  <2>1. TypeOK /\ PushesReady /\ to \in PcTypes
    BY DEF IInv, PcTypes
  <2>2. /\ to \notin {"push_store", "unlock_fill", "fill"}
        /\ to \in PushSteps => arg'[t] \in Items
    BY <1>2, <1>3 DEF IInv, PushesReady, callVars
  <2>. QED
    BY <1>2, <1>3, <2>1, <2>2, CallSteps DEF callVars
<1>. QED
  BY <1>1, <1>4, <1>5, TypeParts DEF IInv, TypeOK, PageTypes, CallTypes, PcTypes

(* The mutex is released. *)
LEMMA UnlockStep ==
  ASSUME IInv, NEW t \in Threads, Unlock(t) \/ UnlockToFill(t)
  PROVE  IInv'
<1>. USE QueueAssumption
<1>1. PageTypes' /\ PagesAccountedFor' /\ QueueShape'
  BY PagesStay DEF Unlock, UnlockToFill
<1>2. PICK to \in {"return", "fill"} :
        /\ pc' = [pc EXCEPT ![t] = to]
        /\ to = "fill" => pc[t] = "unlock_fill"
  BY DEF Unlock, UnlockToFill, Release, Goto
<1>3. mutex' = NoThread /\ mutex = t /\ UNCHANGED callVars
  BY DEF Unlock, UnlockToFill, Release, Goto, IInv, MutexHeld, InCriticalSection
<1>4. MutexHeld'
  <2>1. \A u \in Threads : u # t => pc'[u] = pc[u]
    BY <1>2 DEF IInv, TypeOK
  <2>2. pc'[t] = to
    BY <1>2 DEF IInv, TypeOK
  <2>. QED
    BY <1>2, <1>3, <2>1, <2>2 DEF IInv, MutexHeld, InCriticalSection
<1>5. CallTypes' /\ PushesReady'
  <2>1. TypeOK /\ PushesReady /\ to \in PcTypes /\ mutex' \in Threads \cup {NoThread}
    BY <1>3 DEF IInv, PcTypes
  <2>2. to \in PushSteps => claimed'[t] \in Slots /\ arg'[t] \in Items
    BY <1>2, <1>3 DEF IInv, PushesReady, PushSteps, callVars
  <2>. QED
    BY <1>2, <1>3, <2>1, <2>2, CallSteps DEF callVars, PushSteps
<1>. QED
  BY <1>1, <1>4, <1>5, TypeParts DEF IInv, TypeOK, PageTypes, CallTypes, PcTypes

(* A slot is claimed, by Push or by PushEmpty. *)
LEMMA ClaimStep ==
  ASSUME IInv, NEW t \in Threads, PushClaim(t) \/ PushEmptyClaim(t)
  PROVE  IInv'
<1>1. PICK clear \in BOOLEAN : PushEmptyUnsafe(t, clear)
  BY DEF PushClaim, PushEmptyClaim
<1>2. /\ PageTypes' /\ PagesAccountedFor' /\ QueueShape'
      /\ claimed' = [claimed EXCEPT ![t] = claimed'[t]] /\ claimed'[t] \in Slots
  <2>1. CASE /\ page[tail].count < PageCapacity
             /\ ClaimSlot(t, tail, page[tail], page, clear)
             /\ UNCHANGED listVars
    BY <2>1, ClaimInTail DEF IInv
  <2>2. CASE /\ page[tail].count >= PageCapacity
             /\ \E p \in Pages :
                  /\ AllocPage(p)
                  /\ tail' = p
                  /\ live' = Append(live, p)
                  /\ ClaimSlot(t, p, EmptyPage, [page EXCEPT ![tail].next = p], clear)
             /\ UNCHANGED head
    <3>1. PICK p \in Pages :
             /\ AllocPage(p)
             /\ tail' = p
             /\ live' = Append(live, p)
             /\ ClaimSlot(t, p, EmptyPage, [page EXCEPT ![tail].next = p], clear)
      BY <2>2
    <3>. QED
      BY <2>2, <3>1, ClaimInNewPage DEF IInv
  <2>. QED
    BY <1>1, <2>1, <2>2 DEF PushEmptyUnsafe
<1>3. PICK to \in {"push_store", "unlock_fill"} :
        pc' = [pc EXCEPT ![t] = to] /\ InCriticalSection(t)
  BY DEF PushClaim, PushEmptyClaim, Goto, InCriticalSection
<1>4. UNCHANGED <<mutex, arg, result>>
  BY DEF PushClaim, PushEmptyClaim
<1>5. TypeOK /\ PushesReady /\ MutexHeld /\ to \in PcTypes
  BY DEF IInv, PcTypes
<1>6. MutexHeld'
  BY <1>3, <1>4, <1>5, MutexStays
<1>7. CallTypes' /\ PushesReady'
  <2>1. mutex' \in Threads \cup {NoThread}
    BY <1>4, <1>5 DEF TypeOK
  <2>2. arg'[t] \in Items
    BY <1>4, <1>5 DEF PushClaim, PushEmptyClaim, Goto, PushesReady, PushSteps
  <2>. QED
    BY <1>2, <1>3, <1>4, <1>5, <2>1, <2>2, CallSteps
<1>. QED
  BY <1>2, <1>6, <1>7, TypeParts DEF IInv, TypeOK, PageTypes, CallTypes, PcTypes

(* The item is stored, by Push or by the caller of PushEmpty. *)
LEMMA StoreStep ==
  ASSUME IInv, NEW t \in Threads, PushStore(t) \/ CallerFills(t)
  PROVE  IInv'
<1>. USE QueueAssumption
<1>1. /\ pc[t] \in {"push_store", "fill"}
      /\ slot' = [slot EXCEPT ![claimed[t][1]][claimed[t][2]] = arg[t]]
      /\ UNCHANGED <<mutex, listVars, count, page, arg, claimed>>
      /\ \E x \in Values \cup {NoItem} \cup BOOLEAN : result' = [result EXCEPT ![t] = x]
  BY DEF PushStore, CallerFills, Goto
<1>2. arg[t] \in Values /\ claimed[t] \in Slots
  BY <1>1 DEF IInv, PushesReady, PushSteps, Values
<1>3. PageTypes' /\ PagesAccountedFor' /\ QueueShape'
  BY <1>1, <1>2, StoreKeepsPages
<1>4. PICK to \in {"unlock", "return"} :
        /\ pc' = [pc EXCEPT ![t] = to]
        /\ InCriticalSection(t) <=> to = "unlock"
  BY DEF PushStore, CallerFills, Goto, InCriticalSection
<1>5. TypeOK /\ PushesReady /\ MutexHeld /\ to \in PcTypes
  BY DEF IInv, PcTypes
<1>6. MutexHeld'
  BY <1>1, <1>4, <1>5, MutexStays
<1>7. CallTypes' /\ PushesReady'
  <2>1. mutex' \in Threads \cup {NoThread}
    BY <1>1, <1>5 DEF TypeOK
  <2>. QED
    BY <1>1, <1>4, <1>5, <2>1, CallSteps DEF PushSteps
<1>. QED
  BY <1>3, <1>6, <1>7, TypeParts DEF IInv, TypeOK, PageTypes, CallTypes, PcTypes

(* The oldest item is taken, if there is one. *)
LEMMA PopStep ==
  ASSUME IInv, NEW t \in Threads, PopTake(t)
  PROVE  IInv'
<1>. USE QueueAssumption
<1>1. PageTypes' /\ PagesAccountedFor' /\ QueueShape'
  <2>1. CASE /\ count > 0 /\ count' = count - 1
             /\ page[head].count = 1 /\ head # tail
             /\ head' = page[head].next
             /\ page' = PopFromPage(head, firstFree)
             /\ firstFree' = head
             /\ live' = Tail(live)
             /\ free' = <<head>> \o free
    BY <2>1, PopRetires DEF IInv, PopTake
  <2>2. CASE /\ count > 0 /\ count' = count - 1
             /\ ~ (page[head].count = 1 /\ head # tail)
             /\ page' = PopFromPage(head, page[head].next)
             /\ UNCHANGED <<head, firstFree, live, free>>
    BY <2>2, PopStays DEF IInv, PopTake, listVars
  <2>3. CASE UNCHANGED <<head, firstFree, live, free, count, page>>
    BY <2>3, PagesStay DEF PopTake, queueVars, listVars
  <2>. QED
    BY <2>1, <2>2, <2>3 DEF PopTake
<1>2. /\ pc' = [pc EXCEPT ![t] = "unlock"] /\ InCriticalSection(t)
      /\ UNCHANGED <<mutex, arg, claimed>>
  BY DEF PopTake, Goto, InCriticalSection
<1>3. TypeOK /\ PushesReady /\ MutexHeld /\ "unlock" \in PcTypes
  BY DEF IInv, PcTypes
<1>4. MutexHeld'
  BY <1>2, <1>3, MutexStays
<1>5. \E x \in Values \cup {NoItem} \cup BOOLEAN : result' = [result EXCEPT ![t] = x]
  <2>1. head \in Pages /\ HeadIndex(head) \in Indices
    BY <1>3, CapacityAssumption DEF TypeOK, HeadIndex, Indices
  <2>2. slot[head][HeadIndex(head)] \in Values
    BY <2>1, <1>3 DEF TypeOK
  <2>. QED
    BY <2>2 DEF PopTake
<1>6. CallTypes' /\ PushesReady'
  <2>1. mutex' \in Threads \cup {NoThread}
    BY <1>2, <1>3 DEF TypeOK
  <2>. QED
    BY <1>2, <1>3, <1>5, <2>1, CallSteps DEF PushSteps
<1>. QED
  BY <1>1, <1>4, <1>6, TypeParts DEF IInv, TypeOK, PageTypes, CallTypes, PcTypes

LEMMA NextIInv == IInv /\ [Next]_vars => IInv'
<1>. SUFFICES ASSUME IInv, [Next]_vars PROVE IInv'
  OBVIOUS
<1>1. CASE Next
  <2>1. PICK t \in Threads : QueueStep(t) \/ PushEmptyStep(t)
    BY <1>1 DEF Next
  <2>. QED
    BY <2>1, OutsideSteps, AcquireStep, UnlockStep, ClaimStep, StoreStep, PopStep
    DEF QueueStep, PushEmptyStep
<1>2. CASE UNCHANGED vars
  <2>1. PageTypes' /\ PagesAccountedFor' /\ QueueShape'
    BY <1>2, PagesStay DEF vars, queueVars, listVars
  <2>2. CallTypes' /\ MutexHeld' /\ PushesReady'
    BY <1>2, TypeParts DEF IInv, CallTypes, MutexHeld, InCriticalSection, PushesReady, vars
  <2>. QED
    BY <2>1, <2>2, TypeParts DEF IInv, TypeOK, PageTypes, CallTypes, PcTypes
<1>. QED
  BY <1>1, <1>2

LEMMA Invariance == Spec => []IInv
BY InitIInv, NextIInv, PTL DEF Spec

---------------------------------------------------------------------------
(* The variables of the queue keep their types, its indices stay below the *)
(* page capacity and its links point to pages (SyncQueue, 2484-2693).      *)
THEOREM TypeCorrect == Spec => []TypeOK
<1>1. IInv => TypeOK
  BY DEF IInv
<1>. QED
  BY <1>1, Invariance, PTL

(* TryPop's retirement and AllocPage's reuse never lose, share or misplace *)
(* a page.                                                                 *)
THEOREM NoPageLost == Spec => []PagesAccountedFor
<1>1. IInv => PagesAccountedFor
  BY DEF IInv
<1>. QED
  BY <1>1, Invariance, PTL

(* Items sit where TryPop takes them from, and the count that TryPop reads *)
(* without the mutex is their number.                                      *)
THEOREM ShapeKept == Spec => []QueueShape
<1>1. IInv => QueueShape
  BY DEF IInv
<1>. QED
  BY <1>1, Invariance, PTL

---------------------------------------------------------------------------
(* How much memory the queue takes: what the pushes that are on their way  *)
(* leave of MaxItems, and that a page is new only when there is no other.  *)
Budget ==
  /\ IsFiniteSet(Pushing) /\ count + Cardinality(Pushing) <= MaxItems
  /\ IsFiniteSet(Pages \ heap) /\ MemoryBounded

ToSlot == {"push", "pushempty", "push_claim", "pushempty_claim"}

(* A step of thread t that leaves the pushes, or stays where it was, makes *)
(* room for the items it adds.                                             *)
LEMMA PushingMoves ==
  ASSUME TypeOK, Budget, NEW t \in Threads, NEW to \in PcTypes, pc' = [pc EXCEPT ![t] = to],
         NEW n \in Int, count' = n,
         /\ to \in ToSlot => pc[t] \in ToSlot /\ n <= count
         /\ to \notin ToSlot => n <= count + (IF pc[t] \in ToSlot THEN 1 ELSE 0)
  PROVE  IsFiniteSet(Pushing') /\ count' + Cardinality(Pushing') <= MaxItems
<1>1. /\ \A u: u # t => (u \in Pushing <=> u \in Pushing')
      /\ t \in Pushing <=> pc[t] \in ToSlot
      /\ t \in Pushing' <=> to \in ToSlot
  BY DEF TypeOK, Pushing, ToSlot
<1>2. /\ IsFiniteSet(Pushing')
      /\ Cardinality(Pushing) \in Nat /\ Cardinality(Pushing') \in Nat
      /\ t \in Pushing /\ t \in Pushing' => Cardinality(Pushing') = Cardinality(Pushing)
      /\ t \notin Pushing /\ t \notin Pushing' => Cardinality(Pushing') = Cardinality(Pushing)
      /\ t \in Pushing /\ t \notin Pushing' => Cardinality(Pushing') = Cardinality(Pushing) - 1
  BY <1>1, CountMoves DEF Budget
<1>3. count \in Int /\ MaxItems \in Nat /\ count + Cardinality(Pushing) <= MaxItems
  BY QueueAssumption DEF TypeOK, Budget
<1>. QED
  BY <1>1, <1>2, <1>3

(* A push begins. *)
LEMMA PushingBegins ==
  ASSUME TypeOK, Budget, NEW t \in Threads, NEW to \in ToSlot, pc' = [pc EXCEPT ![t] = to],
         pc[t] \notin ToSlot, count' = count, count + Cardinality(Pushing) < MaxItems
  PROVE  IsFiniteSet(Pushing') /\ count' + Cardinality(Pushing') <= MaxItems
<1>1. /\ \A u: u # t => (u \in Pushing <=> u \in Pushing')
      /\ t \notin Pushing /\ t \in Pushing'
  BY DEF TypeOK, Pushing, ToSlot
<1>2. /\ IsFiniteSet(Pushing')
      /\ Cardinality(Pushing) \in Nat /\ Cardinality(Pushing') = Cardinality(Pushing) + 1
  BY <1>1, CountMoves DEF Budget
<1>3. count \in Int /\ MaxItems \in Nat
  BY QueueAssumption DEF TypeOK
<1>. QED
  BY <1>2, <1>3

(* The pages in the queue, when a new one is asked for, with a full tail.  *)
LEMMA PagesFull ==
  ASSUME TypeOK, QueueShape, PagesAccountedFor, page[tail].count >= PageCapacity
  PROVE  Len(live) \in Nat \ {0} /\ count >= 1 + (Len(live) - 1) * PageCapacity
<1>. USE CapacityAssumption
<1>1. /\ Len(live) \in Nat /\ Len(live) >= 1 /\ head = live[1] /\ tail = live[Len(live)]
      /\ head \in Pages /\ tail \in Pages /\ page[head].count \in Int
  BY LiveFacts DEF TypeOK
<1>2. page[tail].count = PageCapacity
  BY <1>1 DEF QueueShape
<1>3. CASE Len(live) = 1
  BY <1>1, <1>2, <1>3 DEF QueueShape
<1>4. CASE Len(live) # 1
  <2>1. page[head].count >= 1
    BY <1>1, <1>4 DEF QueueShape
  <2>2. count = page[head].count + (Len(live) - 2) * PageCapacity + PageCapacity
    BY <1>2, <1>4 DEF QueueShape
  <2>3. (Len(live) - 2) * PageCapacity + PageCapacity = (Len(live) - 1) * PageCapacity
    BY <1>1
  <2>. QED
    BY <1>1, <2>1, <2>2, <2>3
<1>. QED
  BY <1>3, <1>4

(* Every page in use is in the queue then. *)
LEMMA PagesInQueue ==
  ASSUME TypeOK, PagesAccountedFor, firstFree = NoPage
  PROVE  IsFiniteSet(Pages \ heap) /\ Cardinality(Pages \ heap) <= Len(live)
<1>1. Len(live) \in Nat /\ free = <<>>
  BY LiveFacts, FreeFacts
<1>2. Pages \ heap = {live[n]: n \in 1..Len(live)}
  BY <1>1, LiveFacts DEF PagesAccountedFor
<1>3. IsFiniteSet(1..Len(live)) /\ Cardinality(1..Len(live)) = Len(live)
  <2>1. 1 \in Int /\ Len(live) \in Int /\ Len(live) >= 1
    BY LiveFacts
  <2>2. /\ IsFiniteSet(1..Len(live))
        /\ Cardinality(1..Len(live)) = IF 1 > Len(live) THEN 0 ELSE Len(live)-1+1
    BY <2>1, FS_Interval, Zenon
  <2>. QED
    BY <2>1, <2>2
<1>4. [n \in 1..Len(live) |-> live[n]] \in Surjection(1..Len(live), Pages \ heap)
  BY <1>2 DEF Surjection
<1>. QED
  BY <1>1, <1>3, <1>4, FS_Surjection

(* So many items need the pages there are, and one more. *)
LEMMA NeedsPage ==
  ASSUME NEW n \in Nat \ {0}, MaxItems >= 2 + (n - 1) * PageCapacity
  PROVE  n + 1 <= PagesNeeded
<1>0. PageCapacity \in Nat \ {0} /\ MaxItems \in Nat
  BY CapacityAssumption, QueueAssumption
<1>1. (n - 1) * PageCapacity \in Nat
  <2>1. \A i, j \in Nat : i * j \in Nat
    OBVIOUS
  <2>2. n - 1 \in Nat
    OBVIOUS
  <2>. QED
    BY <1>0, <2>1, <2>2
<1>2. MaxItems - 2 \in Nat /\ ~ MaxItems < 2
  <2>. DEFINE m == (n - 1) * PageCapacity
  <2>1. m \in Nat /\ MaxItems >= 2 + m
    BY <1>1
  <2>. HIDE DEF m
  <2>. QED
    BY <1>0, <2>1
<1>3. (MaxItems - 2) \div PageCapacity >= n - 1
  <2>. DEFINE q == (MaxItems - 2) \div PageCapacity
              r == (MaxItems - 2) % PageCapacity
  <2>1. /\ q \in Int /\ r \in 0..PageCapacity-1
        /\ MaxItems - 2 = PageCapacity * q + r
    BY <1>0, <1>2
  <2>. HIDE DEF q, r
  <2>2. ASSUME q < n - 1 PROVE FALSE
    <3>1. PageCapacity * q + PageCapacity <= PageCapacity * (n - 1)
      <4>1. q + 1 <= n - 1
        BY <2>1, <2>2
      <4>2. PageCapacity * (q + 1) <= PageCapacity * (n - 1)
        BY <1>0, <4>1, <2>1
      <4>3. PageCapacity * (q + 1) = PageCapacity * q + PageCapacity
        BY <1>0, <2>1
      <4>. QED
        BY <4>2, <4>3
    <3>2. PageCapacity * q \in Int /\ PageCapacity * (n - 1) = (n - 1) * PageCapacity
      BY <1>0, <2>1
    <3>. QED
      BY <1>0, <2>1, <3>1, <3>2
  <2>3. q >= n - 1
    BY <2>1, <2>2
  <2>. QED
    BY <2>3 DEF q
<1>. QED
  BY <1>0, <1>2, <1>3 DEF PagesNeeded

(* A claim takes the place of a push among the items, and memory only when *)
(* nothing is free.                                                        *)
LEMMA ClaimKeepsBudget ==
  ASSUME IInv, Budget, NEW t \in Threads, PushClaim(t) \/ PushEmptyClaim(t)
  PROVE  Budget'
<1>. USE QueueAssumption
<1>1. PICK clear \in BOOLEAN : PushEmptyUnsafe(t, clear)
  BY DEF PushClaim, PushEmptyClaim
<1>2. PICK to \in {"push_store", "unlock_fill"} : pc' = [pc EXCEPT ![t] = to] /\ pc[t] \in ToSlot
  BY DEF PushClaim, PushEmptyClaim, Goto, ToSlot
<1>3. count \in Int /\ count' = count + 1 /\ TypeOK
  BY <1>1 DEF PushEmptyUnsafe, ClaimSlot, IInv, TypeOK
<1>4. IsFiniteSet(Pushing') /\ count' + Cardinality(Pushing') <= MaxItems
  <2>1. /\ to \in PcTypes /\ to \notin ToSlot /\ count + 1 \in Int
        /\ count + 1 <= count + (IF pc[t] \in ToSlot THEN 1 ELSE 0)
    BY <1>2, <1>3 DEF PcTypes, ToSlot
  <2>. QED
    BY <1>2, <1>3, <2>1, PushingMoves
<1>5. CASE heap' = heap
  BY <1>4, <1>5 DEF Budget, MemoryBounded
<1>6. CASE heap' # heap
  <2>1. PICK p \in heap : firstFree = NoPage /\ heap' = heap \ {p} /\ page[tail].count >= PageCapacity
    BY <1>1, <1>6 DEF PushEmptyUnsafe, AllocPage, listVars
  <2>2. /\ Len(live) \in Nat \ {0} /\ count >= 1 + (Len(live) - 1) * PageCapacity
        /\ IsFiniteSet(Pages \ heap) /\ Cardinality(Pages \ heap) <= Len(live)
    BY <2>1, PagesFull, PagesInQueue DEF IInv
  <2>3. count + 1 <= MaxItems
    <3>1. t \in Pushing
      BY <1>2 DEF Pushing, ToSlot
    <3>2. Cardinality(Pushing) \in Nat /\ Cardinality(Pushing) # 0
      BY <3>1, CountMembers DEF Budget
    <3>. QED
      BY <1>3, <3>2 DEF Budget
  <2>4. Len(live) + 1 <= PagesNeeded
    <3>1. (Len(live) - 1) * PageCapacity \in Int
      BY <2>2, CapacityAssumption
    <3>2. MaxItems >= 2 + (Len(live) - 1) * PageCapacity
      BY <1>3, <2>2, <2>3, <3>1
    <3>. QED
      BY <2>2, <3>2, NeedsPage
  <2>5. Pages \ heap' = (Pages \ heap) \cup {p} /\ p \notin Pages \ heap
    BY <2>1 DEF IInv, TypeOK
  <2>6. /\ IsFiniteSet(Pages \ heap')
        /\ Cardinality(Pages \ heap') = Cardinality(Pages \ heap) + 1
    BY <2>2, <2>5, FS_AddElement
  <2>7. Cardinality(Pages \ heap) \in Nat /\ PagesNeeded \in Int
    BY <2>2, FS_CardinalityType, CapacityAssumption DEF PagesNeeded
  <2>. QED
    BY <1>4, <2>2, <2>4, <2>6, <2>7 DEF Budget, MemoryBounded, PagesNeeded
<1>. QED
  BY <1>5, <1>6

(* The other steps ask for no memory. *)
LEMMA OthersKeepBudget ==
  ASSUME IInv, Budget, NEW t \in Threads,
         \/ \E x \in Items : CallPush(t, x) \/ CallPushEmpty(t, x) \/ CallFind(t, x)
         \/ CallTryPop(t) \/ PeekCount(t) \/ FindScan(t) \/ Return(t)
         \/ Acquire(t) \/ Unlock(t) \/ UnlockToFill(t)
         \/ PushStore(t) \/ CallerFills(t) \/ PopTake(t)
  PROVE  Budget'
<1>1. heap' = heap
  BY DEF CallPush, CallPushEmpty, CallFind, CallTryPop, PeekCount, FindScan, Return, Acquire,
         Unlock, UnlockToFill, Release, PushStore, CallerFills, PopTake, queueVars, listVars
<1>2. TypeOK /\ count \in Int
  BY DEF IInv, TypeOK
<1>3. IsFiniteSet(Pushing') /\ count' + Cardinality(Pushing') <= MaxItems
  <2>1. CASE \E x \in Items : CallPush(t, x) \/ CallPushEmpty(t, x)
    <3>1. PICK to \in {"push", "pushempty"} :
            /\ pc' = [pc EXCEPT ![t] = to] /\ pc[t] = "idle" /\ count' = count
            /\ count + Cardinality(Pushing) < MaxItems
      BY <2>1 DEF CallPush, CallPushEmpty, Goto, queueVars
    <3>2. to \in ToSlot /\ pc[t] \notin ToSlot
      BY <3>1 DEF ToSlot
    <3>. QED
      BY <1>2, <3>1, <3>2, PushingBegins
  <2>2. CASE Acquire(t)
    <3>1. /\ pc[t] \in {"push", "pushempty", "pop", "find"} /\ count' = count
          /\ pc' = [pc EXCEPT ![t] = AfterLock[pc[t]]]
      BY <2>2 DEF Acquire, AfterLock, Goto, queueVars
    <3>2. /\ AfterLock[pc[t]] \in PcTypes
          /\ pc[t] \in ToSlot <=> AfterLock[pc[t]] \in ToSlot
      <4>1. CASE pc[t] = "push"
        BY <4>1 DEF AfterLock, ToSlot, PcTypes
      <4>2. CASE pc[t] = "pushempty"
        BY <4>2 DEF AfterLock, ToSlot, PcTypes
      <4>3. CASE pc[t] = "pop"
        BY <4>3 DEF AfterLock, ToSlot, PcTypes
      <4>4. CASE pc[t] = "find"
        BY <4>4 DEF AfterLock, ToSlot, PcTypes
      <4>. QED
        BY <3>1, <4>1, <4>2, <4>3, <4>4
    <3>3. /\ AfterLock[pc[t]] \in ToSlot => pc[t] \in ToSlot /\ count <= count
          /\ AfterLock[pc[t]] \notin ToSlot => count <= count + (IF pc[t] \in ToSlot THEN 1 ELSE 0)
      BY <1>2, <3>2
    <3>4. PICK to \in PcTypes : to = AfterLock[pc[t]]
      BY <3>2
    <3>. QED
      BY <1>2, <3>1, <3>3, <3>4, PushingMoves
  <2>3. CASE PopTake(t)
    <3>1. /\ pc' = [pc EXCEPT ![t] = "unlock"] /\ pc[t] = "pop_take"
          /\ count' \in Int /\ count' <= count
      BY <1>2, <2>3 DEF PopTake, Goto
    <3>2. "unlock" \in PcTypes /\ "unlock" \notin ToSlot /\ pc[t] \notin ToSlot
      BY <3>1 DEF PcTypes, ToSlot
    <3>3. PICK n \in Int : count' = n /\ n <= count + (IF pc[t] \in ToSlot THEN 1 ELSE 0)
      BY <1>2, <3>1, <3>2
    <3>. QED
      BY <1>2, <3>1, <3>2, <3>3, PushingMoves
  <2>4. CASE \/ \E x \in Items : CallFind(t, x)
             \/ CallTryPop(t) \/ PeekCount(t) \/ FindScan(t) \/ Return(t)
             \/ Unlock(t) \/ UnlockToFill(t) \/ PushStore(t) \/ CallerFills(t)
    <3>1. PICK to \in PcTypes :
            /\ pc' = [pc EXCEPT ![t] = to] /\ count' = count
            /\ to \notin ToSlot /\ pc[t] \notin ToSlot
      BY <2>4 DEF CallFind, CallTryPop, PeekCount, FindScan, Return, Unlock, UnlockToFill,
                  Release, PushStore, CallerFills, Goto, queueVars, PcTypes, ToSlot
    <3>2. count <= count + (IF pc[t] \in ToSlot THEN 1 ELSE 0)
      BY <1>2
    <3>. QED
      BY <1>2, <3>1, <3>2, PushingMoves
  <2>. QED
    BY <2>1, <2>2, <2>3, <2>4
<1>. QED
  BY <1>1, <1>3 DEF Budget, MemoryBounded

LEMMA InitBudget == Init => Budget
<1>. SUFFICES ASSUME Init PROVE Budget
  OBVIOUS
<1>. USE CapacityAssumption, QueueAssumption
<1>1. Pushing = {} /\ count = 0
  BY DEF Init, Pushing
<1>2. IsFiniteSet(Pushing) /\ count + Cardinality(Pushing) <= MaxItems
  BY <1>1, FS_EmptySet
<1>3. Pages \ heap = {head}
  BY DEF Init
<1>4. IsFiniteSet(Pages \ heap) /\ Cardinality(Pages \ heap) = 1
  <2>1. IsFiniteSet({head}) /\ Cardinality({head}) = 1
    BY FS_Singleton
  <2>. QED
    BY <1>3, <2>1
<1>5. PagesNeeded >= 1
  <2>1. CASE MaxItems < 2
    BY <2>1 DEF PagesNeeded
  <2>2. CASE ~ MaxItems < 2
    <3>1. MaxItems >= 2 + (1 - 1) * PageCapacity
      BY <2>2
    <3>2. 1 + 1 <= PagesNeeded
      BY <3>1, NeedsPage
    <3>. QED
      BY <2>2, <3>2 DEF PagesNeeded
  <2>. QED
    BY <2>1, <2>2
<1>. QED
  BY <1>2, <1>4, <1>5 DEF Budget, MemoryBounded

LEMMA NextBudget == IInv /\ Budget /\ [Next]_vars => Budget'
<1>. SUFFICES ASSUME IInv, Budget, [Next]_vars PROVE Budget'
  OBVIOUS
<1>1. CASE Next
  <2>1. PICK t \in Threads : QueueStep(t) \/ PushEmptyStep(t)
    BY <1>1 DEF Next
  <2>. QED
    BY <2>1, ClaimKeepsBudget, OthersKeepBudget DEF QueueStep, PushEmptyStep
<1>2. CASE UNCHANGED vars
  BY <1>2 DEF vars, Budget, MemoryBounded, Pushing
<1>. QED
  BY <1>1, <1>2

(* The queue never takes more pages than its fullest moment needs: the     *)
(* pages that PopTake retires come back before AllocPage asks for memory   *)
(* (datatypes.h:2593-2600, 2678-2689).                                     *)
THEOREM MemoryStaysBounded == Spec => []MemoryBounded
<1>1. Budget => MemoryBounded
  BY DEF Budget
<1>. QED
  BY <1>1, InitBudget, NextBudget, Invariance, PTL DEF Spec

---------------------------------------------------------------------------
(* Concatenation, as a fact the provers need not search for.               *)
LEMMA Associative ==
  ASSUME NEW V, NEW s1 \in Seq(V), NEW s2 \in Seq(V), NEW s3 \in Seq(V)
  PROVE  (s1 \o s2) \o s3 = s1 \o (s2 \o s3)
BY ConcatAssociative

(* Element x leads the first few of two flattenings: g is f without it.    *)
Leads(x, f, g) == f = <<x>> \o g

(* It leads whatever follows, too. *)
LEMMA LeadsOn ==
  ASSUME NEW V, NEW x \in V, NEW f, NEW g \in Seq(V), Leads(x, f, g), NEW s \in Seq(V)
  PROVE  Leads(x, f \o s, g \o s)
<1>1. <<x>> \in Seq(V)
  OBVIOUS
<1>2. (<<x>> \o g) \o s = <<x>> \o (g \o s)
  BY <1>1, Associative
<1>. QED
  BY <1>2 DEF Leads

(* The first sequence has one more element in front ... *)
LEMMA FlattenFirst ==
  ASSUME NEW V, NEW n \in Nat \ {0}, NEW ss, NEW tt, NEW x \in V, Len(ss) = n, Len(tt) = n,
         AllSeqs(tt, V, n), Leads(x, ss[1], tt[1]), \A i \in 2..n : ss[i] = tt[i]
  PROVE  Leads(x, FlattenSeq(ss), FlattenSeq(tt))
<1>1. PICK F : Flattens(F, ss, n) /\ FlattenSeq(ss) = F[n]
  BY FlattenIs
<1>2. PICK G : Flattens(G, tt, n) /\ FlattenSeq(tt) = G[n]
  BY FlattenIs
<1>3. \A i \in 1..n : /\ F[i] = IF i = 1 THEN ss[i] ELSE F[i-1] \o ss[i]
                      /\ G[i] = IF i = 1 THEN tt[i] ELSE G[i-1] \o tt[i]
  BY <1>1, <1>2 DEF Flattens
<1>4. \A i \in 1..n : G[i] \in Seq(V) /\ tt[i] \in Seq(V)
  <2>1. AllSeqs(G, V, n)
    BY <1>2, FlattensTypes
  <2>. QED
    BY <2>1 DEF AllSeqs
<1>. DEFINE S == {i \in 1..n : Leads(x, F[i], G[i])}
<1>5. n > 0 => 1 \in S
  BY <1>3
<1>6. ASSUME NEW i \in 1..n, i < n, Leads(x, F[i], G[i])
      PROVE  Leads(x, F[i+1], G[i+1])
  <2>1. i+1 \in 1..n /\ i+1 # 1 /\ (i+1)-1 = i /\ i+1 \in 2..n
    BY <1>6
  <2>2. F[i+1] = F[i] \o tt[i+1] /\ G[i+1] = G[i] \o tt[i+1]
    BY <1>3, <2>1
  <2>3. Leads(x, F[i] \o tt[i+1], G[i] \o tt[i+1])
    BY <1>4, <1>6, <2>1, LeadsOn
  <2>. QED
    BY <2>2, <2>3
<1>7. \A i \in 1..n : i \in S
  <2>1. \A i \in 1..n : i < n /\ i \in S => i+1 \in S
    BY <1>6
  <2>. HIDE DEF S
  <2>. QED
    BY <1>5, <2>1, CountingUp
<1>. QED
  BY <1>1, <1>2, <1>7

(* ... and is nothing else. *)
LEMMA FlattenDrop ==
  ASSUME NEW V, NEW n \in Nat \ {0}, NEW ss, NEW tt, NEW x \in V, Len(ss) = n+1, Len(tt) = n,
         AllSeqs(tt, V, n), ss[1] = <<x>>, \A i \in 1..n : ss[i+1] = tt[i]
  PROVE  Leads(x, FlattenSeq(ss), FlattenSeq(tt))
<1>0. n+1 \in Nat \ {0}
  OBVIOUS
<1>1. PICK F : Flattens(F, ss, n+1) /\ FlattenSeq(ss) = F[n+1]
  BY <1>0, FlattenIs
<1>2. PICK G : Flattens(G, tt, n) /\ FlattenSeq(tt) = G[n]
  BY FlattenIs
<1>3. /\ \A i \in 1..n+1 : F[i] = IF i = 1 THEN ss[i] ELSE F[i-1] \o ss[i]
      /\ \A i \in 1..n : G[i] = IF i = 1 THEN tt[i] ELSE G[i-1] \o tt[i]
  BY <1>1, <1>2 DEF Flattens
<1>4. \A i \in 1..n : G[i] \in Seq(V) /\ tt[i] \in Seq(V)
  <2>1. AllSeqs(G, V, n)
    BY <1>2, FlattensTypes
  <2>. QED
    BY <2>1 DEF AllSeqs
<1>5. ASSUME NEW i \in 1..n
      PROVE  F[i+1] = F[i] \o tt[i]
  <2>1. i+1 \in 1..n+1 /\ i+1 # 1 /\ (i+1)-1 = i
    OBVIOUS
  <2>. QED
    BY <1>3, <2>1
<1>. DEFINE S == {i \in 1..n : Leads(x, F[i+1], G[i])}
<1>6. n > 0 => 1 \in S
  <2>1. 1 \in 1..n /\ 1 \in 1..n+1
    OBVIOUS
  <2>2. F[1] = <<x>> /\ G[1] = tt[1]
    BY <1>3, <2>1
  <2>3. Leads(x, F[1+1], G[1])
    BY <1>5, <2>1, <2>2 DEF Leads
  <2>. QED
    BY <2>1, <2>3
<1>7. ASSUME NEW i \in 1..n, i < n, Leads(x, F[i+1], G[i])
      PROVE  Leads(x, F[(i+1)+1], G[i+1])
  <2>1. i+1 \in 1..n /\ i+1 # 1 /\ (i+1)-1 = i
    BY <1>7
  <2>2. F[(i+1)+1] = F[i+1] \o tt[i+1] /\ G[i+1] = G[i] \o tt[i+1]
    BY <1>3, <1>5, <2>1
  <2>3. Leads(x, F[i+1] \o tt[i+1], G[i] \o tt[i+1])
    BY <1>4, <1>7, <2>1, LeadsOn
  <2>. QED
    BY <2>2, <2>3
<1>8. \A i \in 1..n : i \in S
  <2>1. \A i \in 1..n : i < n /\ i \in S => i+1 \in S
    BY <1>7
  <2>. HIDE DEF S
  <2>. QED
    BY <1>6, <2>1, CountingUp
<1>9. n \in 1..n
  OBVIOUS
<1>. QED
  BY <1>1, <1>2, <1>8, <1>9

---------------------------------------------------------------------------
(* Where the items of a page are: circular indices.                        *)

(* Where the i-th oldest item of a page is that has c items and e as its   *)
(* tail index.                                                             *)
At(e, c, i) == (((e - c) % PageCapacity) + i - 1) % PageCapacity

(* That is a number in range, and which one. *)
AtIs(e, c, i, x) == /\ x \in Indices
                    /\ x = IF e - c + i - 1 >= 0 THEN e - c + i - 1 ELSE e - c + i - 1 + PageCapacity

LEMMA WhereAt ==
  ASSUME NEW e \in Indices, NEW c \in 0..PageCapacity, NEW i \in 1..c
  PROVE  AtIs(e, c, i, At(e, c, i))
<1>. DEFINE h == (e - c) % PageCapacity
<1>0. PageCapacity \in Nat \ {0} /\ e \in 0..PageCapacity-1 /\ e \in Int /\ c \in Int /\ i \in Int
      /\ e - c \in Int /\ 1 <= i /\ i <= c /\ c <= PageCapacity
  BY CapacityAssumption DEF Indices
<1>1. h = IF e - c >= 0 THEN e - c ELSE e - c + PageCapacity
  <2>1. CASE e - c >= 0
    <3>1. e - c \in 0..PageCapacity-1
      BY <1>0, <2>1
    <3>. QED
      BY <1>0, <2>1, <3>1, Remainder
  <2>2. CASE e - c < 0
    <3>1. e - c \in (-PageCapacity)..(-1)
      BY <1>0, <2>2
    <3>2. (e - c) % PageCapacity = (e - c) + PageCapacity
      BY <1>0, <3>1, Remainder
    <3>. QED
      BY <1>0, <2>2, <3>2
  <2>. QED
    BY <1>0, <2>1, <2>2
<1>2. At(e, c, i) = (h + i - 1) % PageCapacity
  BY DEF At
<1>. HIDE DEF h
<1>3. h + i - 1 \in Int /\ h \in Int
  BY <1>0, <1>1
<1>4. CASE h + i - 1 < PageCapacity
  <2>1. h + i - 1 \in 0..PageCapacity-1
    BY <1>0, <1>1, <1>4
  <2>2. At(e, c, i) = h + i - 1
    BY <1>0, <1>2, <1>3, <2>1, Remainder
  <2>. QED
    BY <1>0, <1>1, <1>4, <2>1, <2>2 DEF AtIs, Indices
<1>5. CASE ~ h + i - 1 < PageCapacity
  <2>1. h + i - 1 \in PageCapacity..2*PageCapacity-1
    BY <1>0, <1>1, <1>5
  <2>2. At(e, c, i) = h + i - 1 - PageCapacity
    <3>1. (h + i - 1) % PageCapacity = (h + i - 1) - PageCapacity
      BY <1>0, <1>3, <2>1, Remainder
    <3>. QED
      BY <1>0, <1>2, <1>3, <3>1
  <2>. QED
    BY <1>0, <1>1, <1>5, <2>1, <2>2 DEF AtIs, Indices
<1>. QED
  BY <1>4, <1>5

(* The index after e. *)
Next1(e) == (e + 1) % PageCapacity

LEMMA NextIs ==
  ASSUME NEW e \in Indices
  PROVE  Next1(e) \in Indices /\ Next1(e) = IF e + 1 = PageCapacity THEN 0 ELSE e + 1
<1>0. PageCapacity \in Nat \ {0} /\ e \in 0..PageCapacity-1 /\ e + 1 \in Int
  BY CapacityAssumption DEF Indices
<1>1. CASE e + 1 = PageCapacity
  <2>1. e + 1 \in PageCapacity..2*PageCapacity-1
    BY <1>0, <1>1
  <2>. QED
    BY <1>0, <1>1, <2>1, Remainder DEF Next1, Indices
<1>2. CASE e + 1 # PageCapacity
  <2>1. e + 1 \in 0..PageCapacity-1
    BY <1>0, <1>2
  <2>. QED
    BY <1>0, <1>2, <2>1, Remainder DEF Next1, Indices
<1>. QED
  BY <1>1, <1>2

(* Of a page that gains an item at its tail index the others stay where    *)
(* they are ...                                                            *)
LEMMA AtAfterPush ==
  ASSUME NEW e \in Indices, NEW c \in 0..PageCapacity, c < PageCapacity
  PROVE  /\ \A i \in 1..c : At(Next1(e), c+1, i) = At(e, c, i)
         /\ At(Next1(e), c+1, c+1) = e
<1>0. /\ PageCapacity \in Nat \ {0} /\ e \in 0..PageCapacity-1 /\ e \in Int /\ c \in Nat
      /\ c+1 \in 0..PageCapacity /\ c+1 \in 1..(c+1)
  BY CapacityAssumption DEF Indices
<1>. DEFINE e2 == Next1(e)
<1>1. e2 \in Indices /\ e2 = IF e + 1 = PageCapacity THEN 0 ELSE e + 1
  BY NextIs
<1>. HIDE DEF e2
<1>2. ASSUME NEW i \in 1..c PROVE At(e2, c+1, i) = At(e, c, i)
  <2>0. i \in 1..(c+1) /\ i \in Int /\ 1 <= i /\ i <= c
    BY <1>0
  <2>1. AtIs(e, c, i, At(e, c, i))
    BY WhereAt
  <2>2. AtIs(e2, c+1, i, At(e2, c+1, i))
    BY <1>0, <1>1, <2>0, WhereAt
  <2>. DEFINE x == At(e, c, i)
              y == At(e2, c+1, i)
  <2>3. AtIs(e, c, i, x) /\ AtIs(e2, c+1, i, y)
    BY <2>1, <2>2
  <2>. HIDE DEF x, y
  <2>4. x = y
    BY <1>0, <1>1, <2>0, <2>3 DEF AtIs, Indices
  <2>. QED
    BY <2>4 DEF x, y
<1>3. At(e2, c+1, c+1) = e
  <2>2. AtIs(e2, c+1, c+1, At(e2, c+1, c+1))
    BY <1>0, <1>1, WhereAt
  <2>. DEFINE y == At(e2, c+1, c+1)
  <2>3. AtIs(e2, c+1, c+1, y)
    BY <2>2
  <2>. HIDE DEF y
  <2>4. y = e
    BY <1>0, <1>1, <2>3 DEF AtIs, Indices
  <2>. QED
    BY <2>4 DEF y
<1>. QED
  BY <1>2, <1>3 DEF e2

(* ... and of one that loses its oldest they do too. *)
LEMMA AtAfterPop ==
  ASSUME NEW e \in Indices, NEW c \in 0..PageCapacity, NEW i \in 1..(c-1)
  PROVE  At(e, c-1, i) = At(e, c, i+1)
<1>0. /\ PageCapacity \in Nat \ {0} /\ e \in 0..PageCapacity-1 /\ e \in Int /\ c \in Nat /\ i \in Int /\ 1 <= i
      /\ c-1 \in 0..PageCapacity /\ i+1 \in 1..c /\ c-1 \in Int
  BY CapacityAssumption DEF Indices
<1>1. AtIs(e, c-1, i, At(e, c-1, i))
  BY <1>0, WhereAt
<1>2. AtIs(e, c, i+1, At(e, c, i+1))
  BY <1>0, WhereAt
<1>. DEFINE x == At(e, c-1, i)
            y == At(e, c, i+1)
<1>3. AtIs(e, c-1, i, x) /\ AtIs(e, c, i+1, y)
  BY <1>1, <1>2
<1>. HIDE DEF x, y
<1>4. x = y
  BY <1>0, <1>3 DEF AtIs, Indices
<1>. QED
  BY <1>4 DEF x, y

(* HeadIndex is where the oldest item is. *)
LEMMA AtOldest ==
  ASSUME NEW e \in Indices, NEW c \in 1..PageCapacity
  PROVE  (e - c) % PageCapacity = At(e, c, 1)
<1>0. /\ PageCapacity \in Nat \ {0} /\ e \in 0..PageCapacity-1 /\ e \in Int /\ c \in Nat /\ e - c \in Int
  BY CapacityAssumption DEF Indices
<1>. DEFINE h == (e - c) % PageCapacity
<1>1. h \in 0..PageCapacity-1 /\ h \in Int
  BY <1>0
<1>2. At(e, c, 1) = (h + 1 - 1) % PageCapacity
  BY DEF At
<1>. HIDE DEF h
<1>3. h + 1 - 1 = h
  BY <1>1
<1>4. h % PageCapacity = h
  BY <1>0, <1>1, Remainder
<1>. QED
  BY <1>2, <1>3, <1>4 DEF h

(* No two items are in the same place. *)
LEMMA AtDiffers ==
  ASSUME NEW e \in Indices, NEW c \in 0..PageCapacity, NEW i \in 1..c, NEW j \in 1..c, i # j
  PROVE  At(e, c, i) # At(e, c, j)
<1>0. /\ PageCapacity \in Nat \ {0} /\ e \in 0..PageCapacity-1 /\ e \in Int /\ c \in Nat /\ i \in Int /\ j \in Int
      /\ c <= PageCapacity /\ 1 <= i /\ i <= c /\ 1 <= j /\ j <= c
  BY CapacityAssumption DEF Indices
<1>. DEFINE x == At(e, c, i)
            y == At(e, c, j)
<1>3. AtIs(e, c, i, x) /\ AtIs(e, c, j, y)
  BY WhereAt
<1>. HIDE DEF x, y
<1>4. x # y
  BY <1>0, <1>3 DEF AtIs, Indices
<1>. QED
  BY <1>4 DEF x, y

---------------------------------------------------------------------------
(* What the pages of the queue hold.                                       *)

(* The items of page p, oldest first, for any headers and contents of the  *)
(* pages; and those of all pages of a list.                                *)
ItemsOf(pg, sl, p) ==
  [i \in 1..pg[p].count |-> sl[p][At(pg[p].onePastTailIndex, pg[p].count, i)]]

Pieces(pg, sl, lv) == [n \in 1..Len(lv) |-> ItemsOf(pg, sl, lv[n])]
Held(pg, sl, lv)   == FlattenSeq(Pieces(pg, sl, lv))

(* PageItems of the module is that, with the headers and contents there are. *)
LEMMA PageItemsAre ==
  ASSUME NEW p
  PROVE  PageItems(p) = ItemsOf(page, slot, p)
BY DEF PageItems, ItemsOf, HeadIndex, At

(* The steps along the next pointers from page p. *)
Steps(f, p) ==
  f = [n \in 0..Cardinality(Pages) |->
         IF n = 0 THEN p
         ELSE LET q == f[n-1] IN IF q = NoPage THEN NoPage ELSE page[q].next]

(* The queue is no longer than there are pages. *)
LEMMA LiveFits ==
  ASSUME TypeOK, PagesAccountedFor
  PROVE  Cardinality(Pages) \in Nat /\ Len(live) \in Nat /\ Len(live) <= Cardinality(Pages)
<1>1. IsFiniteSet(Pages) /\ Len(live) \in Nat
  BY QueueAssumption, LiveFacts
<1>2. Cardinality(1..Len(live)) = Len(live)
  <2>1. 1 \in Int /\ Len(live) \in Int /\ Len(live) >= 1
    BY LiveFacts
  <2>2. Cardinality(1..Len(live)) = IF 1 > Len(live) THEN 0 ELSE Len(live)-1+1
    BY <2>1, FS_Interval, Zenon
  <2>. QED
    BY <2>1, <2>2
<1>. DEFINE f == [n \in 1..Len(live) |-> live[n]]
<1>3. f \in Injection(1..Len(live), Pages)
  <2>1. f \in [1..Len(live) -> Pages]
    BY LiveFacts
  <2>2. \A m, n \in 1..Len(live) : f[m] = f[n] => m = n
    BY DEF PagesAccountedFor
  <2>. HIDE DEF f
  <2>. QED
    BY <2>1, <2>2 DEF Injection, IsInjective
<1>4. Cardinality(1..Len(live)) <= Cardinality(Pages)
  <2>. HIDE DEF f
  <2>. QED
    BY <1>1, <1>3, FS_Injection
<1>. QED
  BY <1>1, <1>2, <1>4, FS_CardinalityType

(* What the steps meet: the pages from head to tail, and nothing more.     *)
LEMMA StepsMeetLive ==
  ASSUME TypeOK, PagesAccountedFor, NEW f, Steps(f, head)
  PROVE  \A n \in 0..Cardinality(Pages) : f[n] = IF n < Len(live) THEN live[n+1] ELSE NoPage
<1>. DEFINE C == Cardinality(Pages)
            want(n) == IF n < Len(live) THEN live[n+1] ELSE NoPage
<1>1. C \in Nat /\ Len(live) \in Nat /\ Len(live) >= 1 /\ Len(live) <= C
  BY LiveFits, LiveFacts
<1>2. \A n \in 0..C : f[n] = IF n = 0 THEN head
                             ELSE IF f[n-1] = NoPage THEN NoPage ELSE page[f[n-1]].next
  BY DEF Steps
<1>3. /\ head = live[1] /\ NoPage \notin Pages
      /\ \A n \in 1..Len(live) : /\ live[n] \in Pages
                                 /\ page[live[n]].next = IF n = Len(live) THEN NoPage ELSE live[n+1]
  BY LiveFacts, QueueAssumption DEF PagesAccountedFor, Linked
<1>. HIDE DEF C
<1>. DEFINE S == {n \in 0..C : f[n] # want(n)}
<1>4. SUFFICES ASSUME S # {} PROVE FALSE
  BY DEF C
<1>5. PICK n \in S : \A m \in S : n <= m
  <2>1. S \in SUBSET Nat
    BY <1>1
  <2>. HIDE DEF S
  <2>. QED
    BY <1>4, <2>1, LeastNumber
<1>6. n \in 0..C /\ f[n] # want(n)
  BY <1>5
<1>7. CASE n = 0
  BY <1>1, <1>2, <1>3, <1>6, <1>7
<1>8. CASE n # 0
  <2>1. n-1 \in 0..C /\ n-1 \notin S /\ n \in Int /\ (n-1)+1 = n
    BY <1>1, <1>5, <1>6, <1>8
  <2>2. f[n-1] = want(n-1)
    BY <2>1
  <2>3. f[n] = IF f[n-1] = NoPage THEN NoPage ELSE page[f[n-1]].next
    BY <1>2, <1>6, <1>8
  <2>4. CASE n-1 < Len(live)
    <3>1. n \in 1..Len(live) /\ f[n-1] = live[n]
      BY <1>1, <1>6, <1>8, <2>1, <2>2, <2>4
    <3>2. f[n] = IF n = Len(live) THEN NoPage ELSE live[n+1]
      BY <1>3, <2>3, <3>1
    <3>. QED
      BY <1>1, <1>6, <2>1, <2>4, <3>2
  <2>5. CASE ~ n-1 < Len(live)
    BY <1>1, <1>6, <2>1, <2>2, <2>3, <2>5
  <2>. QED
    BY <2>4, <2>5
<1>. QED
  BY <1>7, <1>8

(* So ListFrom lists the pages of the queue. *)
LEMMA ListIsLive ==
  ASSUME TypeOK, PagesAccountedFor
  PROVE  ListFrom(head) = live
<1>. DEFINE C == Cardinality(Pages)
            W == [n \in 0..C |-> IF n < Len(live) THEN live[n+1] ELSE NoPage]
<1>1. C \in Nat /\ Len(live) \in Nat /\ Len(live) >= 1 /\ Len(live) <= C
  BY LiveFits, LiveFacts
<1>2. Steps(W, head)
  <2>1. /\ head = live[1] /\ NoPage \notin Pages
        /\ \A n \in 1..Len(live) : /\ live[n] \in Pages
                                   /\ page[live[n]].next = IF n = Len(live) THEN NoPage ELSE live[n+1]
    BY LiveFacts, QueueAssumption DEF PagesAccountedFor, Linked
  <2>2. ASSUME NEW n \in 0..C
        PROVE  W[n] = IF n = 0 THEN head
                      ELSE IF W[n-1] = NoPage THEN NoPage ELSE page[W[n-1]].next
    <3>1. CASE n = 0
      BY <1>1, <2>1, <3>1
    <3>2. CASE n # 0
      <4>1. n-1 \in 0..C /\ n \in Int /\ (n-1)+1 = n
        BY <1>1, <3>2
      <4>2. CASE n-1 < Len(live)
        <5>1. n \in 1..Len(live) /\ W[n-1] = live[n]
          BY <1>1, <3>2, <4>1, <4>2
        <5>2. live[n] # NoPage /\ page[live[n]].next = IF n = Len(live) THEN NoPage ELSE live[n+1]
          BY <2>1, <5>1
        <5>3. W[n] = IF n < Len(live) THEN live[n+1] ELSE NoPage
          OBVIOUS
        <5>. HIDE DEF W
        <5>. QED
          BY <1>1, <3>2, <5>1, <5>2, <5>3
      <4>3. CASE ~ n-1 < Len(live)
        BY <1>1, <3>2, <4>1, <4>3
      <4>. QED
        BY <4>2, <4>3
    <3>. QED
      BY <3>1, <3>2
  <2>3. W = [n \in 0..C |-> W[n]]
    OBVIOUS
  <2>. HIDE DEF W
  <2>. QED
    BY <2>2, <2>3 DEF Steps
<1>. DEFINE at == CHOOSE f : f = [n \in 0..C |->
                     IF n = 0 THEN head
                     ELSE LET q == f[n-1] IN IF q = NoPage THEN NoPage ELSE page[q].next]
            reached == {n \in 0..C : at[n] # NoPage}
<1>3. ListFrom(head) = [n \in 1..Cardinality(reached) |-> at[n-1]]
  BY DEF ListFrom
<1>4. Steps(at, head)
  <2>. HIDE DEF W
  <2>. QED
    BY <1>2 DEF Steps
<1>. HIDE DEF at
<1>5. \A n \in 0..C : at[n] = IF n < Len(live) THEN live[n+1] ELSE NoPage
  BY <1>4, StepsMeetLive
<1>6. reached = 0..Len(live)-1
  <2>1. \A n \in 1..Len(live) : live[n] \in Pages
    BY LiveFacts
  <2>. HIDE DEF C
  <2>. QED
    BY <1>1, <1>5, <2>1, QueueAssumption
<1>7. Cardinality(0..Len(live)-1) = Len(live)
  <2>1. 0 \in Int /\ Len(live)-1 \in Int /\ ~ 0 > Len(live)-1 /\ Len(live)-1-0+1 = Len(live)
    BY <1>1
  <2>2. Cardinality(0..Len(live)-1) = IF 0 > Len(live)-1 THEN 0 ELSE Len(live)-1-0+1
    BY <2>1, FS_Interval, Zenon
  <2>. QED
    BY <2>1, <2>2
<1>8. ListFrom(head) = [n \in 1..Len(live) |-> at[n-1]]
  BY <1>3, <1>6, <1>7
<1>9. \A n \in 1..Len(live) : at[n-1] = live[n]
  <2>1. ASSUME NEW n \in 1..Len(live) PROVE at[n-1] = live[n]
    <3>1. n-1 \in 0..C /\ n-1 < Len(live) /\ (n-1)+1 = n
      BY <1>1
    <3>. QED
      BY <1>5, <3>1
  <2>. QED
    BY <2>1
<1>10. live = [n \in 1..Len(live) |-> live[n]]
  BY DEF TypeOK
<1>. QED
  BY <1>8, <1>9, <1>10

(* What a scan sees is what the pages of the queue hold.                   *)
ContentsAreHeld == Contents = Held(page, slot, live)

LEMMA ContentsHeld == TypeOK /\ PagesAccountedFor => ContentsAreHeld
<1>. SUFFICES ASSUME TypeOK, PagesAccountedFor PROVE Contents = Held(page, slot, live)
  BY DEF ContentsAreHeld
<1>1. ListFrom(head) = live /\ DOMAIN live = 1..Len(live)
  BY ListIsLive DEF TypeOK
<1>2. Contents = FlattenSeq([n \in DOMAIN ListFrom(head) |-> PageItems(ListFrom(head)[n])])
  BY DEF Contents
<1>3. [n \in 1..Len(live) |-> PageItems(live[n])] = Pieces(page, slot, live)
  BY PageItemsAre DEF Pieces
<1>. QED
  BY <1>1, <1>2, <1>3 DEF Held

---------------------------------------------------------------------------
(* How it changes with a page.                                             *)

(* Pages and a list of them as the invariant describes them.               *)
Sound(pg, sl, lv) ==
  /\ Len(lv) \in Nat \ {0}
  /\ pg \in [Pages -> [next : Links, count : Int, onePastTailIndex : Indices]]
  /\ sl \in [Pages -> [Indices -> Values]]
  /\ \A n \in 1..Len(lv) : lv[n] \in Pages /\ pg[lv[n]].count \in 0..PageCapacity

(* Those of the queue are; the second lemma says so of the state after a   *)
(* step.                                                                   *)
SoundNow == Sound(page, slot, live)

LEMMA InvSound == IInv => SoundNow
<1>. SUFFICES ASSUME IInv PROVE SoundNow
  OBVIOUS
<1>1. Len(live) \in Nat \ {0} /\ \A n \in 1..Len(live) : live[n] \in Pages
  BY LiveFacts DEF IInv
<1>. QED
  BY <1>1 DEF IInv, SoundNow, Sound, QueueShape, TypeOK

LEMMA InvSoundNext == IInv' => SoundNow'
BY InvSound, PTL

(* What a page and a list of them holds are sequences of values. *)
LEMMA ItemsTyped ==
  ASSUME NEW pg, NEW sl, NEW lv, Sound(pg, sl, lv), NEW n \in 1..Len(lv)
  PROVE  /\ ItemsOf(pg, sl, lv[n]) \in Seq(Values)
         /\ Len(ItemsOf(pg, sl, lv[n])) = pg[lv[n]].count
<1>. DEFINE p == lv[n]
            e == pg[p].onePastTailIndex
            c == pg[p].count
<1>1. p \in Pages /\ c \in 0..PageCapacity /\ e \in Indices /\ c \in Nat /\ sl[p] \in [Indices -> Values]
  BY CapacityAssumption DEF Sound
<1>2. ItemsOf(pg, sl, p) = [i \in 1..c |-> sl[p][At(e, c, i)]]
  BY DEF ItemsOf
<1>. HIDE DEF p, e, c
<1>3. ASSUME NEW i \in 1..c PROVE sl[p][At(e, c, i)] \in Values
  <2>1. AtIs(e, c, i, At(e, c, i))
    BY <1>1, WhereAt
  <2>2. At(e, c, i) \in Indices
    BY <2>1 DEF AtIs
  <2>. QED
    BY <1>1, <2>2
<1>4. ItemsOf(pg, sl, p) \in [1..c -> Values]
  BY <1>2, <1>3
<1>5. ItemsOf(pg, sl, p) \in Seq(Values) /\ Len(ItemsOf(pg, sl, p)) = c
  BY <1>1, <1>4
<1>. QED
  BY <1>5 DEF p, c

(* The same of all pages of a list. *)
LEMMA PiecesTyped ==
  ASSUME NEW pg, NEW sl, NEW lv, Sound(pg, sl, lv)
  PROVE  /\ AllSeqs(Pieces(pg, sl, lv), Values, Len(lv))
         /\ Len(Pieces(pg, sl, lv)) = Len(lv) /\ Len(lv) \in Nat \ {0}
         /\ \A n \in 1..Len(lv) : Pieces(pg, sl, lv)[n] = ItemsOf(pg, sl, lv[n])
<1>1. Len(lv) \in Nat \ {0}
  BY DEF Sound
<1>2. \A n \in 1..Len(lv) : Pieces(pg, sl, lv)[n] = ItemsOf(pg, sl, lv[n])
  BY DEF Pieces
<1>3. \A n \in 1..Len(lv) : ItemsOf(pg, sl, lv[n]) \in Seq(Values)
  BY ItemsTyped
<1>4. Len(Pieces(pg, sl, lv)) = Len(lv)
  BY <1>1 DEF Pieces
<1>. QED
  BY <1>1, <1>2, <1>3, <1>4 DEF AllSeqs

(* Nothing of page p that a scan looks at has changed. *)
SamePage(pg, sl, pg2, sl2, p) ==
  /\ pg2[p].count = pg[p].count /\ pg2[p].onePastTailIndex = pg[p].onePastTailIndex
  /\ sl2[p] = sl[p]

(* Then it holds the same. *)
LEMMA SameItems ==
  ASSUME NEW pg, NEW sl, NEW pg2, NEW sl2, NEW p, SamePage(pg, sl, pg2, sl2, p)
  PROVE  ItemsOf(pg2, sl2, p) = ItemsOf(pg, sl, p)
BY DEF SamePage, ItemsOf

(* All pages but the last are the same. *)
SameButLast(pg, sl, pg2, sl2, lv) ==
  \A n \in 1..Len(lv) : n # Len(lv) => SamePage(pg, sl, pg2, sl2, lv[n])

(* Then what is held differs in its end only. *)
LEMMA HeldLast ==
  ASSUME NEW pg, NEW sl, NEW pg2, NEW sl2, NEW lv, Sound(pg, sl, lv), Sound(pg2, sl2, lv),
         SameButLast(pg, sl, pg2, sl2, lv)
  PROVE  ShareFront(Values, Held(pg, sl, lv), Held(pg2, sl2, lv),
                    ItemsOf(pg, sl, lv[Len(lv)]), ItemsOf(pg2, sl2, lv[Len(lv)]))
<1>. DEFINE m == Len(lv)
            ss == Pieces(pg, sl, lv)
            tt == Pieces(pg2, sl2, lv)
<1>1. /\ m \in Nat \ {0} /\ AllSeqs(ss, Values, m) /\ AllSeqs(tt, Values, m) /\ Len(ss) = m /\ Len(tt) = m
      /\ \A n \in 1..m : ss[n] = ItemsOf(pg, sl, lv[n]) /\ tt[n] = ItemsOf(pg2, sl2, lv[n])
  BY PiecesTyped
<1>2. Alike(ss, tt, m-1)
  <2>1. ASSUME NEW n \in 1..m-1 PROVE ss[n] = tt[n]
    <3>1. n \in 1..m /\ n # m
      BY <1>1
    <3>. QED
      BY <1>1, <3>1, SameItems DEF SameButLast
  <2>. HIDE DEF ss, tt, m
  <2>. QED
    BY <2>1 DEF Alike
<1>3. m \in 1..m
  BY <1>1
<1>. HIDE DEF ss, tt, m
<1>4. ShareFront(Values, FlattenSeq(ss), FlattenSeq(tt), ss[m], tt[m])
  BY <1>1, <1>2, FlattenLast
<1>. QED
  BY <1>1, <1>3, <1>4 DEF Held, ss, tt, m

(* All that is held is a sequence of values. *)
LEMMA HeldTyped ==
  ASSUME NEW pg, NEW sl, NEW lv, Sound(pg, sl, lv)
  PROVE  Held(pg, sl, lv) \in Seq(Values)
<1>1. SameButLast(pg, sl, pg, sl, lv)
  BY DEF SamePage, SameButLast
<1>2. PICK front \in Seq(Values) : Held(pg, sl, lv) = front \o ItemsOf(pg, sl, lv[Len(lv)])
  <2>1. ShareFront(Values, Held(pg, sl, lv), Held(pg, sl, lv),
                   ItemsOf(pg, sl, lv[Len(lv)]), ItemsOf(pg, sl, lv[Len(lv)]))
    BY <1>1, HeldLast
  <2>. QED
    BY <2>1 DEF ShareFront
<1>3. Len(lv) \in 1..Len(lv)
  BY DEF Sound
<1>4. ItemsOf(pg, sl, lv[Len(lv)]) \in Seq(Values)
  BY <1>3, ItemsTyped
<1>. QED
  BY <1>2, <1>4, ConcatProperties

(* Sequence t is s with x behind it. *)
Gains(x, s, t) == t = s \o <<x>>

(* It is behind whatever comes in front, too. *)
LEMMA GainsOn ==
  ASSUME NEW V, NEW x \in V, NEW s \in Seq(V), NEW t, NEW front \in Seq(V), Gains(x, s, t)
  PROVE  Gains(x, front \o s, front \o t)
<1>1. <<x>> \in Seq(V)
  OBVIOUS
<1>2. (front \o s) \o <<x>> = front \o (s \o <<x>>)
  BY <1>1, Associative
<1>. QED
  BY <1>2 DEF Gains

(* A page gains item x at its tail index. *)
Gained(pg, sl, pg2, sl2, p, x) ==
  /\ pg2[p].count = pg[p].count + 1
  /\ pg2[p].onePastTailIndex = Next1(pg[p].onePastTailIndex)
  /\ \A i \in Indices : sl2[p][i] = IF i = pg[p].onePastTailIndex THEN x ELSE sl[p][i]

(* So it is behind the others. *)
LEMMA ItemGained ==
  ASSUME NEW pg, NEW sl, NEW pg2, NEW sl2, NEW p, NEW x,
         pg[p].count \in 0..PageCapacity, pg[p].count < PageCapacity,
         pg[p].onePastTailIndex \in Indices,
         Gained(pg, sl, pg2, sl2, p, x)
  PROVE  Gains(x, ItemsOf(pg, sl, p), ItemsOf(pg2, sl2, p))
<1>. DEFINE e == pg[p].onePastTailIndex
            c == pg[p].count
<1>0. c \in 0..PageCapacity /\ c < PageCapacity /\ e \in Indices /\ c \in Nat /\ c+1 \in 0..PageCapacity
  BY CapacityAssumption
<1>1. /\ ItemsOf(pg, sl, p) = [i \in 1..c |-> sl[p][At(e, c, i)]]
      /\ ItemsOf(pg2, sl2, p) = [i \in 1..c+1 |-> sl2[p][At(Next1(e), c+1, i)]]
      /\ \A i \in Indices : sl2[p][i] = IF i = e THEN x ELSE sl[p][i]
  BY DEF ItemsOf, Gained
<1>. HIDE DEF e, c
<1>. DEFINE s == [i \in 1..c |-> sl[p][At(e, c, i)]]
            t == [i \in 1..c+1 |-> sl2[p][At(Next1(e), c+1, i)]]
<1>2. /\ \A i \in 1..c : At(Next1(e), c+1, i) = At(e, c, i)
      /\ At(Next1(e), c+1, c+1) = e
  BY <1>0, AtAfterPush
<1>3. \A i \in 1..c : At(e, c, i) \in Indices /\ At(e, c, i) # e
  <2>0. Next1(e) \in Indices /\ c+1 \in 1..c+1
    BY <1>0, NextIs
  <2>1. ASSUME NEW i \in 1..c PROVE At(e, c, i) \in Indices /\ At(e, c, i) # e
    <3>1. AtIs(e, c, i, At(e, c, i))
      BY <1>0, WhereAt
    <3>2. i \in 1..c+1 /\ i # c+1
      BY <1>0
    <3>3. At(Next1(e), c+1, i) # At(Next1(e), c+1, c+1)
      BY <1>0, <2>0, <3>2, AtDiffers
    <3>. QED
      BY <1>2, <3>1, <3>3 DEF AtIs
  <2>. QED
    BY <2>1
<1>4. \A i \in 1..c+1 : t[i] = IF i = c+1 THEN x ELSE s[i]
  <2>1. ASSUME NEW i \in 1..c+1 PROVE t[i] = IF i = c+1 THEN x ELSE s[i]
    <3>1. t[i] = sl2[p][At(Next1(e), c+1, i)]
      OBVIOUS
    <3>2. CASE i = c+1
      BY <1>0, <1>1, <1>2, <3>1, <3>2
    <3>3. CASE i # c+1
      <4>1. i \in 1..c /\ s[i] = sl[p][At(e, c, i)]
        BY <1>0, <3>3
      <4>. QED
        BY <1>1, <1>2, <1>3, <3>1, <3>3, <4>1
    <3>. QED
      BY <3>2, <3>3
  <2>. QED
    BY <2>1
<1>5. s = [i \in 1..c |-> s[i]] /\ t = [i \in 1..c+1 |-> t[i]]
  OBVIOUS
<1>. HIDE DEF s, t
<1>6. s \o <<x>> = t
  <2>1. Len(s) = c /\ Len(<<x>>) = 1 /\ s \o <<x>> = [i \in 1..Len(s) + Len(<<x>>) |-> IF i <= Len(s) THEN s[i] ELSE <<x>>[i - Len(s)]]
    BY <1>0, <1>5
  <2>2. \A i \in 1..c+1 : (s \o <<x>>)[i] = IF i = c+1 THEN x ELSE s[i]
    BY <1>0, <2>1
  <2>. DEFINE u == s \o <<x>>
  <2>3. u = [i \in 1..c+1 |-> u[i]]
    BY <1>0, <2>1
  <2>4. \A i \in 1..c+1 : u[i] = t[i]
    BY <1>4, <2>2
  <2>. HIDE DEF u
  <2>5. u = t
    BY <1>5, <2>3, <2>4
  <2>. QED
    BY <2>5 DEF u
<1>. QED
  BY <1>1, <1>6 DEF Gains, s, t

(* The tail page gains an item, and so does the queue. *)
LEMMA HeldGains ==
  ASSUME NEW pg, NEW sl, NEW pg2, NEW sl2, NEW lv, Sound(pg, sl, lv), Sound(pg2, sl2, lv),
         SameButLast(pg, sl, pg2, sl2, lv), NEW x \in Values,
         Gained(pg, sl, pg2, sl2, lv[Len(lv)], x), pg[lv[Len(lv)]].count < PageCapacity
  PROVE  Gains(x, Held(pg, sl, lv), Held(pg2, sl2, lv))
<1>. DEFINE p == lv[Len(lv)]
            s == ItemsOf(pg, sl, p)
            t == ItemsOf(pg2, sl2, p)
<1>1. Len(lv) \in 1..Len(lv) /\ p \in Pages /\ pg[p].count \in 0..PageCapacity /\ pg[p].onePastTailIndex \in Indices
  BY DEF Sound
<1>2. s \in Seq(Values)
  BY <1>1, ItemsTyped
<1>3. Gains(x, s, t)
  BY <1>1, ItemGained
<1>4. ShareFront(Values, Held(pg, sl, lv), Held(pg2, sl2, lv), s, t)
  BY HeldLast
<1>. HIDE DEF s, t
<1>5. PICK front \in Seq(Values) : Held(pg, sl, lv) = front \o s /\ Held(pg2, sl2, lv) = front \o t
  BY <1>4 DEF ShareFront
<1>6. Gains(x, front \o s, front \o t)
  BY <1>2, <1>3, GainsOn
<1>. QED
  BY <1>5, <1>6

(* A page with one item follows the tail page. *)
Extends(lv, lv2, p) ==
  /\ Len(lv2) = Len(lv) + 1 /\ lv2[Len(lv) + 1] = p
  /\ \A n \in 1..Len(lv) : lv2[n] = lv[n]

AllSame(pg, sl, pg2, sl2, lv) == \A n \in 1..Len(lv) : SamePage(pg, sl, pg2, sl2, lv[n])

OneItem(pg, sl, p, x) ==
  pg[p].count = 1 /\ pg[p].onePastTailIndex = Next1(0) /\ sl[p][0] = x

(* The queue gains that item. *)
LEMMA HeldGainsPage ==
  ASSUME NEW pg, NEW sl, NEW pg2, NEW sl2, NEW lv, NEW lv2, NEW p, NEW x,
         Sound(pg, sl, lv), Sound(pg2, sl2, lv2), Extends(lv, lv2, p),
         AllSame(pg, sl, pg2, sl2, lv), OneItem(pg2, sl2, p, x)
  PROVE  Gains(x, Held(pg, sl, lv), Held(pg2, sl2, lv2))
<1>. DEFINE m == Len(lv)
            ss == Pieces(pg, sl, lv)
            tt == Pieces(pg2, sl2, lv2)
<1>1. /\ m \in Nat \ {0} /\ Len(ss) = m /\ Len(tt) = m+1 /\ m+1 \in 1..m+1
      /\ \A n \in 1..m : ss[n] = ItemsOf(pg, sl, lv[n])
      /\ \A n \in 1..m+1 : tt[n] = ItemsOf(pg2, sl2, lv2[n])
  BY PiecesTyped DEF Extends
<1>2. Alike(ss, tt, m)
  <2>1. ASSUME NEW n \in 1..m PROVE ss[n] = tt[n]
    <3>1. n \in 1..m+1 /\ lv2[n] = lv[n] /\ SamePage(pg, sl, pg2, sl2, lv[n])
      BY <1>1 DEF AllSame, Extends
    <3>. QED
      BY <1>1, <3>1, SameItems
  <2>. HIDE DEF ss, tt, m
  <2>. QED
    BY <2>1 DEF Alike
<1>3. tt[m+1] = <<x>>
  <2>1. lv2[m+1] = p
    BY DEF Extends
  <2>2. ItemsOf(pg2, sl2, p) = [i \in 1..1 |-> sl2[p][At(Next1(0), 1, i)]]
    BY DEF ItemsOf, OneItem
  <2>3. At(Next1(0), 0+1, 0+1) = 0
    <3>1. 0 \in Indices /\ 0 \in 0..PageCapacity /\ 0 < PageCapacity
      BY CapacityAssumption DEF Indices
    <3>. QED
      BY <3>1, AtAfterPush
  <2>4. \A i \in 1..1 : sl2[p][At(Next1(0), 1, i)] = x
    BY <2>3 DEF OneItem
  <2>5. ItemsOf(pg2, sl2, p) = <<x>>
    BY <2>2, <2>4
  <2>. HIDE DEF ss, tt, m
  <2>. QED
    BY <1>1, <2>1, <2>5
<1>. HIDE DEF ss, tt, m
<1>4. FlattenSeq(tt) = FlattenSeq(ss) \o tt[m+1]
  BY <1>1, <1>2, FlattenMore
<1>. QED
  BY <1>3, <1>4 DEF Gains, Held, ss, tt

(* The newest item is written over. *)
Stored(pg, sl, pg2, sl2, p, x) ==
  /\ pg[p].count > 0 /\ pg2[p].count = pg[p].count
  /\ pg2[p].onePastTailIndex = pg[p].onePastTailIndex
  /\ \A i \in Indices :
       sl2[p][i] = IF i = At(pg[p].onePastTailIndex, pg[p].count, pg[p].count) THEN x ELSE sl[p][i]

(* The page then ends otherwise ... *)
LEMMA ItemStored ==
  ASSUME NEW pg, NEW sl, NEW pg2, NEW sl2, NEW lv, Sound(pg, sl, lv), NEW x \in Values,
         Stored(pg, sl, pg2, sl2, lv[Len(lv)], x)
  PROVE  \E q \in Seq(Values), v \in Values :
            /\ Gains(v, q, ItemsOf(pg, sl, lv[Len(lv)]))
            /\ Gains(x, q, ItemsOf(pg2, sl2, lv[Len(lv)]))
<1>. DEFINE p == lv[Len(lv)]
            e == pg[p].onePastTailIndex
            c == pg[p].count
            s == ItemsOf(pg, sl, p)
            t == ItemsOf(pg2, sl2, p)
<1>0. /\ Len(lv) \in 1..Len(lv) /\ p \in Pages
      /\ c \in 0..PageCapacity /\ c > 0 /\ c \in Nat /\ e \in Indices
  BY CapacityAssumption DEF Sound, Stored
<1>1. s \in Seq(Values) /\ Len(s) = c
  BY <1>0, ItemsTyped
<1>2. /\ s = [i \in 1..c |-> sl[p][At(e, c, i)]]
      /\ t = [i \in 1..c |-> sl2[p][At(e, c, i)]]
      /\ \A i \in Indices : sl2[p][i] = IF i = At(e, c, c) THEN x ELSE sl[p][i]
  BY DEF ItemsOf, Stored
<1>. HIDE DEF e, c, p
<1>3. \A i \in 1..c : At(e, c, i) \in Indices
  BY <1>0, WhereAt DEF AtIs
<1>4. \A i \in 1..c : i # c => At(e, c, i) # At(e, c, c)
  <2>1. c \in 1..c
    BY <1>0
  <2>. QED
    BY <1>0, <2>1, AtDiffers
<1>5. \A i \in 1..c : t[i] = IF i = c THEN x ELSE s[i]
  <2>. HIDE DEF s, t
  <2>. QED
    BY <1>0, <1>2, <1>3, <1>4
<1>6. s = [i \in 1..c |-> s[i]] /\ t = [i \in 1..c |-> t[i]]
  <2>. HIDE DEF s, t
  <2>. QED
    BY <1>2
<1>. HIDE DEF s, t
<1>. DEFINE q == [i \in 1..c-1 |-> s[i]]
<1>7. q \in Seq(Values) /\ Len(q) = c-1 /\ s[c] \in Values
  BY <1>0, <1>1
<1>8. ASSUME NEW y, NEW u, u = [i \in 1..c |-> u[i]], \A i \in 1..c : u[i] = IF i = c THEN y ELSE s[i]
      PROVE  Gains(y, q, u)
  <2>. DEFINE w == q \o <<y>>
  <2>1. w = [i \in 1..c |-> IF i <= c-1 THEN q[i] ELSE <<y>>[i-(c-1)]]
    BY <1>0, <1>7
  <2>2. \A i \in 1..c : w[i] = IF i = c THEN y ELSE s[i]
    <3>1. ASSUME NEW i \in 1..c PROVE w[i] = IF i = c THEN y ELSE s[i]
      <4>1. w[i] = IF i <= c-1 THEN q[i] ELSE <<y>>[i-(c-1)]
        BY <2>1
      <4>2. CASE i = c
        <5>1. i-(c-1) = 1 /\ ~ i <= c-1
          BY <1>0, <4>2
        <5>2. w[i] = <<y>>[i-(c-1)] /\ <<y>>[1] = y
          BY <4>1, <5>1
        <5>. QED
          BY <4>2, <5>1, <5>2
      <4>3. CASE i # c
        <5>1. i <= c-1 /\ i \in 1..c-1 /\ q[i] = s[i]
          BY <1>0, <4>3
        <5>. QED
          BY <4>1, <4>3, <5>1
      <4>. QED
        BY <4>2, <4>3
    <3>. QED
      BY <3>1
  <2>3. w = [i \in 1..c |-> w[i]]
    BY <2>1
  <2>. HIDE DEF w
  <2>4. w = u
    BY <1>8, <2>2, <2>3
  <2>. QED
    BY <2>4 DEF w, Gains
<1>9. Gains(s[c], q, s)
  BY <1>6, <1>8
<1>10. Gains(x, q, t)
  BY <1>5, <1>6, <1>8
<1>. HIDE DEF q
<1>. QED
  BY <1>7, <1>9, <1>10 DEF s, t, p

(* ... and so does what the queue holds: t is s but for its last, x.       *)
Renewed(s, t, x) == \E q \in Seq(Values), v \in Values : Gains(v, q, s) /\ Gains(x, q, t)

LEMMA HeldStored ==
  ASSUME NEW pg, NEW sl, NEW pg2, NEW sl2, NEW lv, Sound(pg, sl, lv), Sound(pg2, sl2, lv),
         SameButLast(pg, sl, pg2, sl2, lv), NEW x \in Values,
         Stored(pg, sl, pg2, sl2, lv[Len(lv)], x)
  PROVE  Renewed(Held(pg, sl, lv), Held(pg2, sl2, lv), x)
<1>. DEFINE p == lv[Len(lv)]
            s == ItemsOf(pg, sl, p)
            t == ItemsOf(pg2, sl2, p)
<1>1. PICK q \in Seq(Values), v \in Values : Gains(v, q, s) /\ Gains(x, q, t)
  BY ItemStored
<1>2. ShareFront(Values, Held(pg, sl, lv), Held(pg2, sl2, lv), s, t)
  BY HeldLast
<1>. HIDE DEF s, t
<1>3. PICK front \in Seq(Values) : Held(pg, sl, lv) = front \o s /\ Held(pg2, sl2, lv) = front \o t
  BY <1>2 DEF ShareFront
<1>4. Gains(v, front \o q, front \o s) /\ Gains(x, front \o q, front \o t)
  BY <1>1, GainsOn
<1>5. front \o q \in Seq(Values)
  BY ConcatProperties
<1>. QED
  BY <1>3, <1>4, <1>5 DEF Renewed

(* What a queue holds but for its newest item. *)
LEMMA FrontIs ==
  ASSUME NEW q \in Seq(Values), NEW v, NEW s, Gains(v, q, s)
  PROVE  Front(s) = q /\ s # <<>>
<1>1. Len(q) \in Nat /\ s = q \o <<v>>
  BY DEF Gains
<1>2. Len(s) = Len(q) + 1 /\ \A i \in 1..Len(q) : s[i] = q[i]
  BY <1>1
<1>3. Front(s) = [i \in 1..Len(q) |-> s[i]]
  <2>1. Front(s) = SubSeq(s, 1, Len(s) - 1) /\ Len(s) - 1 = Len(q)
    BY <1>1, <1>2 DEF Front
  <2>2. SubSeq(s, 1, Len(q)) = [i \in 1..(1 + Len(q) - 1) |-> s[i + 1 - 1]]
    BY <1>1
  <2>. QED
    BY <1>1, <2>1, <2>2
<1>4. q = [i \in 1..Len(q) |-> q[i]]
  OBVIOUS
<1>. QED
  BY <1>1, <1>2, <1>3, <1>4

(* The oldest item of a page leaves it. *)
Lost(pg, sl, pg2, sl2, p) ==
  /\ pg[p].count > 0 /\ pg2[p].count = pg[p].count - 1
  /\ pg2[p].onePastTailIndex = pg[p].onePastTailIndex
  /\ sl2[p] = sl[p]

(* The one that does. *)
Oldest(pg, sl, p) == sl[p][(pg[p].onePastTailIndex - pg[p].count) % PageCapacity]

(* It is the first of the page's items ... *)
LEMMA OldestItem ==
  ASSUME NEW pg, NEW sl, NEW lv, Sound(pg, sl, lv), NEW n \in 1..Len(lv), pg[lv[n]].count > 0
  PROVE  /\ Oldest(pg, sl, lv[n]) \in Values
         /\ ItemsOf(pg, sl, lv[n])[1] = Oldest(pg, sl, lv[n])
<1>. DEFINE p == lv[n]
            e == pg[p].onePastTailIndex
            c == pg[p].count
<1>1. /\ p \in Pages /\ c \in 1..PageCapacity /\ 1 \in 1..c /\ e \in Indices
      /\ sl[p] \in [Indices -> Values] /\ c \in 0..PageCapacity
  BY CapacityAssumption DEF Sound
<1>2. ItemsOf(pg, sl, p) = [i \in 1..c |-> sl[p][At(e, c, i)]] /\ Oldest(pg, sl, p) = sl[p][(e - c) % PageCapacity]
  BY DEF ItemsOf, Oldest
<1>. HIDE DEF e, c, p
<1>3. (e - c) % PageCapacity = At(e, c, 1) /\ At(e, c, 1) \in Indices
  BY <1>1, AtOldest, WhereAt DEF AtIs
<1>. QED
  BY <1>1, <1>2, <1>3 DEF p

(* ... and leads what is left. *)
LEMMA ItemLost ==
  ASSUME NEW pg, NEW sl, NEW pg2, NEW sl2, NEW lv, Sound(pg, sl, lv), NEW n \in 1..Len(lv),
         Lost(pg, sl, pg2, sl2, lv[n])
  PROVE  Leads(Oldest(pg, sl, lv[n]), ItemsOf(pg, sl, lv[n]), ItemsOf(pg2, sl2, lv[n]))
<1>. DEFINE p == lv[n]
            e == pg[p].onePastTailIndex
            c == pg[p].count
            s == ItemsOf(pg, sl, p)
            t == ItemsOf(pg2, sl2, p)
            x == Oldest(pg, sl, p)
<1>1. p \in Pages /\ c \in 0..PageCapacity /\ c > 0 /\ c \in Nat /\ c-1 \in Nat /\ e \in Indices
  BY CapacityAssumption DEF Sound, Lost
<1>2. s[1] = x
  BY OldestItem DEF Lost
<1>3. s = [i \in 1..c |-> sl[p][At(e, c, i)]] /\ t = [i \in 1..c-1 |-> sl[p][At(e, c-1, i)]]
  BY DEF ItemsOf, Lost
<1>. HIDE DEF e, c, p
<1>4. \A i \in 1..c-1 : t[i] = s[i+1]
  <2>1. ASSUME NEW i \in 1..c-1 PROVE t[i] = s[i+1]
    <3>1. i+1 \in 1..c
      BY <1>1
    <3>2. At(e, c-1, i) = At(e, c, i+1)
      BY <1>1, AtAfterPop
    <3>. HIDE DEF s, t
    <3>. QED
      BY <1>3, <3>1, <3>2
  <2>. QED
    BY <2>1
<1>5. s = [i \in 1..c |-> s[i]] /\ t = [i \in 1..c-1 |-> t[i]]
  <2>. HIDE DEF s, t
  <2>. QED
    BY <1>3
<1>. HIDE DEF s, t, x
<1>. DEFINE w == <<x>> \o t
<1>6. w = [i \in 1..c |-> IF i <= 1 THEN <<x>>[i] ELSE t[i-1]]
  <2>1. Len(t) = c-1 /\ Len(<<x>>) = 1 /\ 1 + (c-1) = c
    BY <1>1, <1>5
  <2>. QED
    BY <2>1
<1>7. \A i \in 1..c : w[i] = s[i]
  <2>1. ASSUME NEW i \in 1..c PROVE w[i] = s[i]
    <3>1. w[i] = IF i <= 1 THEN <<x>>[i] ELSE t[i-1]
      BY <1>6
    <3>. HIDE DEF w
    <3>2. CASE i = 1
      BY <1>2, <3>1, <3>2
    <3>3. CASE i # 1
      <4>1. i-1 \in 1..c-1 /\ (i-1)+1 = i /\ ~ i <= 1
        BY <1>1, <3>3
      <4>. QED
        BY <1>4, <3>1, <4>1
    <3>. QED
      BY <3>2, <3>3
  <2>. QED
    BY <2>1
<1>8. w = [i \in 1..c |-> w[i]]
  BY <1>6
<1>. HIDE DEF w
<1>9. w = s
  BY <1>5, <1>7, <1>8
<1>. QED
  BY <1>9 DEF w, Leads, s, t, x, p

(* All pages but the first are the same: the queue loses that item. *)
SameButFirst(pg, sl, pg2, sl2, lv) ==
  \A n \in 1..Len(lv) : n # 1 => SamePage(pg, sl, pg2, sl2, lv[n])

LEMMA HeldLoses ==
  ASSUME NEW pg, NEW sl, NEW pg2, NEW sl2, NEW lv, Sound(pg, sl, lv), Sound(pg2, sl2, lv),
         (* All pages but the first are the same: the queue loses that item. *)
SameButFirst(pg, sl, pg2, sl2, lv), Lost(pg, sl, pg2, sl2, lv[1])
  PROVE  Leads(Oldest(pg, sl, lv[1]), Held(pg, sl, lv), Held(pg2, sl2, lv))
<1>. DEFINE m == Len(lv)
            ss == Pieces(pg, sl, lv)
            tt == Pieces(pg2, sl2, lv)
            x == Oldest(pg, sl, lv[1])
<1>1. /\ m \in Nat \ {0} /\ Len(ss) = m /\ Len(tt) = m /\ AllSeqs(tt, Values, m) /\ 1 \in 1..m
      /\ \A n \in 1..m : ss[n] = ItemsOf(pg, sl, lv[n]) /\ tt[n] = ItemsOf(pg2, sl2, lv[n])
  BY PiecesTyped
<1>2. Leads(x, ItemsOf(pg, sl, lv[1]), ItemsOf(pg2, sl2, lv[1])) /\ x \in Values
  BY <1>1, ItemLost, OldestItem DEF Lost
<1>3. \A n \in 2..m : ss[n] = tt[n]
  <2>1. ASSUME NEW n \in 2..m PROVE ss[n] = tt[n]
    <3>1. n \in 1..m /\ n # 1
      BY <1>1
    <3>. QED
      BY <1>1, <3>1, SameItems DEF SameButFirst
  <2>. QED
    BY <2>1
<1>. HIDE DEF ss, tt, m, x
<1>4. Leads(x, ss[1], tt[1])
  BY <1>1, <1>2
<1>5. Leads(x, FlattenSeq(ss), FlattenSeq(tt))
  BY <1>1, <1>2, <1>3, <1>4, FlattenFirst
<1>. QED
  BY <1>5 DEF Held, ss, tt, x

(* The first page of a list is not in the next one. *)
Rest(lv, lv2) ==
  /\ Len(lv) = Len(lv2) + 1
  /\ \A n \in 1..Len(lv2) : lv2[n] = lv[n+1]

(* It does with its last item's page. *)
LEMMA HeldLosesPage ==
  ASSUME NEW pg, NEW sl, NEW pg2, NEW sl2, NEW lv, NEW lv2, Sound(pg, sl, lv), Sound(pg2, sl2, lv2),
         Rest(lv, lv2), AllSame(pg, sl, pg2, sl2, lv2), pg[lv[1]].count = 1
  PROVE  Leads(Oldest(pg, sl, lv[1]), Held(pg, sl, lv), Held(pg2, sl2, lv2))
<1>. DEFINE m == Len(lv2)
            ss == Pieces(pg, sl, lv)
            tt == Pieces(pg2, sl2, lv2)
            x == Oldest(pg, sl, lv[1])
<1>1. /\ m \in Nat \ {0} /\ Len(ss) = m+1 /\ Len(tt) = m /\ AllSeqs(tt, Values, m) /\ 1 \in 1..m+1
      /\ \A n \in 1..m+1 : ss[n] = ItemsOf(pg, sl, lv[n])
      /\ \A n \in 1..m : tt[n] = ItemsOf(pg2, sl2, lv2[n])
  BY PiecesTyped DEF Rest
<1>2. x \in Values /\ ss[1] = <<x>>
  <2>1. 1 \in 1..Len(lv) /\ pg[lv[1]].count > 0
    BY <1>1 DEF Rest
  <2>2. /\ ItemsOf(pg, sl, lv[1]) \in Seq(Values) /\ Len(ItemsOf(pg, sl, lv[1])) = 1
        /\ ItemsOf(pg, sl, lv[1])[1] = x /\ x \in Values
    <3>1. ItemsOf(pg, sl, lv[1]) \in Seq(Values) /\ Len(ItemsOf(pg, sl, lv[1])) = pg[lv[1]].count
      <4>1. \A n \in 1..Len(lv) : /\ ItemsOf(pg, sl, lv[n]) \in Seq(Values)
                                   /\ Len(ItemsOf(pg, sl, lv[n])) = pg[lv[n]].count
        BY ItemsTyped
      <4>. QED
        BY <2>1, <4>1
    <3>2. ItemsOf(pg, sl, lv[1])[1] = x /\ x \in Values
      BY <2>1, OldestItem
    <3>. QED
      BY <3>1, <3>2
  <2>3. ss[1] = ItemsOf(pg, sl, lv[1])
    BY <1>1
  <2>. DEFINE y == ItemsOf(pg, sl, lv[1])
  <2>. HIDE DEF ss, x, y
  <2>4. y \in Seq(Values) /\ Len(y) = 1 /\ y[1] = x
    BY <2>2 DEF y
  <2>5. y = <<x>>
    BY <2>4
  <2>. QED
    BY <2>2, <2>3, <2>5 DEF y
<1>3. \A n \in 1..m : ss[n+1] = tt[n]
  <2>1. ASSUME NEW n \in 1..m PROVE ss[n+1] = tt[n]
    <3>1. n+1 \in 1..m+1 /\ lv2[n] = lv[n+1] /\ SamePage(pg, sl, pg2, sl2, lv2[n])
      BY <1>1 DEF Rest, AllSame
    <3>. QED
      BY <1>1, <3>1, SameItems
  <2>. QED
    BY <2>1
<1>. HIDE DEF ss, tt, m, x
<1>5. Leads(x, FlattenSeq(ss), FlattenSeq(tt))
  BY <1>1, <1>2, <1>3, FlattenDrop
<1>. QED
  BY <1>5 DEF Held, ss, tt, x

---------------------------------------------------------------------------
(* How it changes with a step.                                             *)

(* What the queue holds. *)
HeldNow == Held(page, slot, live)

(* While Push has its slot, that slot is the newest one of the tail page.  *)
NewestSlot == <<tail, At(page[tail].onePastTailIndex, page[tail].count, page[tail].count)>>

ClaimIsLast ==
  \A t \in Threads : pc[t] = "push_store" => page[tail].count > 0 /\ claimed[t] = NewestSlot

(* What the invariant says of the tail page. *)
LEMMA TailPage ==
  ASSUME IInv
  PROVE  /\ tail \in Pages /\ page[tail].count \in 0..PageCapacity
         /\ page[tail].onePastTailIndex \in Indices
         /\ Len(live) \in Nat \ {0} /\ tail = live[Len(live)] /\ head = live[1]
<1>1. TypeOK /\ PagesAccountedFor /\ QueueShape
  BY DEF IInv
<1>2. Len(live) \in Nat \ {0} /\ tail = live[Len(live)] /\ Len(live) \in 1..Len(live) /\ head = live[1]
  BY <1>1, LiveFacts
<1>. QED
  BY <1>1, <1>2 DEF TypeOK, QueueShape

(* A page that the queue is extended with was not in it. *)
LEMMA NewPageApart ==
  ASSUME IInv, IInv', NEW p \in Pages, live' = Append(live, p)
  PROVE  /\ Extends(live, live', p) /\ Len(live) \in Nat
         /\ \A n \in 1..Len(live) : live[n] \in Pages /\ live[n] # p
<1>1. Extends(live, live', p) /\ Len(live) \in Nat
  BY DEF Extends, IInv, TypeOK
<1>2. /\ \A m, n \in 1..Len(live') : live'[m] = live'[n] => m = n
      /\ \A n \in 1..Len(live) : live[n] \in Pages
  BY LiveFacts DEF IInv, PagesAccountedFor
<1>3. ASSUME NEW n \in 1..Len(live) PROVE live[n] # p
  <2>1. n \in 1..Len(live') /\ Len(live)+1 \in 1..Len(live') /\ n # Len(live)+1
    BY <1>1 DEF Extends
  <2>. QED
    BY <1>1, <1>2, <2>1 DEF Extends
<1>. QED
  BY <1>1, <1>2, <1>3

(* Push's claim makes the queue longer by whatever its slot held. *)
LEMMA ClaimEffect ==
  ASSUME IInv, NEW t \in Threads, PushClaim(t), IInv'
  PROVE  /\ \E x \in Values : Gains(x, HeldNow, HeldNow')
         /\ page'[tail'].count > 0 /\ claimed'[t] = NewestSlot'
<1>1. Sound(page, slot, live) /\ Sound(page', slot', live')
  BY InvSound, InvSoundNext DEF SoundNow
<1>. DEFINE e == page[tail].onePastTailIndex
            c == page[tail].count
<1>2. /\ tail \in Pages /\ c \in 0..PageCapacity /\ e \in Indices /\ c \in Nat
      /\ Len(live) \in Nat \ {0} /\ tail = live[Len(live)]
      /\ page \in [Pages -> [next : Links, count : Int, onePastTailIndex : Indices]]
      /\ slot \in [Pages -> [Indices -> Values]]
      /\ claimed \in [Threads -> Slots \cup {NoSlot}]
  <2>1. c \in 0..PageCapacity /\ PageCapacity \in Nat
    BY TailPage, CapacityAssumption
  <2>2. c \in Nat
    BY <2>1
  <2>. QED
    BY <2>2, TailPage DEF IInv, TypeOK
<1>3. PushEmptyUnsafe(t, FALSE)
  BY DEF PushClaim
<1>4. CASE c < PageCapacity /\ ClaimSlot(t, tail, page[tail], page, FALSE) /\ UNCHANGED listVars
  <2>. DEFINE x == slot[tail][e]
  <2>1. live' = live /\ tail' = tail /\ slot' = slot
    BY <1>4 DEF listVars, ClaimSlot
  <2>2. /\ page' = [page EXCEPT ![tail] = [next |-> page[tail].next, count |-> c + 1,
                                           onePastTailIndex |-> (e + 1) % PageCapacity]]
        /\ claimed' = [claimed EXCEPT ![t] = <<tail, e>>]
    BY <1>4 DEF ClaimSlot
  <2>3. /\ page'[tail].count = c + 1 /\ page'[tail].onePastTailIndex = Next1(e)
        /\ \A p \in Pages : p # tail => page'[p] = page[p]
        /\ claimed'[t] = <<tail, e>>
    BY <1>2, <2>2 DEF Next1
  <2>4. x \in Values
    BY <1>2
  <2>5. Gained(page, slot, page', slot', live[Len(live)], x)
    BY <1>2, <2>1, <2>3 DEF Gained
  <2>6. SameButLast(page, slot, page', slot', live)
    <3>1. \A n \in 1..Len(live) : live[n] \in Pages /\ (n # Len(live) => live[n] # tail)
      BY LiveFacts DEF IInv
    <3>. QED
      BY <2>1, <2>3, <3>1 DEF SameButLast, SamePage
  <2>7. page[live[Len(live)]].count < PageCapacity /\ Sound(page', slot', live)
    BY <1>1, <1>2, <1>4, <2>1
  <2>. HIDE DEF x
  <2>8. Gains(x, Held(page, slot, live), Held(page', slot', live))
    BY <1>1, <2>4, <2>5, <2>6, <2>7, HeldGains
  <2>9. At(Next1(e), c+1, c+1) = e
    BY <1>2, <1>4, AtAfterPush
  <2>10. NewestSlot' = <<tail, e>>
    BY <2>1, <2>3, <2>9 DEF NewestSlot
  <2>. QED
    BY <1>2, <2>1, <2>3, <2>4, <2>8, <2>10 DEF HeldNow
<1>5. CASE \E p \in Pages :
             /\ AllocPage(p) /\ tail' = p /\ live' = Append(live, p)
             /\ ClaimSlot(t, p, EmptyPage, [page EXCEPT ![tail].next = p], FALSE)
  <2>1. PICK p \in Pages :
             /\ tail' = p /\ live' = Append(live, p)
             /\ ClaimSlot(t, p, EmptyPage, [page EXCEPT ![tail].next = p], FALSE)
    BY <1>5
  <2>. DEFINE x == slot[p][0]
  <2>2. Extends(live, live', p)
    BY <2>1, NewPageApart
  <2>3. \A n \in 1..Len(live) : live[n] \in Pages /\ live[n] # p
    BY <2>1, NewPageApart
  <2>4. /\ slot' = slot
        /\ page' = [[page EXCEPT ![tail].next = p] EXCEPT ![p] =
                      [next |-> NoPage, count |-> 0 + 1, onePastTailIndex |-> (0 + 1) % PageCapacity]]
        /\ claimed' = [claimed EXCEPT ![t] = <<p, 0>>]
    BY <2>1 DEF ClaimSlot, EmptyPage
  <2>5. /\ page'[p].count = 1 /\ page'[p].onePastTailIndex = Next1(0)
        /\ \A q \in Pages : q # p => /\ page'[q].count = page[q].count
                                     /\ page'[q].onePastTailIndex = page[q].onePastTailIndex
        /\ claimed'[t] = <<p, 0>>
    BY <1>2, <2>4 DEF Next1
  <2>6. OneItem(page', slot', p, x)
    BY <2>4, <2>5 DEF OneItem
  <2>7. AllSame(page, slot, page', slot', live)
    BY <2>3, <2>4, <2>5 DEF AllSame, SamePage
  <2>8. 0 \in Indices /\ x \in Values /\ 0 \in 0..PageCapacity /\ 0 < PageCapacity
    BY <1>2, CapacityAssumption DEF Indices
  <2>. HIDE DEF x
  <2>9. Gains(x, Held(page, slot, live), Held(page', slot', live'))
    BY <1>1, <2>2, <2>6, <2>7, HeldGainsPage
  <2>10. At(Next1(0), 0+1, 0+1) = 0
    BY <2>8, AtAfterPush
  <2>11. NewestSlot' = <<p, 0>>
    BY <2>1, <2>5, <2>10 DEF NewestSlot
  <2>. QED
    BY <2>1, <2>5, <2>8, <2>9, <2>11 DEF HeldNow
<1>. QED
  BY <1>3, <1>4, <1>5 DEF PushEmptyUnsafe

(* Push's store replaces it by the item. *)
LEMMA StoreEffect ==
  ASSUME IInv, ClaimIsLast, NEW t \in Threads, PushStore(t), IInv'
  PROVE  Renewed(HeldNow, HeldNow', arg[t])
<1>1. Sound(page, slot, live) /\ Sound(page', slot', live')
  BY InvSound, InvSoundNext DEF SoundNow
<1>2. /\ live' = live /\ page' = page
      /\ slot' = [slot EXCEPT ![claimed[t][1]][claimed[t][2]] = arg[t]]
      /\ pc[t] = "push_store"
  BY DEF PushStore, listVars, Goto
<1>. DEFINE i == At(page[tail].onePastTailIndex, page[tail].count, page[tail].count)
<1>3. page[tail].count > 0 /\ claimed[t] = <<tail, i>>
  BY <1>2 DEF ClaimIsLast, NewestSlot
<1>4. /\ tail \in Pages /\ Len(live) \in Nat \ {0} /\ tail = live[Len(live)]
      /\ slot \in [Pages -> [Indices -> Values]] /\ i \in Indices
      /\ arg[t] \in Values
  <2>1. page[tail].count \in 1..page[tail].count
    BY <1>3, TailPage
  <2>2. i \in Indices
    BY <2>1, TailPage, WhereAt DEF AtIs
  <2>. QED
    BY <1>2, <2>2, TailPage DEF IInv, TypeOK, PushesReady, PushSteps, Values
<1>. HIDE DEF i
<1>5. claimed[t][1] = tail /\ claimed[t][2] = i
  BY <1>3
<1>6. slot' = [slot EXCEPT ![tail] = [slot[tail] EXCEPT ![i] = arg[t]]]
  BY <1>2, <1>5
<1>7. /\ \A p \in Pages : p # tail => slot'[p] = slot[p]
      /\ \A j \in Indices : slot'[tail][j] = IF j = i THEN arg[t] ELSE slot[tail][j]
  BY <1>4, <1>6
<1>8. Stored(page, slot, page', slot', live[Len(live)], arg[t])
  BY <1>2, <1>3, <1>4, <1>7 DEF Stored, i
<1>9. SameButLast(page, slot, page', slot', live)
  <2>1. \A n \in 1..Len(live) : live[n] \in Pages /\ (n # Len(live) => live[n] # tail)
    BY LiveFacts DEF IInv
  <2>. QED
    BY <1>2, <1>7, <2>1 DEF SameButLast, SamePage
<1>10. Renewed(Held(page, slot, live), Held(page', slot', live), arg[t])
  <2>1. Sound(page', slot', live) /\ arg[t] \in Values
    BY <1>1, <1>2, <1>4
  <2>. QED
    BY <1>1, <2>1, <1>8, <1>9, HeldStored
<1>. QED
  BY <1>2, <1>10 DEF HeldNow

(* An empty queue holds nothing, and another has an item in its head page. *)
LEMMA CountSeen ==
  ASSUME IInv
  PROVE  /\ ~ count > 0 => HeldNow = <<>> /\ page[tail].count = 0
         /\ count > 0 => page[head].count > 0
<1>1. /\ TypeOK /\ PagesAccountedFor /\ QueueShape
  BY DEF IInv
<1>2. /\ Len(live) \in Nat \ {0} /\ 1 \in 1..Len(live) /\ Len(live) \in 1..Len(live)
      /\ head = live[1] /\ tail = live[Len(live)] /\ count \in Int
      /\ page[head].count \in 0..PageCapacity /\ page[tail].count \in 0..PageCapacity
      /\ PageCapacity \in Nat \ {0}
  BY <1>1, LiveFacts, CapacityAssumption DEF QueueShape, TypeOK
<1>3. CASE Len(live) = 1
  <2>1. count = page[head].count /\ head = tail
    BY <1>1, <1>2, <1>3 DEF QueueShape
  <2>2. ASSUME ~ count > 0 PROVE HeldNow = <<>>
    <3>1. page[head].count = 0
      BY <1>2, <2>1, <2>2
    <3>2. ItemsOf(page, slot, live[1]) = <<>>
      BY <1>2, <3>1 DEF ItemsOf
    <3>3. Pieces(page, slot, live) = [n \in 1..1 |-> ItemsOf(page, slot, live[n])]
      BY <1>3 DEF Pieces
    <3>4. Len(Pieces(page, slot, live)) = 1 /\ Pieces(page, slot, live)[1] = <<>>
      BY <3>2, <3>3
    <3>5. FlattenSeq(Pieces(page, slot, live)) = <<>>
      BY <3>4, FlattenOne
    <3>. QED
      BY <3>5 DEF HeldNow, Held
  <2>. QED
    BY <1>2, <2>1, <2>2
<1>4. CASE Len(live) # 1
  <2>0. 1 < Len(live) /\ Len(live) - 2 \in Nat
    <3>. DEFINE m == Len(live)
    <3>1. m \in Nat \ {0} /\ m # 1
      BY <1>2, <1>4
    <3>. HIDE DEF m
    <3>2. 1 < m /\ m - 2 \in Nat
      BY <3>1
    <3>. QED
      BY <3>2 DEF m
  <2>1. page[head].count > 0 /\ page[tail].count > 0
    BY <1>1, <1>2, <2>0 DEF QueueShape
  <2>2. count = page[head].count + (Len(live) - 2) * PageCapacity + page[tail].count
    BY <1>1, <1>2, <1>4 DEF QueueShape
  <2>3. (Len(live) - 2) * PageCapacity \in Nat
    <3>2. \A i, j \in Nat : i * j \in Nat
      OBVIOUS
    <3>. QED
      BY <1>2, <2>0, <3>2
  <2>. DEFINE middle == (Len(live) - 2) * PageCapacity
  <2>4. count = page[head].count + middle + page[tail].count /\ middle \in Nat
    BY <2>2, <2>3
  <2>. HIDE DEF middle
  <2>5. page[head].count \in Int /\ page[tail].count \in Int
    BY <1>2
  <2>. QED
    BY <2>1, <2>4, <2>5
<1>. QED
  BY <1>3, <1>4

(* TryPop takes the oldest item, and nothing else. *)
LEMMA PopEffect ==
  ASSUME IInv, NEW t \in Threads, PopTake(t), count > 0, IInv'
  PROVE  result'[t] \in Values /\ Leads(result'[t], HeldNow, HeldNow')
<1>1. Sound(page, slot, live) /\ Sound(page', slot', live')
  BY InvSound, InvSoundNext DEF SoundNow
<1>2. /\ head \in Pages /\ Len(live) \in Nat \ {0} /\ 1 \in 1..Len(live) /\ head = live[1]
      /\ page[head].count > 0
      /\ page \in [Pages -> [next : Links, count : Int, onePastTailIndex : Indices]]
      /\ result \in [Threads -> Values \cup {NoItem} \cup BOOLEAN]
  <2>1. page[head].count > 0
    BY CountSeen
  <2>2. Len(live) \in Nat \ {0} /\ head = live[1]
    BY TailPage
  <2>3. 1 \in 1..Len(live)
    BY <2>2
  <2>4. TypeOK
    BY DEF IInv
  <2>. QED
    BY <2>1, <2>2, <2>3, <2>4 DEF TypeOK
<1>3. result'[t] = Oldest(page, slot, live[1]) /\ slot' = slot
  <2>1. result' = [result EXCEPT ![t] = slot[head][HeadIndex(head)]] /\ slot' = slot
    BY DEF PopTake
  <2>2. result'[t] = slot[head][HeadIndex(head)]
    BY <1>2, <2>1, Zenon
  <2>. QED
    BY <1>2, <2>1, <2>2 DEF Oldest, HeadIndex
<1>4. Oldest(page, slot, live[1]) \in Values
  BY <1>1, <1>2, OldestItem
<1>5. \A n \in 1..Len(live) : live[n] \in Pages /\ (n # 1 => live[n] # head)
  BY LiveFacts DEF IInv
<1>6. CASE page[head].count = 1 /\ head # tail /\ page' = PopFromPage(head, firstFree) /\ live' = Tail(live)
  <2>1. Rest(live, live')
    <3>1. live \in Seq(Pages) /\ live # <<>>
      BY <1>2 DEF IInv, TypeOK
    <3>. QED
      BY <1>6, <3>1, TailFacts DEF Rest
  <2>2. \A p \in Pages : p # head => page'[p] = page[p]
    BY <1>2, <1>6 DEF PopFromPage
  <2>3. AllSame(page, slot, page', slot', live')
    <3>1. ASSUME NEW n \in 1..Len(live') PROVE live'[n] \in Pages /\ live'[n] # head
      <4>1. n+1 \in 1..Len(live) /\ n+1 # 1 /\ live'[n] = live[n+1]
        BY <1>2, <2>1 DEF Rest
      <4>. QED
        BY <1>5, <4>1
    <3>. QED
      BY <1>3, <2>2, <3>1 DEF AllSame, SamePage
  <2>4. page[live[1]].count = 1
    BY <1>2, <1>6
  <2>. QED
    BY <1>1, <1>3, <1>4, <2>1, <2>3, <2>4, HeldLosesPage DEF HeldNow
<1>7. CASE page' = PopFromPage(head, page[head].next) /\ live' = live
  <2>1. /\ page'[head].count = page[head].count - 1
        /\ page'[head].onePastTailIndex = page[head].onePastTailIndex
        /\ \A p \in Pages : p # head => page'[p] = page[p]
    BY <1>2, <1>7 DEF PopFromPage
  <2>2. SameButFirst(page, slot, page', slot', live)
    BY <1>3, <1>5, <2>1 DEF SameButFirst, SamePage
  <2>3. Lost(page, slot, page', slot', live[1])
    BY <1>2, <1>3, <2>1 DEF Lost
  <2>4. Sound(page', slot', live)
    BY <1>1, <1>7
  <2>. QED
    BY <1>1, <1>3, <1>4, <1>7, <2>2, <2>3, <2>4, HeldLoses DEF HeldNow
<1>. QED
  BY <1>6, <1>7 DEF PopTake

---------------------------------------------------------------------------
(* The slot a push has claimed is the newest one.                          *)

(* It is so at first ... *)
LEMMA InitClaim == Init => ClaimIsLast
BY DEF Init, ClaimIsLast

(* What a step of one thread leaves alone. *)
LEMMA OneThread ==
  ASSUME TypeOK, NEW t \in Threads, QueueStep(t) \/ PushEmptyStep(t)
  PROVE  /\ \A u \in Threads : u # t => pc'[u] = pc[u] /\ claimed'[u] = claimed[u]
         /\ pc'[t] = "push_store" => PushClaim(t)
         /\ ~ InCriticalSection(t) => UNCHANGED <<page, tail>>
<1>0. /\ pc \in [Threads -> PcTypes] /\ claimed \in [Threads -> Slots \cup {NoSlot}]
      /\ pc[t] \in PcTypes
  BY DEF TypeOK, PcTypes
<1>1. CASE \/ \E x \in Items : CallPush(t, x) \/ CallPushEmpty(t, x) \/ CallFind(t, x)
           \/ CallTryPop(t) \/ PeekCount(t) \/ Return(t)
  BY <1>0, <1>1 DEF CallPush, CallPushEmpty, CallFind, CallTryPop, PeekCount, Return, Goto,
       queueVars, listVars, callVars
<1>2. CASE Acquire(t)
  <2>1. /\ pc[t] \in {"push", "pushempty", "pop", "find"} /\ UNCHANGED <<queueVars, callVars>>
        /\ pc' = [pc EXCEPT ![t] = AfterLock[pc[t]]]
    BY <1>2 DEF Acquire, AfterLock, Goto
  <2>2. AfterLock[pc[t]] # "push_store"
    BY <2>1 DEF AfterLock
  <2>. QED
    BY <1>0, <2>1, <2>2 DEF queueVars, listVars, callVars
<1>3. CASE Unlock(t) \/ UnlockToFill(t)
  BY <1>0, <1>3 DEF Unlock, UnlockToFill, Release, Goto, queueVars, listVars, callVars
<1>4. CASE PushClaim(t) \/ PushEmptyClaim(t)
  <2>1. PICK to \in {"push_store", "unlock_fill"} :
           pc' = [pc EXCEPT ![t] = to] /\ InCriticalSection(t) /\ (to = "push_store" => PushClaim(t))
    BY <1>4 DEF PushClaim, PushEmptyClaim, Goto, InCriticalSection
  <2>2. \E s \in Slots : claimed' = [claimed EXCEPT ![t] = s]
    <3>1. PICK clear \in BOOLEAN : PushEmptyUnsafe(t, clear)
      BY <1>4 DEF PushClaim, PushEmptyClaim
    <3>2. tail \in Pages /\ page[tail].onePastTailIndex \in Indices /\ 0 \in Indices
      BY CapacityAssumption DEF TypeOK, Indices
    <3>. QED
      BY <3>1, <3>2 DEF PushEmptyUnsafe, ClaimSlot, EmptyPage, Slots
  <2>. QED
    BY <1>0, <2>1, <2>2
<1>5. CASE PushStore(t) \/ CallerFills(t)
  BY <1>0, <1>5 DEF PushStore, CallerFills, Goto, listVars
<1>6. CASE PopTake(t) \/ FindScan(t)
  BY <1>0, <1>6 DEF PopTake, FindScan, Goto, InCriticalSection, queueVars
<1>. QED
  BY <1>1, <1>2, <1>3, <1>4, <1>5, <1>6 DEF QueueStep, PushEmptyStep

(* ... and stays so. *)
LEMMA NextClaim ==
  ASSUME IInv, IInv', ClaimIsLast, [Next]_vars
  PROVE  ClaimIsLast'
<1>1. CASE Next
  <2>1. PICK t \in Threads : QueueStep(t) \/ PushEmptyStep(t)
    BY <1>1 DEF Next
  <2>2. /\ \A u \in Threads : u # t => pc'[u] = pc[u] /\ claimed'[u] = claimed[u]
        /\ pc'[t] = "push_store" => PushClaim(t)
        /\ ~ InCriticalSection(t) => UNCHANGED <<page, tail>>
    BY <2>1, OneThread DEF IInv
  <2>3. ASSUME NEW u \in Threads, pc'[u] = "push_store"
        PROVE  page'[tail'].count > 0 /\ claimed'[u] = NewestSlot'
    <3>1. CASE u = t
      <4>1. PushClaim(t)
        BY <2>2, <2>3, <3>1
      <4>2. page'[tail'].count > 0 /\ claimed'[t] = NewestSlot'
        BY <4>1, ClaimEffect
      <4>. QED
        BY <3>1, <4>2
    <3>2. CASE u # t
      <4>1. pc[u] = "push_store" /\ claimed'[u] = claimed[u]
        BY <2>2, <2>3, <3>2
      <4>2. ~ InCriticalSection(t)
        BY <3>2, <4>1 DEF IInv, MutexHeld, InCriticalSection
      <4>3. UNCHANGED <<page, tail>>
        BY <2>2, <4>2
      <4>. QED
        BY <4>1, <4>3 DEF ClaimIsLast, NewestSlot
    <3>. QED
      BY <3>1, <3>2
  <2>. QED
    BY <2>3 DEF ClaimIsLast
<1>2. CASE UNCHANGED vars
  BY <1>2 DEF vars, ClaimIsLast, NewestSlot
<1>. QED
  BY <1>1, <1>2

---------------------------------------------------------------------------
(* The queue that the callers see. *)
Storing == \E t \in Threads : pc[t] = "push_store"

(* It is what is held, but for the slot of a push under way. *)
SeenAsHeld == QueueSeen = IF Storing THEN Front(HeldNow) ELSE HeldNow

LEMMA SeenIs == IInv => SeenAsHeld
<1>1. IInv => ContentsAreHeld
  BY ContentsHeld DEF IInv
<1>. QED
  BY <1>1 DEF ContentsAreHeld, SeenAsHeld, QueueSeen, Storing, HeldNow

LEMMA SeenNext == IInv' => SeenAsHeld'
BY SeenIs, PTL

(* What every thread is doing, and a step by one of them.                  *)
CallsSeen == [t \in Threads |-> CallSeen(t)]

(* Nobody but thread t can tell that it made a step. *)
OthersStay(t) ==
  \A u \in Threads : u # t => pc'[u] = pc[u] /\ arg'[u] = arg[u] /\ result'[u] = result[u]

(* Then the others are doing what they were. *)
LEMMA CallMoves ==
  ASSUME NEW t \in Threads, OthersStay(t)
  PROVE  CallsSeen' = [CallsSeen EXCEPT ![t] = CallSeen(t)']
<1>1. \A u \in Threads : u # t => CallSeen(u)' = CallSeen(u)
  BY DEF OthersStay, CallSeen
<1>. QED
  BY <1>1 DEF CallsSeen

(* What is queued, and whether a push is between its claim and its store.  *)
QueueStays == UNCHANGED <<page, slot, live>> /\ Storing' = Storing

(* Then the callers see the same queue. *)
LEMMA SeenStays ==
  ASSUME IInv, IInv', QueueStays
  PROVE  QueueSeen' = QueueSeen
<1>1. HeldNow' = HeldNow
  BY DEF QueueStays, HeldNow
<1>2. QueueSeen = (IF Storing THEN Front(HeldNow) ELSE HeldNow)
  BY SeenIs DEF SeenAsHeld
<1>3. QueueSeen' = (IF Storing' THEN Front(HeldNow') ELSE HeldNow')
  BY SeenNext DEF SeenAsHeld
<1>. QED
  BY <1>1, <1>2, <1>3 DEF QueueStays

---------------------------------------------------------------------------
(* Every step is one of FifoQueue, or shows to nobody.                     *)

(* The variables of FifoQueue. *)
LEMMA FifoVars == Fifo!vars = <<QueueSeen, CallsSeen>> /\ \A t \in Threads : CallsSeen[t] = CallSeen(t)
BY DEF Fifo!vars, CallsSeen

(* A step before or after the queue itself. *)
Outside(t) == OthersStay(t) /\ UNCHANGED <<page, slot, live>>
              /\ pc[t] # "push_store" /\ pc'[t] # "push_store"

(* It shows in its own call only. *)
LEMMA OutsideSeen ==
  ASSUME IInv, IInv', NEW t \in Threads, Outside(t)
  PROVE  QueueSeen' = QueueSeen /\ CallsSeen' = [CallsSeen EXCEPT ![t] = CallSeen(t)']
<1>1. QueueStays
  BY DEF Outside, OthersStay, QueueStays, Storing
<1>. QED
  BY <1>1, SeenStays, CallMoves DEF Outside

(* One that nobody sees. *)
LEMMA Unseen ==
  ASSUME IInv, IInv', NEW t \in Threads, Outside(t), CallSeen(t)' = CallSeen(t)
  PROVE  [Fifo!Next]_(Fifo!vars)
<1>1. CallsSeen' = [CallsSeen EXCEPT ![t] = CallsSeen[t]] /\ QueueSeen' = QueueSeen
  BY OutsideSeen, FifoVars
<1>2. CallsSeen' = CallsSeen
  BY <1>1 DEF CallsSeen
<1>. QED
  BY <1>1, <1>2, FifoVars DEF CallsSeen, Fifo!vars

(* The calls, and the returns from them. *)
LEMMA FifoCalls ==
  ASSUME IInv, IInv', NEW t \in Threads,
         \/ \E x \in Items : CallPush(t, x) \/ CallFind(t, x)
         \/ CallTryPop(t) \/ Return(t)
  PROVE  Fifo!Next
<1>0. TypeOK
  BY DEF IInv
<1>1. CASE \E x \in Items : CallPush(t, x)
  <2>1. PICK x \in Items : CallPush(t, x)
    BY <1>1
  <2>2. /\ Outside(t) /\ CallSeen(t) = Fifo!Idle /\ CallSeen(t)' = Fifo!Calling("push", x)
    BY <1>0, <2>1 DEF CallPush, Goto, TypeOK, Outside, OthersStay, queueVars, listVars,
         CallSeen, Fifo!Idle, Fifo!Calling
  <2>3. Fifo!InvokePush(t, x)
    BY <2>2, OutsideSeen, FifoVars DEF Fifo!InvokePush, CallsSeen
  <2>. QED
    BY <2>3 DEF Fifo!Next
<1>2. CASE \E x \in Items : CallFind(t, x)
  <2>1. PICK x \in Items : CallFind(t, x)
    BY <1>2
  <2>2. /\ Outside(t) /\ CallSeen(t) = Fifo!Idle /\ CallSeen(t)' = Fifo!Calling("find", x)
    BY <1>0, <2>1 DEF CallFind, Goto, TypeOK, Outside, OthersStay, queueVars, listVars,
         CallSeen, Fifo!Idle, Fifo!Calling
  <2>3. Fifo!InvokeFind(t, x)
    BY <2>2, OutsideSeen, FifoVars DEF Fifo!InvokeFind, CallsSeen
  <2>. QED
    BY <2>3 DEF Fifo!Next
<1>3. CASE CallTryPop(t)
  <2>2. /\ Outside(t) /\ CallSeen(t) = Fifo!Idle /\ CallSeen(t)' = Fifo!Calling("pop", NoItem)
    BY <1>0, <1>3 DEF CallTryPop, Goto, TypeOK, Outside, OthersStay, queueVars, listVars, callVars,
         CallSeen, Fifo!Idle, Fifo!Calling
  <2>3. Fifo!InvokePop(t)
    BY <2>2, OutsideSeen, FifoVars DEF Fifo!InvokePop, CallsSeen
  <2>. QED
    BY <2>3 DEF Fifo!Next
<1>4. CASE Return(t)
  <2>2. /\ Outside(t) /\ CallSeen(t) = Fifo!Done(result[t]) /\ CallSeen(t)' = Fifo!Idle
    <3>1. /\ pc[t] = "return" /\ pc'[t] = "idle" /\ OthersStay(t)
          /\ UNCHANGED <<page, slot, live>>
      BY <1>0, <1>4 DEF Return, Goto, TypeOK, OthersStay, queueVars, listVars
    <3>. QED
      BY <3>1 DEF Outside, CallSeen, Fifo!Idle, Fifo!Done
  <2>3. Fifo!Return(t)
    BY <2>2, OutsideSeen, FifoVars DEF Fifo!Return, Fifo!Done, CallsSeen
  <2>. QED
    BY <2>3 DEF Fifo!Next
<1>. QED
  BY <1>1, <1>2, <1>3, <1>4

(* The mutex shows in no call. *)
LEMMA FifoMutex ==
  ASSUME IInv, IInv', NEW t \in Threads, Acquire(t) \/ Unlock(t)
  PROVE  [Fifo!Next]_(Fifo!vars)
<1>0. TypeOK
  BY DEF IInv
<1>1. CASE Acquire(t)
  <2>1. /\ pc[t] \in {"push", "pushempty", "pop", "find"} /\ UNCHANGED <<queueVars, callVars>>
        /\ pc' = [pc EXCEPT ![t] = AfterLock[pc[t]]]
    BY <1>1 DEF Acquire, AfterLock, Goto
  <2>2. /\ pc'[t] = AfterLock[pc[t]] /\ OthersStay(t) /\ arg'[t] = arg[t] /\ result'[t] = result[t]
        /\ UNCHANGED <<page, slot, live>>
    BY <1>0, <2>1 DEF TypeOK, OthersStay, queueVars, listVars, callVars
  <2>3. \/ pc[t] = "push" /\ pc'[t] = "push_claim"
        \/ pc[t] = "pushempty" /\ pc'[t] = "pushempty_claim"
        \/ pc[t] = "pop" /\ pc'[t] = "pop_take"
        \/ pc[t] = "find" /\ pc'[t] = "find_scan"
    BY <2>1, <2>2 DEF AfterLock
  <2>4. Outside(t) /\ CallSeen(t)' = CallSeen(t)
    BY <2>2, <2>3 DEF Outside, CallSeen
  <2>. QED
    BY <2>4, Unseen
<1>2. CASE Unlock(t)
  <2>1. /\ pc[t] = "unlock" /\ pc'[t] = "return" /\ OthersStay(t) /\ result'[t] = result[t]
        /\ UNCHANGED <<page, slot, live>>
    BY <1>0, <1>2 DEF Unlock, Release, Goto, TypeOK, OthersStay, queueVars, listVars, callVars
  <2>2. Outside(t) /\ CallSeen(t)' = CallSeen(t)
    BY <2>1 DEF Outside, CallSeen
  <2>. QED
    BY <2>2, Unseen
<1>. QED
  BY <1>1, <1>2

(* Nothing is being stored while another thread has the mutex. *)
LEMMA NotStoring ==
  ASSUME IInv, NEW t \in Threads, InCriticalSection(t), pc[t] # "push_store"
  PROVE  ~ Storing /\ QueueSeen = HeldNow
<1>1. ~ Storing
  BY DEF Storing, IInv, MutexHeld, InCriticalSection
<1>. QED
  BY <1>1, SeenIs DEF SeenAsHeld

(* Nor after its step. *)
LEMMA NotStoringNext ==
  ASSUME IInv, IInv', NEW t \in Threads, InCriticalSection(t), OthersStay(t), pc'[t] # "push_store"
  PROVE  ~ Storing' /\ QueueSeen' = HeldNow'
<1>1. ~ Storing'
  BY DEF Storing, IInv, MutexHeld, InCriticalSection, OthersStay
<1>. QED
  BY <1>1, SeenNext DEF SeenAsHeld

(* Queued items are values. *)
LEMMA HeldIsSeq == IInv => HeldNow \in Seq(Values)
BY InvSound, HeldTyped DEF SoundNow, HeldNow

(* Push's claim shows to nobody ... *)
LEMMA FifoClaim ==
  ASSUME IInv, IInv', NEW t \in Threads, PushClaim(t)
  PROVE  [Fifo!Next]_(Fifo!vars)
<1>1. /\ pc[t] = "push_claim" /\ pc'[t] = "push_store" /\ OthersStay(t) /\ arg'[t] = arg[t]
  BY DEF PushClaim, Goto, IInv, TypeOK, OthersStay
<1>2. QueueSeen = HeldNow
  BY <1>1, NotStoring DEF InCriticalSection
<1>3. QueueSeen' = Front(HeldNow')
  BY <1>1, SeenNext DEF SeenAsHeld, Storing
<1>4. PICK x \in Values : Gains(x, HeldNow, HeldNow')
  BY ClaimEffect
<1>5. Front(HeldNow') = HeldNow
  BY <1>4, HeldIsSeq, FrontIs
<1>6. CallSeen(t)' = CallSeen(t)
  BY <1>1 DEF CallSeen
<1>7. CallsSeen' = CallsSeen
  <2>1. CallsSeen' = [CallsSeen EXCEPT ![t] = CallsSeen[t]]
    BY <1>1, <1>6, CallMoves, FifoVars
  <2>. QED
    BY <2>1 DEF CallsSeen
<1>. QED
  BY <1>2, <1>3, <1>5, <1>7 DEF Fifo!vars, CallsSeen

(* ... its store is the instant it takes effect. *)
LEMMA FifoStore ==
  ASSUME IInv, IInv', ClaimIsLast, NEW t \in Threads, PushStore(t)
  PROVE  Fifo!Next
<1>1. /\ pc[t] = "push_store" /\ pc'[t] = "unlock" /\ OthersStay(t) /\ result'[t] = TRUE
  <2>1. /\ pc' = [pc EXCEPT ![t] = "unlock"] /\ pc[t] = "push_store" /\ arg' = arg
        /\ result' = [result EXCEPT ![t] = TRUE]
    BY DEF PushStore, Goto
  <2>2. DOMAIN pc = Threads /\ DOMAIN result = Threads
    BY DEF IInv, TypeOK
  <2>. QED
    BY <2>1, <2>2, Zenon DEF OthersStay
<1>2. PICK q \in Seq(Values), v \in Values : Gains(v, q, HeldNow) /\ Gains(arg[t], q, HeldNow')
  BY StoreEffect DEF Renewed
<1>3. QueueSeen = q
  <2>1. QueueSeen = Front(HeldNow)
    BY <1>1, SeenIs DEF SeenAsHeld, Storing
  <2>. QED
    BY <1>2, <2>1, FrontIs
<1>4. QueueSeen' = HeldNow'
  BY <1>1, NotStoringNext DEF InCriticalSection
<1>5. arg[t] \in Items /\ HeldNow' = Append(q, arg[t])
  <2>1. arg[t] \in Items
    BY <1>1 DEF IInv, PushesReady, PushSteps
  <2>2. q \o <<arg[t]>> = Append(q, arg[t])
    BY <1>2, <2>1
  <2>. QED
    BY <1>2, <2>1, <2>2 DEF Gains
<1>6. CallSeen(t) = Fifo!Calling("push", arg[t]) /\ CallSeen(t)' = Fifo!Done(TRUE)
  BY <1>1 DEF CallSeen, Fifo!Calling, Fifo!Done
<1>7. CallsSeen' = [CallsSeen EXCEPT ![t] = Fifo!Done(TRUE)]
  BY <1>1, <1>6, CallMoves
<1>8. Fifo!Enqueue(t)
  BY <1>3, <1>4, <1>5, <1>6, <1>7, FifoVars DEF Fifo!Enqueue, Fifo!Calling, CallsSeen
<1>. QED
  BY <1>8 DEF Fifo!Next

(* The oldest one is the head of what is queued. *)
LEMMA LeadsIs ==
  ASSUME NEW x \in Values, NEW s, NEW r \in Seq(Values), Leads(x, s, r)
  PROVE  s # <<>> /\ Head(s) = x /\ Tail(s) = r
<1>1. <<x>> \in Seq(Values) /\ s = <<x>> \o r
  BY DEF Leads
<1>2. s \in Seq(Values) /\ Len(s) = 1 + Len(r) /\ Len(r) \in Nat
  BY <1>1, ConcatProperties
<1>3. s[1] = x /\ \A i \in 1..Len(r) : s[i+1] = r[i]
  BY <1>1
<1>4. s # <<>>
  BY <1>2
<1>5. Tail(s) \in Seq(Values) /\ Len(Tail(s)) = Len(s) - 1 /\ \A i \in 1..Len(Tail(s)) : Tail(s)[i] = s[i+1]
  BY <1>2, <1>4, HeadTailProperties
<1>6. Tail(s) = r
  <2>1. Len(Tail(s)) = Len(r) /\ \A i \in 1..Len(r) : Tail(s)[i] = r[i]
    BY <1>2, <1>3, <1>5
  <2>. QED
    BY <1>5, <2>1, SeqEqual
<1>. QED
  BY <1>2, <1>3, <1>4, <1>6

(* A pop takes it, or finds nothing. *)
LEMMA FifoPop ==
  ASSUME IInv, IInv', NEW t \in Threads, PopTake(t)
  PROVE  Fifo!Next
<1>0. DOMAIN pc = Threads /\ DOMAIN result = Threads
  BY DEF IInv, TypeOK
<1>1. /\ pc[t] = "pop_take" /\ pc'[t] = "unlock" /\ OthersStay(t)
  <2>1. /\ pc' = [pc EXCEPT ![t] = "unlock"] /\ pc[t] = "pop_take" /\ arg' = arg
        /\ \E x : result' = [result EXCEPT ![t] = x]
    BY DEF PopTake, Goto
  <2>. QED
    BY <1>0, <2>1, Zenon DEF OthersStay
<1>2. QueueSeen = HeldNow /\ QueueSeen' = HeldNow'
  BY <1>1, NotStoring, NotStoringNext DEF InCriticalSection
<1>3. CallSeen(t) = Fifo!Calling("pop", NoItem) /\ CallSeen(t)' = Fifo!Done(result'[t])
  BY <1>1 DEF CallSeen, Fifo!Calling, Fifo!Done
<1>4. CallsSeen' = [CallsSeen EXCEPT ![t] = Fifo!Done(result'[t])]
  BY <1>1, <1>3, CallMoves
<1>5. CASE count > 0
  <2>1. result'[t] \in Values /\ Leads(result'[t], HeldNow, HeldNow')
    BY <1>5, PopEffect
  <2>2. HeldNow' \in Seq(Values)
    BY InvSoundNext, HeldTyped DEF SoundNow, HeldNow
  <2>3. HeldNow # <<>> /\ Head(HeldNow) = result'[t] /\ Tail(HeldNow) = HeldNow'
    BY <2>1, <2>2, LeadsIs
  <2>4. Fifo!Dequeue(t)
    <3>1. CallsSeen[t].op = "pop"
      BY <1>3, FifoVars DEF Fifo!Calling
    <3>2. QueueSeen # <<>> /\ QueueSeen' = Tail(QueueSeen)
      BY <1>2, <2>3
    <3>3. CallsSeen' = [CallsSeen EXCEPT ![t] = Fifo!Done(Head(QueueSeen))]
      BY <1>2, <1>4, <2>3
    <3>. QED
      BY <3>1, <3>2, <3>3 DEF Fifo!Dequeue, CallsSeen
  <2>. QED
    BY <2>4 DEF Fifo!Next
<1>6. CASE ~ count > 0
  <2>1. result' = [result EXCEPT ![t] = NoItem] /\ UNCHANGED <<page, slot, live>>
    BY <1>6 DEF PopTake
  <2>2. result'[t] = NoItem
    BY <1>0, <2>1, Zenon
  <2>3. HeldNow = <<>> /\ HeldNow' = HeldNow
    BY <1>6, <2>1, CountSeen DEF HeldNow
  <2>4. Fifo!DequeueNothing(t)
    BY <1>2, <1>3, <1>4, <2>2, <2>3, FifoVars DEF Fifo!DequeueNothing, Fifo!Calling, CallsSeen
  <2>. QED
    BY <2>4 DEF Fifo!Next
<1>. QED
  BY <1>5, <1>6

(* So it does when the count was read as zero without the mutex. *)
LEMMA FifoPeek ==
  ASSUME IInv, IInv', ClaimIsLast, NEW t \in Threads, PeekCount(t)
  PROVE  [Fifo!Next]_(Fifo!vars)
<1>0. DOMAIN pc = Threads /\ DOMAIN result = Threads
  BY DEF IInv, TypeOK
<1>1. CASE count > 0
  <2>1. /\ pc[t] = "pop_peek" /\ pc'[t] = "pop" /\ OthersStay(t)
        /\ UNCHANGED <<page, slot, live>>
    BY <1>0, <1>1 DEF PeekCount, Goto, OthersStay, queueVars, listVars
  <2>2. Outside(t) /\ CallSeen(t)' = CallSeen(t)
    BY <2>1 DEF Outside, CallSeen
  <2>. QED
    BY <2>2, Unseen
<1>2. CASE ~ count > 0
  <2>1. /\ pc[t] = "pop_peek" /\ pc' = [pc EXCEPT ![t] = "return"]
        /\ result' = [result EXCEPT ![t] = NoItem] /\ arg' = arg
        /\ UNCHANGED <<page, slot, live>>
    BY <1>2 DEF PeekCount, Goto, queueVars, listVars
  <2>2. /\ pc'[t] = "return" /\ OthersStay(t) /\ result'[t] = NoItem
    BY <1>0, <2>1, Zenon DEF OthersStay
  <2>3. Outside(t) /\ CallSeen(t) = Fifo!Calling("pop", NoItem) /\ CallSeen(t)' = Fifo!Done(NoItem)
    BY <2>1, <2>2 DEF Outside, CallSeen, Fifo!Calling, Fifo!Done
  <2>4. QueueSeen = <<>>
    <3>1. HeldNow = <<>> /\ page[tail].count = 0
      BY <1>2, CountSeen
    <3>2. ~ Storing
      BY <3>1 DEF ClaimIsLast, Storing
    <3>. QED
      BY <3>1, <3>2, SeenIs DEF SeenAsHeld
  <2>5. Fifo!DequeueNothing(t)
    BY <2>3, <2>4, OutsideSeen, FifoVars DEF Fifo!DequeueNothing, Fifo!Calling, CallsSeen
  <2>. QED
    BY <2>5 DEF Fifo!Next
<1>. QED
  BY <1>1, <1>2

(* A search sees the queue. *)
LEMMA FifoFind ==
  ASSUME IInv, IInv', NEW t \in Threads, FindScan(t)
  PROVE  Fifo!Next
<1>1. /\ pc[t] = "find_scan" /\ pc'[t] = "unlock" /\ OthersStay(t)
      /\ result'[t] = (arg[t] \in ToSet(Contents)) /\ UNCHANGED <<page, slot, live>>
  <2>1. /\ pc' = [pc EXCEPT ![t] = "unlock"] /\ pc[t] = "find_scan" /\ arg' = arg
        /\ result' = [result EXCEPT ![t] = arg[t] \in ToSet(Contents)]
        /\ UNCHANGED <<page, slot, live>>
    BY DEF FindScan, Goto, queueVars, listVars
  <2>2. DOMAIN pc = Threads /\ DOMAIN result = Threads
    BY DEF IInv, TypeOK
  <2>. QED
    BY <2>1, <2>2, Zenon DEF OthersStay
<1>2. QueueSeen = Contents
  <2>1. ~ Storing
    BY <1>1, NotStoring DEF InCriticalSection
  <2>. QED
    BY <2>1 DEF QueueSeen, Storing
<1>3. Outside(t) /\ CallSeen(t) = Fifo!Calling("find", arg[t]) /\ CallSeen(t)' = Fifo!Done(result'[t])
  BY <1>1 DEF Outside, CallSeen, Fifo!Calling, Fifo!Done
<1>4. result'[t] = (arg[t] \in Fifo!ToSet(QueueSeen))
  <2>1. Fifo!ToSet(QueueSeen) = ToSet(QueueSeen)
    BY DEF Fifo!ToSet, ToSet
  <2>. QED
    BY <1>1, <1>2, <2>1, Zenon
<1>5. Fifo!Search(t)
  <2>1. CallsSeen' = [CallsSeen EXCEPT ![t] = Fifo!Done(arg[t] \in Fifo!ToSet(QueueSeen))]
    <3>1. CallsSeen' = [CallsSeen EXCEPT ![t] = CallSeen(t)'] /\ QueueSeen' = QueueSeen
      BY <1>3, OutsideSeen
    <3>2. CallSeen(t)' = Fifo!Done(arg[t] \in Fifo!ToSet(QueueSeen))
      BY <1>3, <1>4, Zenon
    <3>. QED
      BY <3>1, <3>2
  <2>2. CallsSeen[t].op = "find" /\ CallsSeen[t].item = arg[t]
    BY <1>3, FifoVars DEF Fifo!Calling
  <2>3. QueueSeen' = QueueSeen
    BY <1>3, OutsideSeen
  <2>. QED
    BY <2>1, <2>2, <2>3, Zenon DEF Fifo!Search, CallsSeen
<1>. QED
  BY <1>5 DEF Fifo!Next

(* At first the queue is empty and no thread calls it. *)
LEMMA FifoInit == Init => Fifo!Init
<1>. SUFFICES ASSUME Init PROVE Fifo!Init
  OBVIOUS
<1>1. IInv /\ ~ count > 0 /\ ~ Storing
  BY InitIInv DEF Init, Storing
<1>2. QueueSeen = <<>>
  BY <1>1, SeenIs, CountSeen DEF SeenAsHeld
<1>3. CallsSeen = [t \in Threads |-> Fifo!Idle]
  BY DEF Init, CallsSeen, CallSeen, Fifo!Idle
<1>. QED
  BY <1>2, <1>3 DEF Fifo!Init, CallsSeen

(* A step of the queue is a step of FifoQueue, or shows to nobody. *)
LEMMA FifoStep == IInv /\ IInv' /\ ClaimIsLast /\ [QueueNext]_vars => [Fifo!Next]_(Fifo!vars)
<1>. SUFFICES ASSUME IInv, IInv', ClaimIsLast, [QueueNext]_vars PROVE [Fifo!Next]_(Fifo!vars)
  OBVIOUS
<1>1. ASSUME NEW t \in Threads, QueueStep(t) PROVE [Fifo!Next]_(Fifo!vars)
  BY <1>1, FifoCalls, FifoMutex, FifoClaim, FifoStore, FifoPop, FifoPeek, FifoFind DEF QueueStep
<1>2. CASE UNCHANGED vars
  <2>1. QueueStays /\ CallsSeen' = CallsSeen
    BY <1>2 DEF vars, QueueStays, Storing, CallsSeen, CallSeen
  <2>. QED
    BY <2>1, SeenStays DEF Fifo!vars, CallsSeen
<1>. QED
  BY <1>1, <1>2 DEF QueueNext

---------------------------------------------------------------------------
(* A queued item is not written over.                                      *)

(* The slot at the tail index of a page with room holds no queued item.    *)
LEMMA AtFree ==
  ASSUME NEW e \in Indices, NEW c \in 0..PageCapacity, c < PageCapacity, NEW i \in 1..c
  PROVE  At(e, c, i) # e
<1>1. /\ c+1 \in 0..PageCapacity /\ i \in 1..c+1 /\ c+1 \in 1..c+1 /\ i # c+1 /\ Next1(e) \in Indices
  BY CapacityAssumption, NextIs
<1>2. At(Next1(e), c+1, i) = At(e, c, i) /\ At(Next1(e), c+1, c+1) = e
  BY AtAfterPush
<1>. QED
  BY <1>1, <1>2, AtDiffers

(* What it is for a slot to hold a queued item. *)
LEMMA InQueueAt ==
  ASSUME IInv, NEW p, NEW i, InQueue(p, i)
  PROVE  /\ \E m \in 1..Len(live) : p = live[m]
         /\ page[p].count \in 0..PageCapacity
         /\ \E n \in 1..page[p].count : i = At(page[p].onePastTailIndex, page[p].count, n)
<1>1. \E m \in 1..Len(live) : p = live[m]
  BY DEF InQueue, ToSet, IInv, TypeOK
<1>2. page[p].count \in 0..PageCapacity
  BY <1>1 DEF IInv, QueueShape
<1>. QED
  BY <1>1, <1>2 DEF InQueue, HeadIndex, At

(* A claim takes, and clears, a slot that no queued item is in. *)
Takes(t, q, e) ==
  /\ claimed' = [claimed EXCEPT ![t] = <<q, e>>]
  /\ slot' = slot \/ slot' = [slot EXCEPT ![q][e] = Zero]
  /\ ~ InQueue(q, e)

(* Push and PushEmpty take no other. *)
LEMMA ClaimTakes ==
  ASSUME IInv, IInv', NEW t \in Threads, NEW clear \in BOOLEAN, PushEmptyUnsafe(t, clear)
  PROVE  \E q \in Pages, e \in Indices : Takes(t, q, e)
<1>1. CASE page[tail].count < PageCapacity /\ ClaimSlot(t, tail, page[tail], page, clear)
  <2>. DEFINE e == page[tail].onePastTailIndex
  <2>1. tail \in Pages /\ e \in Indices /\ page[tail].count \in 0..PageCapacity
    BY TailPage
  <2>2. ~ InQueue(tail, e)
    BY <1>1, <2>1, InQueueAt, AtFree
  <2>3. Takes(t, tail, e)
    BY <1>1, <2>2 DEF ClaimSlot, Takes
  <2>. QED
    BY <2>1, <2>3
<1>2. CASE \E p \in Pages :
             /\ live' = Append(live, p)
             /\ ClaimSlot(t, p, EmptyPage, [page EXCEPT ![tail].next = p], clear)
  <2>1. PICK p \in Pages :
             /\ live' = Append(live, p)
             /\ ClaimSlot(t, p, EmptyPage, [page EXCEPT ![tail].next = p], clear)
    BY <1>2
  <2>3. \A n \in 1..Len(live) : live[n] # p
    BY <2>1, NewPageApart
  <2>4. ~ InQueue(p, 0)
    BY <2>3, InQueueAt
  <2>5. Takes(t, p, 0)
    BY <2>1, <2>4 DEF ClaimSlot, EmptyPage, Takes
  <2>6. 0 \in Indices
    BY CapacityAssumption DEF Indices
  <2>. QED
    BY <2>5, <2>6
<1>. QED
  BY <1>1, <1>2 DEF PushEmptyUnsafe

(* A thread that has a slot to fill. *)
Filling == {"push_store", "unlock_fill", "fill"}

(* How a step of thread t bears on a slot in the queue. *)
LEMMA StepOnSlot ==
  ASSUME IInv, IInv', NEW t \in Threads, QueueStep(t) \/ PushEmptyStep(t)
  PROVE  \/ \E q \in Pages, e \in Indices : Takes(t, q, e)
         \/ /\ pc'[t] \in Filling => pc[t] \in Filling /\ claimed'[t] = claimed[t]
            /\ \/ slot' = slot
               \/ /\ pc[t] \in Filling
                  /\ slot' = [slot EXCEPT ![claimed[t][1]][claimed[t][2]] = arg[t]]
<1>0. pc \in [Threads -> PcTypes]
  BY DEF IInv, TypeOK, PcTypes
<1>1. CASE \/ \E x \in Items : CallPush(t, x) \/ CallPushEmpty(t, x) \/ CallFind(t, x)
           \/ CallTryPop(t) \/ PeekCount(t) \/ Return(t)
  BY <1>0, <1>1 DEF CallPush, CallPushEmpty, CallFind, CallTryPop, PeekCount, Return, Goto,
       queueVars, Filling
<1>2. CASE Acquire(t)
  <2>1. /\ pc[t] \in {"push", "pushempty", "pop", "find"} /\ UNCHANGED <<queueVars, callVars>>
        /\ pc' = [pc EXCEPT ![t] = AfterLock[pc[t]]]
    BY <1>2 DEF Acquire, AfterLock, Goto
  <2>2. AfterLock[pc[t]] \notin Filling
    BY <2>1 DEF AfterLock, Filling
  <2>. QED
    BY <1>0, <2>1, <2>2 DEF queueVars
<1>3. CASE Unlock(t) \/ UnlockToFill(t)
  BY <1>0, <1>3 DEF Unlock, UnlockToFill, Release, Goto, queueVars, callVars, Filling
<1>4. CASE PushClaim(t) \/ PushEmptyClaim(t)
  <2>1. PICK clear \in BOOLEAN : PushEmptyUnsafe(t, clear)
    BY <1>4 DEF PushClaim, PushEmptyClaim
  <2>. QED
    BY <2>1, ClaimTakes
<1>5. CASE PushStore(t) \/ CallerFills(t)
  BY <1>0, <1>5 DEF PushStore, CallerFills, Goto, Filling
<1>6. CASE PopTake(t) \/ FindScan(t)
  BY <1>0, <1>6 DEF PopTake, FindScan, Goto, queueVars, Filling
<1>. QED
  BY <1>1, <1>2, <1>3, <1>4, <1>5, <1>6 DEF QueueStep, PushEmptyStep

(* No step changes a queued item or hands out its slot. *)
LEMMA StableStep ==
  ASSUME IInv, IInv', [Next]_vars
  PROVE  [\A p \in Pages, i \in Indices :
            InQueue(p, i) /\ ~ BeingFilled(p, i) =>
              slot'[p][i] = slot[p][i] /\ ~ BeingFilled(p, i)']_vars
<1>. SUFFICES ASSUME Next, NEW p \in Pages, NEW i \in Indices, InQueue(p, i), ~ BeingFilled(p, i)
              PROVE  slot'[p][i] = slot[p][i] /\ ~ BeingFilled(p, i)'
  BY DEF vars
<1>1. PICK t \in Threads : QueueStep(t) \/ PushEmptyStep(t)
  BY DEF Next
<1>2. \A u \in Threads : u # t => pc'[u] = pc[u] /\ claimed'[u] = claimed[u]
  BY <1>1, OneThread DEF IInv
<1>3. slot \in [Pages -> [Indices -> Values]] /\ claimed \in [Threads -> Slots \cup {NoSlot}]
  BY DEF IInv, TypeOK
<1>4. \A u \in Threads : pc[u] \in Filling => claimed[u] # <<p, i>>
  BY DEF BeingFilled, Filling
<1>5. SUFFICES /\ slot'[p][i] = slot[p][i]
               /\ pc'[t] \in Filling => claimed'[t] # <<p, i>>
  <2>1. \A u \in Threads : u # t => (pc'[u] \in Filling => claimed'[u] # <<p, i>>)
    BY <1>2, <1>4
  <2>. QED
    BY <1>5, <2>1 DEF BeingFilled, Filling
<1>6. CASE \E q \in Pages, e \in Indices : Takes(t, q, e)
  <2>1. PICK q \in Pages, e \in Indices : Takes(t, q, e)
    BY <1>6
  <2>2. ~ (q = p /\ e = i)
    BY <2>1 DEF Takes
  <2>. QED
    BY <1>3, <2>1, <2>2 DEF Takes
<1>7. CASE /\ pc'[t] \in Filling => pc[t] \in Filling /\ claimed'[t] = claimed[t]
           /\ \/ slot' = slot
              \/ /\ pc[t] \in Filling
                 /\ slot' = [slot EXCEPT ![claimed[t][1]][claimed[t][2]] = arg[t]]
  <2>1. pc'[t] \in Filling => claimed'[t] # <<p, i>>
    BY <1>4, <1>7
  <2>2. ASSUME pc[t] \in Filling, slot' = [slot EXCEPT ![claimed[t][1]][claimed[t][2]] = arg[t]]
        PROVE  slot'[p][i] = slot[p][i]
    <3>1. claimed[t] \in Slots /\ claimed[t] # <<p, i>>
      BY <1>4, <2>2 DEF IInv, PushesReady, Filling
    <3>. DEFINE q == claimed[t][1]
                e == claimed[t][2]
    <3>2. q \in Pages /\ e \in Indices /\ ~ (q = p /\ e = i)
      BY <3>1 DEF Slots
    <3>3. slot' = [slot EXCEPT ![q][e] = arg[t]]
      BY <2>2
    <3>. HIDE DEF q, e
    <3>. QED
      BY <1>3, <3>2, <3>3
  <2>. QED
    BY <1>7, <2>1, <2>2
<1>. QED
  BY <1>1, <1>6, <1>7, StepOnSlot

(* A queue without PushEmpty is one whose callers do not call it. *)
LEMMA QueueNextIsNext == [QueueNext]_vars => [Next]_vars
BY DEF QueueNext, Next

(* A stored item stays where it is, and its slot is given to no other      *)
(* push, until it is popped: the pointers that Push, PushEmpty and Find    *)
(* return stay good (datatypes.h:2535-2552, 2593-2600).                    *)
THEOREM StoredItemsStay == Spec => SlotsStable
<1>1. IInv /\ IInv' /\ [Next]_vars =>
        [\A p \in Pages, i \in Indices :
            InQueue(p, i) /\ ~ BeingFilled(p, i) =>
              slot'[p][i] = slot[p][i] /\ ~ BeingFilled(p, i)']_vars
  BY StableStep
<1>. QED
  BY <1>1, Invariance, PTL DEF Spec, SlotsStable

(* SyncQueue is a thread-safe first-in first-out queue, whatever its       *)
(* pages, their capacity and the threads that share it: every behaviour    *)
(* of Push, TryPop and Find is one of FifoQueue.                           *)
THEOREM QueueIsFifo == QueueSpec => FifoInPlace
<1>1. QueueSpec => Spec
  BY QueueNextIsNext, PTL DEF QueueSpec, Spec
<1>2. IInv /\ IInv' /\ ClaimIsLast /\ [QueueNext]_vars => ClaimIsLast'
  BY NextClaim, QueueNextIsNext
<1>3. QueueSpec => []IInv /\ []ClaimIsLast
  BY <1>1, <1>2, InitClaim, Invariance, PTL DEF QueueSpec
<1>4. QueueSpec => ImplementsFifo
  BY <1>3, FifoInit, FifoStep, PTL DEF QueueSpec, ImplementsFifo, Fifo!Spec
<1>. QED
  BY <1>1, <1>4, StoredItemsStay, PTL DEF FifoInPlace

=============================================================================
